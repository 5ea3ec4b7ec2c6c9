------------------------- MODULE CallProtocolProofs -------------------------
(***************************************************************************)
(* Proofs about CallProtocol, for any functions, any number of calls and   *)
(* any size of the struct: what a call finds on the stack, byte by byte.   *)
(***************************************************************************)
EXTENDS CallProtocol, RecursionTheorems, SequenceTheorems, TLAPS

-----------------------------------------------------------------------------
(* The inductive invariant: types. *)

Contexts == {"statement", "assign", "argument"}
Phases == {"args", "value", "body", "returned", "result"}

Values ==
  {Arg(c, i) : c \in Nat, i \in Nat} \cup {Result(c) : c \in Nat}
    \cup {<<"read", r>> : r \in Nat}
ArgLists == UNION {[1 .. k -> Values] : k \in Nat}
LocalSets == UNION {[D -> Values] : D \in SUBSET Type}

ActRecord ==
  [id : Nat, fn : Fun \cup {main}, ctx : Contexts, phase : Phases,
   next : Nat, offset : Nat, base : Int, frame : Int, drift : Int,
   args : ArgLists, result : Values, locals : LocalSets]

(* The activation of main, and that of a function.                         *)
MainOK(a) ==
  a.fn = main /\ a.phase = "body" /\ a.id = 0 /\ DOMAIN a.args = {}

CalledOK(a) ==
  /\ a.fn \in Fun
  /\ a.next \in 0 .. Len(Args[a.fn])
  /\ DOMAIN a.args = 1 .. Len(Args[a.fn])
  /\ a.result = Result(a.id)
  /\ a.offset <= 7 * (Len(Args[a.fn]) - a.next)
  /\ a.offset # 0 =>
       \E j \in DOMAIN Args[a.fn] : j > a.next /\ Args[a.fn][j] \in Prim
  /\ a.phase = "value" => a.next > 0
  /\ a.phase \in {"args", "value"} => DOMAIN a.locals = {} /\ a.drift = 0
  /\ a.ctx = "assign" => Ret[a.fn] # "void"

LocalsOK(a) == DOMAIN a.locals # {} => a.fn \in Framed

(* a waits for the call of b.                                              *)
WaitsFor(a, b) ==
  /\ a.phase \in {"body", "args"}
  /\ b.ctx = "argument" <=> a.phase = "args"
  /\ a.phase = "args" => /\ a.next > 0 /\ Args[a.fn][a.next] \in Prim
                         /\ Ret[b.fn] \in Prim
  /\ b.ctx = "assign" => a.fn \in Framed

ActsOK(A, c) ==
  /\ A \in Seq(ActRecord) /\ Len(A) \in 1 .. c + 1
  /\ MainOK(A[1])
  /\ \A n \in 2 .. Len(A) : CalledOK(A[n]) /\ WaitsFor(A[n - 1], A[n])
  /\ \A n \in 1 .. Len(A) : LocalsOK(A[n]) /\ A[n].id <= c

Typed ==
  /\ rsp \in Int /\ rbp \in Int /\ r15 \in Int
  /\ DOMAIN mem \subseteq Int
  /\ ActsOK(acts, calls)
  /\ calls \in 0 .. MaxCalls /\ reads \in 0 .. MaxReads /\ plain \in BOOLEAN
  /\ status \in {"run", "exit", "wild"}

-----------------------------------------------------------------------------
(* The inductive invariant: the shape of the stack, for all programs. *)

(* Where argument i of an activation belongs; i may be one past the last.  *)
Place(a, i) == a.base - ArgsSize(a.fn) + SizesBefore(Args[a.fn], i)

(* What EvalArgument pushes.                                               *)
Pushed(a) == IF Args[a.fn][a.next] \in Prim THEN 8 ELSE StructSize

InBody(a) == a.phase = "body"

(* What is at or above the floor of an activation belongs to it, or to     *)
(* those that wait for it.                                                 *)
Floor(a) ==
  IF InBody(a) THEN a.frame - Frame(a.fn)
  ELSE Place(a, a.next + 1) - a.offset

(* Where what belongs to a function ends.                                  *)
Ceiling(a) == a.base + Slot(a.fn)

(* The activation b was begun while a waited.                              *)
Under(a, b) == a.id < b.id /\ Ceiling(b) <= Floor(a)

Nested(A) == \A n \in 1 .. Len(A) : \A k \in 1 .. n - 1 : Under(A[k], A[n])

(* The current activation, by what it is doing, when rsp is s.             *)
SavedAt(m, x, top) == \E v \in Int : v <= top /\ Holds(m, x, Address(v), 8)

Current(a, m, s) ==
  /\ a.phase \in {"args", "body"} => s <= Floor(a)
  /\ a.phase = "value" => s + Pushed(a) <= Floor(a)
  /\ a.phase = "returned" => SavedAt(m, s, a.base)
  /\ a.phase = "result" => s <= a.base

(* What a function that runs has saved.                                    *)
Saved(a, m) ==
  /\ a.frame + 24 + ArgsSize(a.fn) <= a.base
  /\ Holds(m, a.frame + 8, Return(a.id), 8)
  /\ SavedAt(m, a.frame + 16, a.base)

(* The k-th is the last function entered before the n-th.                  *)
Outer(A, k, n) ==
  k \in 1 .. n - 1 /\ InBody(A[k]) /\ \A j \in k + 1 .. n - 1 : ~InBody(A[j])

FramesLinked(A, m) ==
  \A n \in 2 .. Len(A) : \A k \in 1 .. n - 1 :
    InBody(A[n]) /\ Outer(A, k, n) =>
      Holds(m, A[n].frame, Address(A[k].frame), 8)

Framing(A, b) ==
  \A k \in 1 .. Len(A) : Outer(A, k, Len(A) + 1) => b = A[k].frame

(* The bytes of a return address are where its call put them, and nowhere  *)
(* else, until the function returns.                                       *)
ReturnsUnique(A, m, last) ==
  \A x \in Int, c \in 1 .. MaxCalls, k \in 0 .. 7 :
    Byte(m, x) = <<Return(c), k>> =>
      /\ c <= last
      /\ \A n \in 2 .. Len(A) : A[n].id = c =>
           \/ A[n].phase \in {"returned", "result"}
           \/ InBody(A[n]) /\ x = A[n].frame + 8 + k

StackOK(A, m, s, b, r, last) ==
  /\ Nested(A)
  /\ Current(A[Len(A)], m, s)
  /\ Len(A) > 1 => r <= A[Len(A)].base
  /\ \A n \in 2 .. Len(A) : InBody(A[n]) => Saved(A[n], m)
  /\ FramesLinked(A, m)
  /\ Framing(A, b)
  /\ ReturnsUnique(A, m, last)

Stacked == StackOK(acts, mem, rsp, rbp, r15, calls)

-----------------------------------------------------------------------------
(* The inductive invariant: what is where, unless a call was irregular. *)

(* The arguments from the i-th on are where they belong.                   *)
ArgumentsFrom(a, m, i) ==
  \A j \in i .. Len(Args[a.fn]) :
    Holds(m, Place(a, j), a.args[j], Size(Args[a.fn][j]))

LocalsHold(a, m) ==
  \A type \in DOMAIN a.locals :
    Holds(m, a.frame + LocalAt(type), a.locals[type], Size(type))

ResultAt(a, m) == Holds(m, a.base, a.result, Size(Ret[a.fn]))

RegularArgs(f) ==
  ~ \E i, j \in DOMAIN Args[f] :
      i < j /\ Args[f][i] = "struct" /\ Args[f][j] \in Prim

RegularCall(a, m) ==
  /\ a.ctx # "argument"
  /\ RegularArgs(a.fn)
  /\ InBody(a) => /\ a.frame + 24 + ArgsSize(a.fn) = a.base
                  /\ ArgumentsFrom(a, m, 1)
                  /\ Holds(m, a.frame + 16, Address(a.base), 8)

CurrentExact(a, m, s, r) ==
  /\ a.phase = "args" =>
       s = Floor(a) /\ r = a.base /\ ArgumentsFrom(a, m, a.next + 1)
  /\ a.phase = "value" =>
       /\ s + Pushed(a) = Floor(a) /\ r = a.base
       /\ ArgumentsFrom(a, m, a.next + 1)
       /\ Holds(m, s, a.args[a.next], Pushed(a))
  /\ a.phase = "body" => s = Floor(a) - a.drift
  /\ a.phase = "returned" => Holds(m, s, Address(a.base), 8) /\ ResultAt(a, m)
  /\ a.phase = "result" => s = a.base /\ ResultAt(a, m)

ExactOK(A, m, s, r) ==
  /\ \A n \in 2 .. Len(A) :
       /\ RegularCall(A[n], m)
       /\ Ceiling(A[n]) = Floor(A[n - 1]) - A[n - 1].drift
  /\ \A n \in 1 .. Len(A) : InBody(A[n]) => LocalsHold(A[n], m)
  /\ CurrentExact(A[Len(A)], m, s, r)

Exact == ExactOK(acts, mem, rsp, r15) /\ status # "wild"

IInv == Typed /\ Stacked /\ (plain => Exact)

-----------------------------------------------------------------------------
(* Sizes. *)

(* The sizes of the types, of the place of a result and of a frame.        *)
LEMMA SizeFacts ==
  /\ Size("int") = 4 /\ Size("char") = 1 /\ Size("struct") = StructSize
  /\ Size("void") = 0 /\ StructSize \in Nat
  /\ \A t \in Type : Size(t) \in Nat
  /\ \A t \in Prim : Size(t) \in {1, 4}
  /\ Type = {"int", "char", "struct"} /\ Prim = {"int", "char"}
<1>1. /\ Size("int") = 4 /\ Size("char") = 1 /\ Size("struct") = StructSize
      /\ Size("void") = 0
  BY DEF Size
<1>2. Type = {"int", "char", "struct"} /\ Prim = {"int", "char"}
  BY DEF Type, Prim
<1>. QED
  BY <1>1, <1>2, SizeAssumption

(* A result's slot is large enough for it; only void takes none.           *)
LEMMA SlotFacts ==
  ASSUME NEW f \in Fun
  PROVE  /\ Slot(f) \in Nat /\ Size(Ret[f]) \in Nat /\ Size(Ret[f]) <= Slot(f)
         /\ Ret[f] \in Type \cup {"void"}
         /\ Ret[f] \in Prim => Slot(f) = 8
         /\ Ret[f] = "void" => Slot(f) = 0 /\ Size(Ret[f]) = 0
         /\ Args[f] \in Seq(Type) /\ f # main
<1>1. Ret[f] \in Type \cup {"void"} /\ Args[f] \in Seq(Type) /\ f # main
  BY FunAssumption
<1>2. CASE Ret[f] = "void"
  BY <1>1, <1>2, SizeFacts DEF Slot
<1>3. CASE Ret[f] = "struct"
  BY <1>1, <1>3, SizeFacts DEF Slot
<1>4. CASE Ret[f] \in Prim
  BY <1>1, <1>4, SizeFacts DEF Slot
<1>. QED
  BY <1>1, <1>2, <1>3, <1>4, SizeFacts

(* The bytes a prologue reserves: one char, one int and one struct.        *)
LEMMA FrameFacts ==
  ASSUME NEW f
  PROVE  Frame(f) \in Nat /\ (f \in Framed => Frame(f) = 5 + StructSize)
BY SizeFacts DEF Frame

(* The locals of a function lie side by side below its frame pointer.      *)
LEMMA LocalFacts ==
  /\ LocalAt("int") = -4 /\ LocalAt("char") = -5
  /\ LocalAt("struct") = -5 - StructSize
BY DEF LocalAt

(* The room of the arguments before the first, the next and all.           *)
LEMMA BeforeFacts ==
  ASSUME NEW f \in Fun
  PROVE  /\ SizesBefore(Args[f], 1) = 0
         /\ ArgsSize(f) = SizesBefore(Args[f], Len(Args[f]) + 1)
         /\ \A i \in 1 .. Len(Args[f]) + 1 : SizesBefore(Args[f], i) \in Nat
         /\ \A i \in 1 .. Len(Args[f]) :
              SizesBefore(Args[f], i + 1)
                = SizesBefore(Args[f], i) + Size(Args[f][i])
<1>. DEFINE T == Args[f]
            n == Len(T)
<1>1. T \in Seq(Type) /\ n \in Nat /\ DOMAIN T = 1 .. n
  BY SlotFacts
<1>2. \A j \in 1 .. n : Sizes(T)[j] = Size(T[j]) /\ Sizes(T)[j] \in Nat
  BY <1>1, SizeFacts DEF Sizes
<1>. HIDE DEF T, n
<1>3. SizesBefore(T, 1) = 0
  <2>1. 1 .. 1 - 1 = {}
    OBVIOUS
  <2>. QED
    BY <2>1, SumEmpty DEF SizesBefore
<1>4. ASSUME NEW i \in 1 .. n + 1
      PROVE  SizesBefore(T, i) \in Nat
  <2>1. IsFiniteSet(1 .. i - 1)
    <3>1. 1 \in Int /\ i - 1 \in Int
      BY <1>1
    <3>. QED
      BY <3>1, FS_Interval
  <2>2. \A j \in 1 .. i - 1 : Sizes(T)[j] \in Nat
    BY <1>1, <1>2
  <2>. QED
    BY <2>1, <2>2, SumNat DEF SizesBefore
<1>5. ASSUME NEW i \in 1 .. n
      PROVE  SizesBefore(T, i + 1) = SizesBefore(T, i) + Size(T[i])
  <2>. DEFINE S == 1 .. i - 1
  <2>0. IsFiniteSet(S)
    <3>1. 1 \in Int /\ i - 1 \in Int
      BY <1>1
    <3>. QED
      BY <3>1, FS_Interval
  <2>1. i \notin S /\ 1 .. (i + 1) - 1 = S \cup {i}
    BY <1>1
  <2>2. \A j \in S \cup {i} : Sizes(T)[j] \in Int
    BY <1>1, <1>2
  <2>. HIDE DEF S
  <2>3. SumFunctionOnSet(Sizes(T), S \cup {i})
          = SumFunctionOnSet(Sizes(T), S) + Sizes(T)[i]
    BY <2>0, <2>1, <2>2, SumAdd
  <2>. QED
    BY <1>2, <2>1, <2>3 DEF SizesBefore, S
<1>6. ArgsSize(f) = SizesBefore(T, n + 1)
  BY DEF ArgsSize, T, n
<1>. QED
  BY <1>3, <1>4, <1>5, <1>6 DEF T, n

(* The room before an argument grows with its number.                      *)
LEMMA BeforeMonotone ==
  ASSUME NEW f \in Fun, NEW i \in 1 .. Len(Args[f]) + 1,
         NEW j \in 1 .. Len(Args[f]) + 1, i <= j
  PROVE  SizesBefore(Args[f], i) <= SizesBefore(Args[f], j)
<1>. DEFINE n == Len(Args[f])
            B(k) == SizesBefore(Args[f], k)
            Bad == {k \in i .. n + 1 : B(k) < B(i)}
<1>1. n \in Nat /\ \A k \in 1 .. n : Args[f][k] \in Type
  BY SlotFacts
<1>2. SUFFICES ASSUME Bad # {} PROVE FALSE
  BY <1>1, BeforeFacts, SMTT(30)
<1>3. Bad \in SUBSET Nat
  BY <1>1
<1>. HIDE DEF Bad
<1>4. PICK k \in Bad : \A l \in Bad : k <= l
  BY <1>2, <1>3, LeastNatural
<1>5. k \in i .. n + 1 /\ B(k) < B(i)
  BY <1>4 DEF Bad
<1>6. k # i
  BY <1>1, <1>5, BeforeFacts
<1>. HIDE DEF n
<1>7. k - 1 \in i .. n /\ k - 1 \notin Bad
  BY <1>1, <1>3, <1>4, <1>5, <1>6
<1>. HIDE DEF B
<1>8. B(k - 1) >= B(i)
  <2>1. \A l \in 1 .. n + 1 : B(l) \in Nat
    BY BeforeFacts DEF B, n
  <2>2. k - 1 \in i .. n + 1 /\ i \in 1 .. n + 1 /\ k - 1 \in 1 .. n + 1
    BY <1>1, <1>7 DEF n
  <2>. QED
    BY <1>7, <2>1, <2>2 DEF Bad
<1>9. B(k) = B(k - 1) + Size(Args[f][k - 1]) /\ Size(Args[f][k - 1]) \in Nat
  <2>1. k - 1 \in 1 .. n /\ (k - 1) + 1 = k
    BY <1>1, <1>5, <1>7 DEF n
  <2>2. B((k - 1) + 1) = B(k - 1) + Size(Args[f][k - 1])
    BY <2>1, BeforeFacts DEF B, n
  <2>. QED
    BY <1>1, <2>1, <2>2, SizeFacts
<1>10. B(k) \in Nat /\ B(k - 1) \in Nat /\ B(i) \in Nat
  <2>1. k \in 1 .. n + 1 /\ k - 1 \in 1 .. n + 1
    BY <1>1, <1>5, <1>7 DEF n
  <2>. QED
    BY <2>1, BeforeFacts DEF B, n
<1>. QED
  BY <1>5, <1>8, <1>9, <1>10

-----------------------------------------------------------------------------
(* Memory. *)

(* What a byte is after a write, a copy and a call of scanf.               *)
LEMMA WriteByte ==
  ASSUME NEW m, NEW a \in Int, NEW v, NEW n \in Nat, NEW x \in Int
  PROVE  Byte(Write(m, a, v, n), x)
           = IF a <= x /\ x < a + n THEN <<v, x - a>> ELSE Byte(m, x)
<1>1. x \in a .. a + n - 1 <=> a <= x /\ x < a + n
  OBVIOUS
<1>. QED
  BY <1>1 DEF Byte, Write

(* A byte after a copy: from the source where the target was, as before    *)
(* elsewhere.                                                              *)
LEMMA CopyByte ==
  ASSUME NEW m, NEW from \in Int, NEW to \in Int, NEW n \in Nat, NEW x \in Int
  PROVE  Byte(Copy(m, from, to, n), x)
           = IF to <= x /\ x < to + n THEN Byte(m, from + (x - to))
             ELSE Byte(m, x)
<1>1. x \in to .. to + n - 1 <=> to <= x /\ x < to + n
  OBVIOUS
<1>. QED
  BY <1>1 DEF Byte, Copy

(* A byte after the stack below a is given back.                           *)
LEMMA AboveByte ==
  ASSUME NEW m, NEW a \in Int, NEW x \in Int
  PROVE  Byte(Above(m, a), x) = IF x >= a THEN Byte(m, x) ELSE Unwritten
BY DEF Byte, Above

(* A value stays where no byte of it changes, is where it was written, and *)
(* its copy is the same.                                                   *)
LEMMA HoldsSame ==
  ASSUME NEW m, NEW m2, NEW a \in Int, NEW n \in Int, NEW v, Holds(m, a, v, n),
         \A x \in Int : a <= x /\ x < a + n => Byte(m2, x) = Byte(m, x)
  PROVE  Holds(m2, a, v, n)
BY DEF Holds

(* What was just written is there, and so is its first part.               *)
LEMMA HoldsWritten ==
  ASSUME NEW m, NEW a \in Int, NEW v, NEW n \in Nat, NEW l \in Int, l <= n
  PROVE  Holds(Write(m, a, v, n), a, v, l)
BY WriteByte DEF Holds

(* A value that is copied is at both places.                               *)
LEMMA HoldsCopied ==
  ASSUME NEW m, NEW from \in Int, NEW to \in Int, NEW n \in Nat, NEW v,
         Holds(m, from, v, n)
  PROVE  Holds(Copy(m, from, to, n), to, v, n)
<1>1. SUFFICES ASSUME NEW k \in 0 .. n - 1
               PROVE  Byte(Copy(m, from, to, n), to + k) = <<v, k>>
  BY DEF Holds
<1>2. Byte(Copy(m, from, to, n), to + k) = Byte(m, from + k)
  <2>1. to + k \in Int /\ to <= to + k /\ to + k < to + n
        /\ from + ((to + k) - to) = from + k
    OBVIOUS
  <2>. QED
    BY <2>1, CopyByte
<1>. QED
  BY <1>2 DEF Holds

(* A value that lies whole at a place lies there in part.                  *)
LEMMA HoldsLess ==
  ASSUME NEW m, NEW a, NEW v, NEW n \in Int, NEW l \in Int, l <= n,
         Holds(m, a, v, n)
  PROVE  Holds(m, a, v, l)
BY DEF Holds

(* What RET and POP find where a value is.                                 *)
LEMMA WordsHeld ==
  ASSUME NEW m, NEW a \in Int, NEW v, NEW kind, v[1] = kind,
         Holds(m, a, v, 8)
  PROVE  Words(m, a, kind) = {v}
<1>1. Byte(m, a) = <<v, 0>>
  <2>1. 0 \in 0 .. 8 - 1 /\ a + 0 = a
    OBVIOUS
  <2>. QED
    BY <2>1 DEF Holds
<1>. QED
  BY <1>1 DEF Words

(* A copy of no bytes changes nothing.                                     *)
LEMMA CopyNothing ==
  ASSUME NEW m, NEW from \in Int, NEW to \in Int, NEW x \in Int
  PROVE  Byte(Copy(m, from, to, 0), x) = Byte(m, x)
BY CopyByte

(* The memory is the same from an address on.                              *)
Quiet(m, m2, lim) == \A x \in Int : x >= lim => Byte(m2, x) = Byte(m, x)

-----------------------------------------------------------------------------
(* What a function that waits finds again. *)

(* The lowest byte a call uses is a number, below its frame or its base.   *)
LEMMA FloorFacts ==
  ASSUME NEW a \in ActRecord, CalledOK(a) \/ MainOK(a)
  PROVE  /\ Floor(a) \in Int
         /\ InBody(a) => Floor(a) <= a.frame
         /\ CalledOK(a) => /\ Ceiling(a) \in Int /\ a.base <= Ceiling(a)
                           /\ ~InBody(a) => Floor(a) <= a.base
<1>1. /\ a.frame \in Int /\ a.base \in Int /\ a.offset \in Nat
      /\ Frame(a.fn) \in Nat
  BY FrameFacts DEF ActRecord
<1>2. CASE MainOK(a)
  <2>1. InBody(a) /\ ~CalledOK(a)
    BY <1>2, SlotFacts DEF MainOK, InBody, CalledOK
  <2>. QED
    BY <1>1, <2>1 DEF Floor
<1>3. CASE CalledOK(a)
  <2>1. a.fn \in Fun /\ a.next \in 0 .. Len(Args[a.fn]) /\ Slot(a.fn) \in Nat
        /\ Len(Args[a.fn]) \in Nat
    BY <1>3, SlotFacts DEF CalledOK
  <2>2. a.next + 1 \in 1 .. Len(Args[a.fn]) + 1
        /\ Len(Args[a.fn]) + 1 \in 1 .. Len(Args[a.fn]) + 1
    BY <2>1
  <2>3. /\ SizesBefore(Args[a.fn], a.next + 1) \in Nat
        /\ ArgsSize(a.fn) \in Nat
        /\ SizesBefore(Args[a.fn], a.next + 1) <= ArgsSize(a.fn)
    <3>1. SizesBefore(Args[a.fn], a.next + 1) \in Nat /\ ArgsSize(a.fn) \in Nat
      BY <2>1, <2>2, BeforeFacts
    <3>2. SizesBefore(Args[a.fn], a.next + 1) <= ArgsSize(a.fn)
      BY <2>1, <2>2, BeforeMonotone, BeforeFacts
    <3>. QED
      BY <3>1, <3>2
  <2>4. /\ Ceiling(a) = a.base + Slot(a.fn)
        /\ Floor(a) = IF InBody(a) THEN a.frame - Frame(a.fn)
                      ELSE (a.base - ArgsSize(a.fn)
                              + SizesBefore(Args[a.fn], a.next + 1)) - a.offset
    BY DEF Floor, Ceiling, Place
  <2>. QED
    BY <1>1, <2>1, <2>3, <2>4, SMTT(30) DEF InBody
<1>. QED
  BY <1>2, <1>3

(* Where an argument belongs lies between the frame and the base.          *)
LEMMA PlaceFacts ==
  ASSUME NEW a \in ActRecord, CalledOK(a), NEW i \in 1 .. Len(Args[a.fn])
  PROVE  /\ Place(a, i) \in Int /\ Place(a, i + 1) \in Int
         /\ Args[a.fn][i] \in Type /\ Size(Args[a.fn][i]) \in Nat
         /\ Place(a, i + 1) = Place(a, i) + Size(Args[a.fn][i])
         /\ a.base - ArgsSize(a.fn) <= Place(a, i)
         /\ Place(a, i + 1) <= a.base
         /\ \A j \in 1 .. i : Place(a, j) <= Place(a, i)
<1>1. /\ a.fn \in Fun /\ a.base \in Int /\ Args[a.fn] \in Seq(Type)
      /\ Len(Args[a.fn]) \in Nat
  BY SlotFacts DEF CalledOK, ActRecord
<1>2. Args[a.fn][i] \in Type /\ Size(Args[a.fn][i]) \in Nat
  BY <1>1, SizeFacts
<1>3. i + 1 \in 1 .. Len(Args[a.fn]) + 1 /\ i \in 1 .. Len(Args[a.fn]) + 1
      /\ Len(Args[a.fn]) + 1 \in 1 .. Len(Args[a.fn]) + 1
      /\ 1 \in 1 .. Len(Args[a.fn]) + 1
      /\ \A j \in 1 .. i : j \in 1 .. Len(Args[a.fn]) + 1
  BY <1>1
<1>. DEFINE B(k) == SizesBefore(Args[a.fn], k)
<1>4. /\ B(i) \in Nat /\ B(i + 1) \in Nat /\ ArgsSize(a.fn) \in Nat
      /\ B(i + 1) = B(i) + Size(Args[a.fn][i]) /\ B(i + 1) <= ArgsSize(a.fn)
      /\ \A j \in 1 .. i : B(j) \in Nat /\ B(j) <= B(i)
  <2>1. B(i) \in Nat /\ B(i + 1) \in Nat /\ ArgsSize(a.fn) \in Nat
        /\ B(i + 1) = B(i) + Size(Args[a.fn][i])
        /\ ArgsSize(a.fn) = B(Len(Args[a.fn]) + 1)
    BY <1>1, <1>3, BeforeFacts
  <2>2. B(i + 1) <= B(Len(Args[a.fn]) + 1)
    BY <1>1, <1>3, BeforeMonotone
  <2>3. \A j \in 1 .. i : B(j) \in Nat /\ B(j) <= B(i)
    BY <1>1, <1>3, BeforeFacts, BeforeMonotone
  <2>. QED
    BY <2>1, <2>2, <2>3
<1>. HIDE DEF B
<1>5. Place(a, i) = a.base - ArgsSize(a.fn) + B(i)
      /\ Place(a, i + 1) = a.base - ArgsSize(a.fn) + B(i + 1)
      /\ \A j \in 1 .. i : Place(a, j) = a.base - ArgsSize(a.fn) + B(j)
  BY DEF Place, B
<1>6. ArgsSize(a.fn) \in Nat /\ a.base \in Int
  BY <1>1, <1>4
<1>7. /\ Place(a, i) \in Int /\ Place(a, i + 1) \in Int
      /\ Place(a, i + 1) = Place(a, i) + Size(Args[a.fn][i])
      /\ a.base - ArgsSize(a.fn) <= Place(a, i)
      /\ Place(a, i + 1) <= a.base
  BY <1>2, <1>4, <1>5, <1>6, SMTT(30)
<1>8. \A j \in 1 .. i : Place(a, j) <= Place(a, i)
  BY <1>4, <1>5, <1>6
<1>. QED
  BY <1>2, <1>7, <1>8

(* What a function saved, its arguments and its locals stay, when nothing  *)
(* from its floor on changes.                                              *)
LEMMA SavedKept ==
  ASSUME NEW a \in ActRecord, NEW m, NEW m2, Quiet(m, m2, a.frame), Saved(a, m)
  PROVE  Saved(a, m2)
<1>1. a.frame \in Int /\ a.base \in Int
  BY DEF ActRecord
<1>2. Holds(m2, a.frame + 8, Return(a.id), 8)
  <2>1. \A x \in Int : a.frame + 8 <= x /\ x < a.frame + 8 + 8
          => Byte(m2, x) = Byte(m, x)
    BY <1>1 DEF Quiet
  <2>. QED
    BY <1>1, <2>1, HoldsSame DEF Saved
<1>3. SavedAt(m2, a.frame + 16, a.base)
  <2>1. PICK v \in Int : v <= a.base /\ Holds(m, a.frame + 16, Address(v), 8)
    BY DEF Saved, SavedAt
  <2>2. \A x \in Int : a.frame + 16 <= x /\ x < a.frame + 16 + 8
          => Byte(m2, x) = Byte(m, x)
    BY <1>1 DEF Quiet
  <2>3. Holds(m2, a.frame + 16, Address(v), 8)
    BY <1>1, <2>1, <2>2, HoldsSame
  <2>. QED
    BY <2>1, <2>3 DEF SavedAt
<1>. QED
  BY <1>2, <1>3 DEF Saved

(* A call's arguments and saved rsp stay when nothing at or above its      *)
(* frame is written.                                                       *)
LEMMA RegularKept ==
  ASSUME NEW a \in ActRecord, CalledOK(a), NEW m, NEW m2, InBody(a),
         Quiet(m, m2, a.frame), RegularCall(a, m)
  PROVE  RegularCall(a, m2)
<1>1. a.frame \in Int /\ a.base \in Int /\ a.fn \in Fun
  BY DEF ActRecord, CalledOK
<1>2. Len(Args[a.fn]) \in Nat /\ ArgsSize(a.fn) \in Nat
  BY <1>1, SlotFacts, BeforeFacts
<1>3. a.frame + 24 + ArgsSize(a.fn) = a.base
  BY DEF RegularCall
<1>4. ASSUME NEW j \in 1 .. Len(Args[a.fn])
      PROVE  Holds(m2, Place(a, j), a.args[j], Size(Args[a.fn][j]))
  <2>1. /\ Place(a, j) \in Int /\ Size(Args[a.fn][j]) \in Int
        /\ a.frame <= Place(a, j)
    <3>1. /\ Place(a, j) \in Int /\ Size(Args[a.fn][j]) \in Nat
          /\ a.base - ArgsSize(a.fn) <= Place(a, j)
      BY PlaceFacts
    <3>. QED
      BY <1>1, <1>2, <1>3, <3>1
  <2>2. Holds(m, Place(a, j), a.args[j], Size(Args[a.fn][j]))
    BY DEF RegularCall, ArgumentsFrom
  <2>3. \A x \in Int : Place(a, j) <= x /\ x < Place(a, j) + Size(Args[a.fn][j])
          => Byte(m2, x) = Byte(m, x)
    BY <1>1, <2>1 DEF Quiet
  <2>. QED
    BY <2>1, <2>2, <2>3, HoldsSame
<1>5. Holds(m2, a.frame + 16, Address(a.base), 8)
  <2>1. \A x \in Int : a.frame + 16 <= x /\ x < a.frame + 16 + 8
          => Byte(m2, x) = Byte(m, x)
    BY <1>1 DEF Quiet
  <2>. QED
    BY <1>1, <2>1, HoldsSame DEF RegularCall
<1>. QED
  BY <1>4, <1>5 DEF RegularCall, ArgumentsFrom

(* Where the local of a type is.                                           *)
LEMMA LocalPlace ==
  ASSUME NEW a \in ActRecord, LocalsOK(a), NEW t \in DOMAIN a.locals
  PROVE  /\ t \in Type /\ a.fn \in Framed
         /\ a.frame + LocalAt(t) \in Int /\ Size(t) \in Nat
         /\ a.frame - Frame(a.fn) <= a.frame + LocalAt(t)
         /\ a.frame + LocalAt(t) + Size(t) <= a.frame
<1>1. a.locals \in LocalSets /\ a.frame \in Int
  BY DEF ActRecord
<1>2. t \in Type
  BY <1>1 DEF LocalSets
<1>3. a.fn \in Framed /\ Frame(a.fn) = 5 + StructSize /\ StructSize \in Nat
  BY FrameFacts, SizeFacts DEF LocalsOK
<1>4. CASE t = "int"
  BY <1>1, <1>2, <1>3, <1>4, SizeFacts, LocalFacts
<1>5. CASE t = "char"
  BY <1>1, <1>2, <1>3, <1>5, SizeFacts, LocalFacts
<1>6. CASE t = "struct"
  BY <1>1, <1>2, <1>3, <1>6, SizeFacts, LocalFacts
<1>. QED
  BY <1>2, <1>4, <1>5, <1>6, SizeFacts

(* The locals hold when nothing at or above the end of the frame is        *)
(* written.                                                                *)
LEMMA LocalsStay ==
  ASSUME NEW a \in ActRecord, LocalsOK(a), NEW m, NEW m2,
         Quiet(m, m2, a.frame - Frame(a.fn)), LocalsHold(a, m)
  PROVE  LocalsHold(a, m2)
<1>1. SUFFICES ASSUME NEW t \in DOMAIN a.locals
               PROVE  Holds(m2, a.frame + LocalAt(t), a.locals[t], Size(t))
  BY DEF LocalsHold
<1>2. /\ a.frame + LocalAt(t) \in Int /\ Size(t) \in Int
      /\ a.frame - Frame(a.fn) <= a.frame + LocalAt(t)
      /\ a.frame - Frame(a.fn) \in Int
  BY LocalPlace, FrameFacts DEF ActRecord
<1>3. \A x \in Int : a.frame + LocalAt(t) <= x
                       /\ x < a.frame + LocalAt(t) + Size(t)
        => Byte(m2, x) = Byte(m, x)
  BY <1>2 DEF Quiet
<1>4. Holds(m, a.frame + LocalAt(t), a.locals[t], Size(t))
  BY DEF LocalsHold
<1>. QED
  BY <1>2, <1>3, <1>4, HoldsSame

-----------------------------------------------------------------------------
(* The activations after a step: those below the N-th as before, then a.   *)

After(A, B, N, a) ==
  /\ B \in Seq(ActRecord) /\ Len(B) = N /\ B[N] = a
  /\ \A n \in 1 .. N - 1 : B[n] = A[n]

(* a is the N-th activation, which has done something.                     *)
Same(A, N, a) ==
  /\ a \in ActRecord /\ a.id = A[N].id /\ a.fn = A[N].fn
  /\ a.base = A[N].base /\ a.ctx = A[N].ctx

(* What ActsOK says of each call of the stack and of main at its bottom.   *)
LEMMA ActsFacts ==
  ASSUME NEW c \in Nat, NEW A, ActsOK(A, c)
  PROVE  /\ Len(A) \in Nat /\ Len(A) >= 1
         /\ \A n \in 1 .. Len(A) :
              /\ A[n] \in ActRecord /\ LocalsOK(A[n]) /\ A[n].id <= c
              /\ CalledOK(A[n]) \/ MainOK(A[n])
              /\ n > 1 => CalledOK(A[n]) /\ WaitsFor(A[n - 1], A[n])
         /\ MainOK(A[1])
BY DEF ActsOK

(* The stack stays in order when one of its calls changes to a record      *)
(* that is in order, and those above it are cut off.                       *)
LEMMA ActsKept ==
  ASSUME NEW c \in Nat, NEW A, ActsOK(A, c), NEW N \in 1 .. Len(A), NEW a,
         Same(A, N, a), LocalsOK(a),
         IF N = 1 THEN MainOK(a) ELSE CalledOK(a),
         NEW B, After(A, B, N, a)
  PROVE  ActsOK(B, c)
<1>1. /\ B \in Seq(ActRecord) /\ Len(B) = N /\ N \in Nat /\ N <= Len(A)
      /\ Len(A) \in Nat /\ Len(A) <= c + 1
  BY DEF After, ActsOK
<1>2. MainOK(B[1])
  BY <1>1 DEF After, ActsOK
<1>3. ASSUME NEW n \in 2 .. N
      PROVE  CalledOK(B[n]) /\ WaitsFor(B[n - 1], B[n])
  <2>1. /\ CalledOK(A[n]) /\ WaitsFor(A[n - 1], A[n])
        /\ n - 1 \in 1 .. N - 1
    BY <1>1 DEF ActsOK
  <2>2. B[n - 1] = A[n - 1]
    BY <2>1 DEF After
  <2>3. CASE n = N
    BY <1>1, <2>1, <2>2, <2>3 DEF After, Same, WaitsFor
  <2>4. CASE n # N
    <3>1. n \in 1 .. N - 1
      BY <1>1, <2>4
    <3>2. B[n] = A[n]
      BY <3>1 DEF After
    <3>. QED
      BY <2>1, <2>2, <3>2
  <2>. QED
    BY <2>3, <2>4
<1>4. ASSUME NEW n \in 1 .. N
      PROVE  LocalsOK(B[n]) /\ B[n].id <= c
  <2>1. LocalsOK(A[n]) /\ A[n].id <= c
    BY <1>1 DEF ActsOK
  <2>. QED
    BY <1>1, <2>1 DEF After, Same
<1>. QED
  BY <1>1, <1>2, <1>3, <1>4 DEF ActsOK

(* Which function was entered last, below an activation, does not change.  *)
LEMMA OuterKept ==
  ASSUME NEW A, NEW B, NEW N \in Nat, NEW a, After(A, B, N, a),
         NEW n \in 1 .. N, NEW k
  PROVE  Outer(B, k, n) <=> Outer(A, k, n)
<1>1. \A j \in 1 .. n - 1 : B[j] = A[j]
  BY DEF After
<1>2. k \in 1 .. n - 1 =>
        /\ B[k] = A[k]
        /\ \A j \in k + 1 .. n - 1 : j \in 1 .. n - 1
  BY <1>1
<1>. QED
  BY <1>1, <1>2 DEF Outer

(* A function that waits has its frame above all that is not its own.      *)
LEMMA WaitingAbove ==
  ASSUME NEW c \in Nat, NEW A, ActsOK(A, c), Nested(A),
         NEW N \in 1 .. Len(A), NEW k \in 1 .. N - 1, InBody(A[k])
  PROVE  /\ A[k] \in ActRecord /\ A[k].frame \in Int /\ Ceiling(A[N]) \in Int
         /\ Ceiling(A[N]) <= A[k].frame - Frame(A[k].fn)
         /\ Ceiling(A[N]) <= A[k].frame
         /\ Frame(A[k].fn) \in Nat
<1>1. N \in 2 .. Len(A) /\ k \in 1 .. Len(A)
  BY ActsFacts
<1>2. A[k] \in ActRecord /\ A[N] \in ActRecord /\ CalledOK(A[N])
  BY <1>1, ActsFacts
<1>3. Ceiling(A[N]) <= Floor(A[k]) /\ Floor(A[k]) = A[k].frame - Frame(A[k].fn)
  BY <1>1 DEF Nested, Under, Floor
<1>4. A[k].frame \in Int /\ Frame(A[k].fn) \in Nat /\ Ceiling(A[N]) \in Int
  BY <1>2, FrameFacts, FloorFacts DEF ActRecord
<1>. QED
  BY <1>2, <1>3, <1>4

(* The shape of the stack is kept by a step that writes below the ceiling  *)
(* of the activation it leaves on top, when that activation finds what it  *)
(* expects.                                                                *)
LEMMA StackKept ==
  ASSUME NEW c \in Nat, NEW A, ActsOK(A, c),
         NEW m, NEW s, NEW b, NEW r, StackOK(A, m, s, b, r, c),
         NEW N \in 1 .. Len(A), NEW a, Same(A, N, a), NEW B, After(A, B, N, a),
         NEW m2, NEW s2, NEW b2, NEW r2,
         N > 1 => Quiet(m, m2, Ceiling(A[N])),
         Current(a, m2, s2), N > 1 => r2 <= a.base,
         N > 1 /\ InBody(a) => Saved(a, m2),
         InBody(a) => b2 = a.frame,
         \A k \in 1 .. N - 1 : Outer(A, k, N) =>
           IF InBody(a) THEN Holds(m2, a.frame, Address(A[k].frame), 8)
           ELSE b2 = A[k].frame,
         ReturnsUnique(B, m2, c)
  PROVE  StackOK(B, m2, s2, b2, r2, c)
<1>1. /\ Len(B) = N /\ B[N] = a /\ N \in Nat /\ Len(A) \in Nat /\ N <= Len(A)
      /\ \A n \in 1 .. N - 1 : B[n] = A[n]
  BY DEF After, ActsOK
<1>2. Nested(B)
  <2>1. SUFFICES ASSUME NEW n \in 1 .. N, NEW k \in 1 .. n - 1
                 PROVE  Under(B[k], B[n])
    BY <1>1 DEF Nested
  <2>2. Under(A[k], A[n]) /\ B[k] = A[k]
    BY <1>1 DEF StackOK, Nested
  <2>3. CASE n = N
    BY <1>1, <2>2, <2>3 DEF Under, Same, Ceiling
  <2>4. CASE n # N
    BY <1>1, <2>2, <2>4
  <2>. QED
    BY <2>3, <2>4
<1>3. ASSUME NEW n \in 2 .. N - 1, InBody(A[n])
      PROVE  Saved(A[n], m2) /\ Quiet(m, m2, A[n].frame)
  <2>1. /\ A[n].frame \in Int /\ Ceiling(A[N]) \in Int
        /\ Ceiling(A[N]) <= A[n].frame /\ A[n] \in ActRecord
    BY <1>1, <1>3, WaitingAbove DEF StackOK
  <2>2. Quiet(m, m2, A[n].frame)
    BY <1>1, <2>1 DEF Quiet
  <2>3. Saved(A[n], m)
    BY <1>1, <1>3 DEF StackOK
  <2>. QED
    BY <2>1, <2>2, <2>3, SavedKept
<1>4. ASSUME NEW n \in 2 .. N, InBody(B[n]) PROVE Saved(B[n], m2)
  BY <1>1, <1>3, <1>4
<1>5. FramesLinked(B, m2)
  <2>1. SUFFICES ASSUME NEW n \in 2 .. N, NEW k \in 1 .. n - 1,
                        InBody(B[n]), Outer(B, k, n)
                 PROVE  Holds(m2, B[n].frame, Address(B[k].frame), 8)
    BY <1>1 DEF FramesLinked
  <2>2. Outer(A, k, n) /\ B[k] = A[k]
    BY <1>1, <2>1, OuterKept
  <2>3. CASE n = N
    BY <1>1, <2>1, <2>2, <2>3
  <2>4. CASE n # N
    <3>1. n \in 2 .. N - 1 /\ B[n] = A[n]
      BY <1>1, <2>4
    <3>2. Quiet(m, m2, A[n].frame)
      BY <1>3, <2>1, <3>1
    <3>3. Holds(m, A[n].frame, Address(A[k].frame), 8)
      BY <1>1, <2>1, <2>2, <3>1 DEF StackOK, FramesLinked
    <3>4. A[n].frame \in Int
      <4>1. n \in 1 .. Len(A)
        BY <1>1, <3>1
      <4>2. A[n] \in ActRecord
        BY <4>1, ActsFacts
      <4>. QED
        BY <4>2 DEF ActRecord
    <3>5. \A x \in Int : A[n].frame <= x /\ x < A[n].frame + 8
            => Byte(m2, x) = Byte(m, x)
      BY <3>2, <3>4 DEF Quiet
    <3>6. Holds(m2, A[n].frame, Address(A[k].frame), 8)
      BY <3>3, <3>4, <3>5, HoldsSame
    <3>. QED
      BY <2>2, <3>1, <3>6
  <2>. QED
    BY <2>3, <2>4
<1>6. Framing(B, b2)
  <2>1. SUFFICES ASSUME NEW k \in 1 .. N, Outer(B, k, N + 1)
                 PROVE  b2 = B[k].frame
    BY <1>1 DEF Framing
  <2>2. CASE k = N
    BY <1>1, <2>1, <2>2 DEF Outer
  <2>3. CASE k # N
    <3>1. k \in 1 .. N - 1 /\ N \in k + 1 .. (N + 1) - 1
      BY <1>1, <2>3
    <3>2. ~InBody(a)
      BY <1>1, <2>1, <3>1 DEF Outer
    <3>3. Outer(B, k, N)
      BY <1>1, <2>1, <3>1 DEF Outer
    <3>4. Outer(A, k, N)
      BY <1>1, <3>3, OuterKept
    <3>. QED
      BY <1>1, <3>1, <3>2, <3>4
  <2>. QED
    BY <2>2, <2>3
<1>. QED
  BY <1>1, <1>2, <1>4, <1>5, <1>6 DEF StackOK

(* So is the exact shape, without irregular calls.                         *)
LEMMA ExactKept ==
  ASSUME NEW c \in Nat, NEW A, ActsOK(A, c),
         NEW m, NEW s, NEW r, Nested(A), ExactOK(A, m, s, r),
         NEW N \in 1 .. Len(A), NEW a, Same(A, N, a), NEW B, After(A, B, N, a),
         NEW m2, NEW s2, NEW r2,
         N > 1 => Quiet(m, m2, Ceiling(A[N])) /\ RegularCall(a, m2),
         InBody(a) => LocalsHold(a, m2),
         CurrentExact(a, m2, s2, r2)
  PROVE  ExactOK(B, m2, s2, r2)
<1>1. /\ Len(B) = N /\ B[N] = a /\ N \in Nat /\ Len(A) \in Nat /\ N <= Len(A)
      /\ \A n \in 1 .. N - 1 : B[n] = A[n]
  BY DEF After, ActsOK
<1>2. ASSUME NEW n \in 1 .. N - 1, InBody(A[n])
      PROVE  /\ Quiet(m, m2, A[n].frame) /\ A[n] \in ActRecord
             /\ Quiet(m, m2, A[n].frame - Frame(A[n].fn))
  <2>1. /\ A[n].frame \in Int /\ Ceiling(A[N]) \in Int
        /\ Ceiling(A[N]) <= A[n].frame /\ A[n] \in ActRecord
        /\ Ceiling(A[N]) <= A[n].frame - Frame(A[n].fn)
        /\ Frame(A[n].fn) \in Nat
    BY <1>1, <1>2, WaitingAbove
  <2>. QED
    BY <1>1, <2>1 DEF Quiet
<1>3. ASSUME NEW n \in 2 .. N
      PROVE  RegularCall(B[n], m2)
  <2>1. CASE n = N
    BY <1>1, <2>1
  <2>2. CASE n # N
    <3>1. n \in 1 .. N - 1 /\ n \in 2 .. Len(A) /\ B[n] = A[n]
      BY <1>1, <2>2
    <3>2. RegularCall(A[n], m) /\ CalledOK(A[n])
      BY <3>1 DEF ExactOK, ActsOK
    <3>3. CASE InBody(A[n])
      BY <1>2, <3>1, <3>2, <3>3, RegularKept
    <3>4. CASE ~InBody(A[n])
      BY <3>1, <3>2, <3>4 DEF RegularCall
    <3>. QED
      BY <3>3, <3>4
  <2>. QED
    BY <2>1, <2>2
<1>4. ASSUME NEW n \in 2 .. N
      PROVE  Ceiling(B[n]) = Floor(B[n - 1]) - B[n - 1].drift
  <2>1. n \in 2 .. Len(A) /\ n - 1 \in 1 .. N - 1
    BY <1>1
  <2>2. Ceiling(A[n]) = Floor(A[n - 1]) - A[n - 1].drift
    BY <2>1 DEF ExactOK
  <2>3. Ceiling(B[n]) = Ceiling(A[n])
    <3>1. CASE n = N
      BY <1>1, <3>1 DEF Ceiling, Same
    <3>2. CASE n # N
      BY <1>1, <3>2
    <3>. QED
      BY <3>1, <3>2
  <2>. QED
    BY <1>1, <2>1, <2>2, <2>3
<1>5. ASSUME NEW n \in 1 .. N, InBody(B[n])
      PROVE  LocalsHold(B[n], m2)
  <2>1. CASE n = N
    BY <1>1, <1>5, <2>1
  <2>2. CASE n # N
    <3>1. n \in 1 .. N - 1 /\ n \in 1 .. Len(A) /\ B[n] = A[n]
      BY <1>1, <2>2
    <3>2. LocalsHold(A[n], m) /\ LocalsOK(A[n])
      BY <1>5, <3>1 DEF ExactOK, ActsOK
    <3>. QED
      BY <1>2, <1>5, <3>1, <3>2, LocalsStay
  <2>. QED
    BY <2>1, <2>2
<1>. QED
  BY <1>1, <1>3, <1>4, <1>5 DEF ExactOK

(* A byte of a return address in m2 was there in m, or is a copy of one    *)
(* that lies below the return addresses of the functions that run.         *)
NoNewReturn(A, m, m2, N) ==
  \A x \in Int, d \in 1 .. MaxCalls, k \in 0 .. 7 :
    Byte(m2, x) = <<Return(d), k>> =>
      \E y \in Int :
        /\ Byte(m, y) = <<Return(d), k>>
        /\ y = x \/ \A n \in 2 .. N : InBody(A[n]) => y < A[n].frame + 8

(* A return address found in memory is that of a call already made, and    *)
(* lies only where that call pushed it.                                    *)
LEMMA ReturnsAt ==
  ASSUME NEW A, NEW m, NEW c, ReturnsUnique(A, m, c), NEW y \in Int,
         NEW d \in 1 .. MaxCalls, NEW k \in 0 .. 7,
         Byte(m, y) = <<Return(d), k>>
  PROVE  /\ d <= c
         /\ \A n \in 2 .. Len(A) : A[n].id = d =>
              \/ A[n].phase \in {"returned", "result"}
              \/ InBody(A[n]) /\ y = A[n].frame + 8 + k
BY DEF ReturnsUnique

(* No byte of a return address appears but as a copy from below the frames *)
(* of the functions that run.                                              *)
LEMMA ReturnsKept ==
  ASSUME NEW c \in Nat, NEW A, ActsOK(A, c), NEW m, ReturnsUnique(A, m, c),
         NEW N \in 1 .. Len(A), NEW a, Same(A, N, a), NEW B, After(A, B, N, a),
         NEW m2, NoNewReturn(A, m, m2, N),
         \/ a.phase \in {"returned", "result"}
         \/ InBody(a) /\ InBody(A[N]) /\ a.frame = A[N].frame
         \/ A[N].phase \in {"args", "value"}  /\ ~InBody(a)
  PROVE  ReturnsUnique(B, m2, c)
<1>1. /\ Len(B) = N /\ B[N] = a /\ N \in Nat /\ Len(A) \in Nat /\ N <= Len(A)
      /\ \A n \in 1 .. N - 1 : B[n] = A[n]
  BY DEF After, ActsOK
<1>2. SUFFICES ASSUME NEW x \in Int, NEW d \in 1 .. MaxCalls, NEW k \in 0 .. 7,
                      Byte(m2, x) = <<Return(d), k>>
               PROVE  /\ d <= c
                      /\ \A n \in 2 .. N : B[n].id = d =>
                           \/ B[n].phase \in {"returned", "result"}
                           \/ InBody(B[n]) /\ x = B[n].frame + 8 + k
  BY <1>1, SMTT(30) DEF ReturnsUnique
<1>3. PICK y \in Int :
        /\ Byte(m, y) = <<Return(d), k>>
        /\ y = x \/ \A n \in 2 .. N : InBody(A[n]) => y < A[n].frame + 8
  BY <1>2 DEF NoNewReturn
<1>4. /\ d <= c
      /\ \A n \in 2 .. Len(A) : A[n].id = d =>
           \/ A[n].phase \in {"returned", "result"}
           \/ InBody(A[n]) /\ y = A[n].frame + 8 + k
  <2>1. y \in Int /\ Byte(m, y) = <<Return(d), k>> /\ ReturnsUnique(A, m, c)
    BY <1>3
  <2>2. d \in 1 .. MaxCalls /\ k \in 0 .. 7
    BY <1>2
  <2>. QED
    BY <2>1, <2>2, SMTT(30) DEF ReturnsUnique
<1>5. ASSUME NEW n \in 2 .. N, B[n].id = d,
             B[n].phase \notin {"returned", "result"}
      PROVE  InBody(B[n]) /\ x = B[n].frame + 8 + k
  <2>0. n \in 2 .. Len(A) /\ n \in 1 .. Len(A) /\ (n # N => n \in 1 .. N - 1)
    BY <1>1
  <2>1. A[n].id = d
    <3>1. CASE n = N
      BY <1>1, <1>5, <3>1 DEF Same
    <3>2. CASE n # N
      BY <1>1, <1>5, <2>0, <3>2
    <3>. QED
      BY <3>1, <3>2
  <2>2. A[n].phase \notin {"returned", "result"}
    <3>1. CASE n = N
      <4>1. a.phase \notin {"returned", "result"}
        BY <1>1, <1>5, <3>1
      <4>. QED
        BY <4>1, <3>1 DEF InBody
    <3>2. CASE n # N
      BY <1>1, <1>5, <2>0, <3>2
    <3>. QED
      BY <3>1, <3>2
  <2>3. InBody(A[n]) /\ y = A[n].frame + 8 + k
    BY <1>4, <2>0, <2>1, <2>2
  <2>4. A[n] \in ActRecord
    BY <2>0, ActsFacts
  <2>5. A[n].frame \in Int
    BY <2>4 DEF ActRecord
  <2>6. y = x
    <3>1. ~(y < A[n].frame + 8)
      <4>1. k \in Nat /\ \A f \in Int : ~(f + 8 + k < f + 8)
        OBVIOUS
      <4>. QED
        BY <2>3, <2>5, <4>1
    <3>2. ~(\A l \in 2 .. N : InBody(A[l]) => y < A[l].frame + 8)
      BY <2>3, <3>1
    <3>. QED
      BY <1>3, <3>2
  <2>7. InBody(B[n]) /\ B[n].frame = A[n].frame
    <3>1. CASE n = N
      <4>1. a.phase \notin {"returned", "result"} /\ InBody(A[N])
        BY <1>1, <1>5, <2>3, <3>1
      <4>2. InBody(a) /\ a.frame = A[N].frame
        BY <4>1 DEF InBody
      <4>. QED
        BY <1>1, <3>1, <4>2
    <3>2. CASE n # N
      BY <1>1, <2>0, <2>3, <3>2
    <3>. QED
      BY <3>1, <3>2
  <2>. QED
    BY <2>3, <2>6, <2>7
<1>. QED
  BY <1>4, <1>5

-----------------------------------------------------------------------------
(* Steps. *)

(* The invariant is kept by a step that leaves a as the N-th activation.   *)
LEMMA StepKept ==
  ASSUME IInv, NEW N \in 1 .. Len(acts), NEW a, Same(acts, N, a), LocalsOK(a),
         IF N = 1 THEN MainOK(a) ELSE CalledOK(a), After(acts, acts', N, a),
         rsp' \in Int, rbp' \in Int, r15' \in Int, DOMAIN mem' \subseteq Int,
         calls' = calls, reads' \in 0 .. MaxReads, plain' \in BOOLEAN,
         status' = "run",
         N > 1 => Quiet(mem, mem', Ceiling(acts[N])),
         Current(a, mem', rsp'), N > 1 => r15' <= a.base,
         N > 1 /\ InBody(a) => Saved(a, mem'),
         InBody(a) => rbp' = a.frame,
         \A k \in 1 .. N - 1 : Outer(acts, k, N) =>
           IF InBody(a) THEN Holds(mem', a.frame, Address(acts[k].frame), 8)
           ELSE rbp' = acts[k].frame,
         ReturnsUnique(acts', mem', calls),
         plain' => /\ plain
                   /\ N > 1 => RegularCall(a, mem')
                   /\ InBody(a) => LocalsHold(a, mem')
                   /\ CurrentExact(a, mem', rsp', r15')
  PROVE  IInv'
<1>1. calls \in Nat /\ ActsOK(acts, calls)
  BY DEF IInv, Typed
<1>2. ActsOK(acts', calls)
  BY <1>1, ActsKept
<1>3. Typed'
  BY <1>2 DEF IInv, Typed
<1>4. StackOK(acts, mem, rsp, rbp, r15, calls)
  BY DEF IInv, Stacked
<1>5. StackOK(acts', mem', rsp', rbp', r15', calls)
  BY <1>1, <1>4, StackKept
<1>6. Stacked'
  BY <1>5 DEF Stacked
<1>7. ASSUME plain' PROVE Exact'
  <2>1. Nested(acts) /\ ExactOK(acts, mem, rsp, r15)
    BY <1>4, <1>7 DEF StackOK, IInv, Exact
  <2>2. ExactOK(acts', mem', rsp', r15')
    BY <1>1, <1>7, <2>1, ExactKept
  <2>. QED
    BY <2>2 DEF Exact
<1>. QED
  BY <1>3, <1>6, <1>7 DEF IInv

(* What is known of the current activation.                                *)
LEMMA TopFacts ==
  ASSUME IInv
  PROVE  /\ calls \in Nat /\ ActsOK(acts, calls)
         /\ Len(acts) \in Nat /\ Len(acts) \in 1 .. Len(acts)
         /\ act = acts[Len(acts)] /\ act \in ActRecord /\ LocalsOK(act)
         /\ rsp \in Int /\ rbp \in Int /\ r15 \in Int /\ DOMAIN mem \subseteq Int
         /\ Nested(acts) /\ Current(act, mem, rsp)
         /\ FramesLinked(acts, mem) /\ ReturnsUnique(acts, mem, calls)
         /\ Len(acts) > 1 =>
              /\ CalledOK(act) /\ r15 <= act.base
              /\ InBody(act) => Saved(act, mem)
         /\ Len(acts) = 1 => MainOK(act)
         /\ ~InBody(act) \/ act.fn # main => Len(acts) > 1
         /\ InBody(act) => rbp = act.frame
         /\ ~InBody(act) => \A k \in 1 .. Len(acts) - 1 :
              Outer(acts, k, Len(acts)) => rbp = acts[k].frame
<1>. DEFINE L == Len(acts)
<1>1. /\ calls \in Nat /\ ActsOK(acts, calls) /\ rsp \in Int /\ rbp \in Int
      /\ r15 \in Int /\ DOMAIN mem \subseteq Int
  BY DEF IInv, Typed
<1>2. L \in Nat /\ L \in 1 .. L
  BY <1>1, ActsFacts
<1>3. act = acts[L] /\ act \in ActRecord /\ LocalsOK(act)
  BY <1>1, <1>2, ActsFacts DEF act
<1>4. StackOK(acts, mem, rsp, rbp, r15, calls)
  BY DEF IInv, Stacked
<1>5. /\ Nested(acts) /\ Current(act, mem, rsp)
      /\ FramesLinked(acts, mem) /\ ReturnsUnique(acts, mem, calls)
  BY <1>3, <1>4 DEF StackOK
<1>6. ASSUME L > 1
      PROVE  CalledOK(act) /\ r15 <= act.base /\ (InBody(act) => Saved(act, mem))
  BY <1>1, <1>2, <1>3, <1>4, <1>6 DEF StackOK, ActsOK
<1>7. L = 1 => MainOK(act)
  BY <1>1, <1>3 DEF ActsOK
<1>8. ~InBody(act) \/ act.fn # main => L > 1
  <2>1. L = 1 => InBody(act) /\ act.fn = main
    BY <1>7 DEF MainOK, InBody
  <2>2. L > 1 \/ L = 1
    BY <1>2
  <2>. QED
    BY <2>1, <2>2 DEF InBody
<1>9. ASSUME InBody(act) PROVE rbp = act.frame
  <2>1. Outer(acts, L, L + 1)
    BY <1>2, <1>3, <1>9 DEF Outer
  <2>. QED
    BY <1>2, <1>3, <1>4, <2>1 DEF StackOK, Framing
<1>10. ASSUME ~InBody(act), NEW k \in 1 .. L - 1, Outer(acts, k, L)
       PROVE  rbp = acts[k].frame
  <2>1. \A j \in k + 1 .. (L + 1) - 1 : j = L \/ j \in k + 1 .. L - 1
    BY <1>2
  <2>2. Outer(acts, k, L + 1)
    BY <1>2, <1>3, <1>10, <2>1 DEF Outer
  <2>. QED
    BY <1>2, <1>4, <2>2 DEF StackOK, Framing
<1>. HIDE DEF L
<1>. QED
  BY <1>1, <1>2, <1>3, <1>5, <1>6, <1>7, <1>8, <1>9, <1>10 DEF L

(* Replacing the current activation, and returning to its caller.          *)
LEMMA SetActAfter ==
  ASSUME NEW c \in Nat, ActsOK(acts, c), NEW a \in ActRecord, SetAct(a)
  PROVE  After(acts, acts', Len(acts), a)
<1>1. acts \in Seq(ActRecord) /\ Len(acts) \in 1 .. Len(acts)
  BY DEF ActsOK
<1>. QED
  BY <1>1 DEF SetAct, After

(* EndCall takes the last call off and changes the one below it.           *)
LEMMA EndCallAfter ==
  ASSUME NEW c \in Nat, ActsOK(acts, c), NEW a \in ActRecord, Len(acts) > 1,
         EndCall(a)
  PROVE  After(acts, acts', Len(acts) - 1, a)
<1>1. acts \in Seq(ActRecord) /\ Len(acts) \in Nat
  BY DEF ActsOK
<1>2. acts' = Append(SubSeq(acts, 1, Len(acts) - 2), a)
  BY DEF EndCall
<1>. DEFINE S == SubSeq(acts, 1, Len(acts) - 2)
<1>3. /\ S \in Seq(ActRecord) /\ Len(S) = Len(acts) - 2
      /\ \A i \in 1 .. Len(acts) - 2 : S[i] = acts[i]
  <2>. DEFINE n == Len(acts) - 2
  <2>1. \A i \in 1 .. n : acts[i] \in ActRecord
    BY <1>1
  <2>2. n \in Nat
    BY <1>1
  <2>. HIDE DEF n
  <2>3. /\ SubSeq(acts, 1, n) \in Seq(ActRecord)
        /\ Len(SubSeq(acts, 1, n)) = IF 1 <= n THEN n - 1 + 1 ELSE 0
        /\ \A i \in 1 .. n - 1 + 1 : SubSeq(acts, 1, n)[i] = acts[1 + i - 1]
    BY <2>1, <2>2, SubSeqProperties
  <2>4. /\ (IF 1 <= n THEN n - 1 + 1 ELSE 0) = n
        /\ n - 1 + 1 = n
        /\ \A i \in 1 .. n : 1 + i - 1 = i
    BY <2>2
  <2>5. /\ SubSeq(acts, 1, n) \in Seq(ActRecord)
        /\ Len(SubSeq(acts, 1, n)) = n
        /\ \A i \in 1 .. n : SubSeq(acts, 1, n)[i] = acts[i]
    BY <2>3, <2>4
  <2>. QED
    BY <2>5 DEF n
<1>. HIDE DEF S
<1>4. /\ Append(S, a) \in Seq(ActRecord) /\ Len(Append(S, a)) = Len(acts) - 1
      /\ Append(S, a)[Len(acts) - 1] = a
      /\ \A i \in 1 .. (Len(acts) - 1) - 1 : Append(S, a)[i] = acts[i]
  BY <1>1, <1>3
<1>. QED
  BY <1>2, <1>4 DEF After, S

(* The bytes of the values of a program are those of no return address.    *)
LEMMA ValuesAreNot ==
  ASSUME NEW d
  PROVE  /\ \A v \in Values : v # Return(d)
         /\ \A v : Address(v) # Return(d)
         /\ Unwritten[1] # Return(d)
         /\ \A v, k, l : <<v, k>> = <<Return(d), l>> => v = Return(d) /\ k = l
         /\ \A e : Return(e) = Return(d) => e = d
BY DEF Values, Return, Arg, Result, Address, Unwritten

(* There always is a function entered last: main, at least.                *)
LEMMA OuterExists ==
  ASSUME NEW c \in Nat, NEW A, ActsOK(A, c), NEW n \in 2 .. Len(A)
  PROVE  \E k \in 1 .. n - 1 : Outer(A, k, n)
<1>. DEFINE T == {j \in 1 .. n - 1 : InBody(A[n - j])}
<1>1. InBody(A[1]) /\ n \in Nat /\ n >= 2
  BY DEF ActsOK, MainOK, InBody
<1>2. n - 1 \in T
  BY <1>1
<1>3. T \in SUBSET Nat
  BY <1>1
<1>. HIDE DEF T
<1>4. PICK j \in T : \A i \in T : j <= i
  BY <1>2, <1>3, LeastNatural
<1>5. j \in 1 .. n - 1 /\ InBody(A[n - j])
  BY <1>4 DEF T
<1>6. ASSUME NEW l \in (n - j) + 1 .. n - 1, InBody(A[l])
      PROVE  FALSE
  <2>1. n - l \in 1 .. n - 1 /\ n - (n - l) = l /\ n - l < j
    BY <1>1, <1>5
  <2>2. n - l \in T
    BY <1>6, <2>1 DEF T
  <2>. QED
    BY <1>3, <1>4, <2>1, <2>2
<1>7. n - j \in 1 .. n - 1
  BY <1>1, <1>5
<1>. QED
  BY <1>5, <1>6, <1>7 DEF Outer

(* No byte of a return address is new after a write, a copy from below the *)
(* frames, and when scanf takes what is below rsp.                         *)
LEMMA WriteNoReturn ==
  ASSUME NEW A, NEW m, NEW N, NEW a \in Int, NEW v, NEW n \in Nat,
         \A d : v # Return(d)
  PROVE  NoNewReturn(A, m, Write(m, a, v, n), N)
<1>1. SUFFICES ASSUME NEW x \in Int, NEW d \in 1 .. MaxCalls, NEW k \in 0 .. 7,
                      Byte(Write(m, a, v, n), x) = <<Return(d), k>>
               PROVE  Byte(m, x) = <<Return(d), k>>
  BY DEF NoNewReturn
<1>2. <<v, x - a>> # <<Return(d), k>>
  BY ValuesAreNot
<1>. QED
  BY <1>1, <1>2, WriteByte

(* Copying bytes from below the pushed return addresses makes no new one.  *)
LEMMA CopyNoReturn ==
  ASSUME NEW A, NEW m, NEW N, NEW from \in Int, NEW to \in Int, NEW n \in Nat,
         \A k \in 0 .. n - 1 : \A l \in 2 .. N :
           InBody(A[l]) => from + k < A[l].frame + 8
  PROVE  NoNewReturn(A, m, Copy(m, from, to, n), N)
<1>1. SUFFICES ASSUME NEW x \in Int, NEW d \in 1 .. MaxCalls, NEW k \in 0 .. 7,
                      Byte(Copy(m, from, to, n), x) = <<Return(d), k>>
               PROVE  \E y \in Int :
                        /\ Byte(m, y) = <<Return(d), k>>
                        /\ y = x \/ \A l \in 2 .. N :
                                      InBody(A[l]) => y < A[l].frame + 8
  BY DEF NoNewReturn
<1>2. CASE to <= x /\ x < to + n
  <2>1. Byte(m, from + (x - to)) = <<Return(d), k>>
    BY <1>1, <1>2, CopyByte
  <2>2. from + (x - to) \in Int /\ x - to \in 0 .. n - 1
    BY <1>2
  <2>3. \A l \in 2 .. N : InBody(A[l]) => from + (x - to) < A[l].frame + 8
    BY <2>2
  <2>. QED
    BY <2>1, <2>2, <2>3
<1>3. CASE ~(to <= x /\ x < to + n)
  BY <1>1, <1>3, CopyByte
<1>. QED
  BY <1>2, <1>3

(* Giving bytes back makes no new return address.                          *)
LEMMA AboveNoReturn ==
  ASSUME NEW A, NEW m, NEW N, NEW a \in Int
  PROVE  NoNewReturn(A, m, Above(m, a), N)
<1>1. SUFFICES ASSUME NEW x \in Int, NEW d \in 1 .. MaxCalls, NEW k \in 0 .. 7,
                      Byte(Above(m, a), x) = <<Return(d), k>>
               PROVE  Byte(m, x) = <<Return(d), k>>
  BY DEF NoNewReturn
<1>2. Unwritten # <<Return(d), k>>
  BY ValuesAreNot DEF Unwritten
<1>. QED
  BY <1>1, <1>2, AboveByte

(* Two steps that make no return address make none together.               *)
LEMMA NoNewTrans ==
  ASSUME NEW A, NEW N, NEW m, NEW m1, NEW m2,
         NoNewReturn(A, m, m1, N), NoNewReturn(A, m1, m2, N)
  PROVE  NoNewReturn(A, m, m2, N)
<1>1. SUFFICES ASSUME NEW x \in Int, NEW d \in 1 .. MaxCalls, NEW k \in 0 .. 7,
                      Byte(m2, x) = <<Return(d), k>>
               PROVE  \E y \in Int :
                        /\ Byte(m, y) = <<Return(d), k>>
                        /\ y = x \/ \A l \in 2 .. N :
                                      InBody(A[l]) => y < A[l].frame + 8
  BY DEF NoNewReturn
<1>2. PICK y \in Int :
        /\ Byte(m1, y) = <<Return(d), k>>
        /\ y = x \/ \A l \in 2 .. N : InBody(A[l]) => y < A[l].frame + 8
  BY <1>1 DEF NoNewReturn
<1>3. PICK z \in Int :
        /\ Byte(m, z) = <<Return(d), k>>
        /\ z = y \/ \A l \in 2 .. N : InBody(A[l]) => z < A[l].frame + 8
  BY <1>2 DEF NoNewReturn
<1>. QED
  BY <1>2, <1>3

(* What is written, copied or left is at addresses.                        *)
LEMMA DomainFacts ==
  ASSUME NEW m, DOMAIN m \subseteq Int, NEW a \in Int, NEW n \in Nat, NEW v,
         NEW from
  PROVE  /\ DOMAIN Write(m, a, v, n) \subseteq Int
         /\ DOMAIN Copy(m, from, a, n) \subseteq Int
         /\ DOMAIN Above(m, a) \subseteq Int
<1>1. a .. a + n - 1 \subseteq Int
  OBVIOUS
<1>. QED
  BY <1>1 DEF Write, Copy, Above

(* The argument that is evaluated next.                                    *)
LEMMA NextArgument ==
  ASSUME NEW a \in ActRecord, CalledOK(a), a.next > 0
  PROVE  /\ a.next \in 1 .. Len(Args[a.fn]) /\ a.args[a.next] \in Values
         /\ Args[a.fn][a.next] \in Type /\ Pushed(a) \in Nat
         /\ Size(Args[a.fn][a.next]) \in Nat /\ Len(Args[a.fn]) \in Nat
<1>1. /\ a.fn \in Fun /\ a.next \in 0 .. Len(Args[a.fn])
      /\ DOMAIN a.args = 1 .. Len(Args[a.fn])
  BY DEF CalledOK
<1>2. Len(Args[a.fn]) \in Nat
  BY <1>1, SlotFacts
<1>3. a.next \in 1 .. Len(Args[a.fn])
  BY <1>1, <1>2
<1>4. a.args[a.next] \in Values
  <2>1. a.args \in ArgLists
    BY DEF ActRecord
  <2>2. PICK k \in Nat : a.args \in [1 .. k -> Values]
    BY <2>1 DEF ArgLists
  <2>3. a.next \in 1 .. k
    BY <1>1, <1>3, <2>2
  <2>. QED
    BY <2>2, <2>3
<1>. QED
  BY <1>2, <1>3, <1>4, PlaceFacts, SizeFacts DEF Pushed

-----------------------------------------------------------------------------
(* One lemma per action. *)

(* What is at or above the floor stays, when less is written.              *)
LEMMA QuietBelow ==
  ASSUME NEW m, NEW a \in Int, NEW v, NEW n \in Nat
  PROVE  Quiet(m, Write(m, a - n, v, n), a)
BY WriteByte DEF Quiet

(* The arguments that are placed stay, when nothing from the lowest on     *)
(* changes.                                                                *)
LEMMA ArgumentsStay ==
  ASSUME NEW a \in ActRecord, CalledOK(a), NEW m, NEW m2,
         NEW i \in 1 .. Len(Args[a.fn]) + 1,
         Quiet(m, m2, Place(a, i)), ArgumentsFrom(a, m, i)
  PROVE  ArgumentsFrom(a, m2, i)
<1>1. SUFFICES ASSUME NEW j \in i .. Len(Args[a.fn])
               PROVE  Holds(m2, Place(a, j), a.args[j], Size(Args[a.fn][j]))
  BY DEF ArgumentsFrom
<1>2. a.fn \in Fun /\ Len(Args[a.fn]) \in Nat /\ a.base \in Int
  BY SlotFacts DEF CalledOK, ActRecord
<1>3. j \in 1 .. Len(Args[a.fn]) /\ j \in 1 .. Len(Args[a.fn]) + 1 /\ i <= j
  BY <1>2
<1>4. /\ Place(a, j) \in Int /\ Place(a, i) \in Int /\ Place(a, i) <= Place(a, j)
      /\ Size(Args[a.fn][j]) \in Int
  BY <1>2, <1>3, BeforeFacts, BeforeMonotone, PlaceFacts DEF Place
<1>5. Holds(m, Place(a, j), a.args[j], Size(Args[a.fn][j]))
  BY DEF ArgumentsFrom
<1>6. \A x \in Int : Place(a, j) <= x /\ x < Place(a, j) + Size(Args[a.fn][j])
        => Byte(m2, x) = Byte(m, x)
  BY <1>4 DEF Quiet
<1>. QED
  BY <1>4, <1>5, <1>6, HoldsSame

(* The value of an argument is pushed: the caller's bytes above it stay.   *)
LEMMA EvalArgumentKept ==
  ASSUME IInv, EvalArgument
  PROVE  IInv'
<1>. DEFINE L == Len(acts)
            a == [act EXCEPT !.phase = "value"]
            n == Pushed(act)
            v == act.args[act.next]
<1>. HIDE DEF L, a, n, v
<1>1. /\ calls \in Nat /\ ActsOK(acts, calls)
      /\ L \in Nat /\ L \in 1 .. L /\ act = acts[L]
      /\ act \in ActRecord /\ LocalsOK(act)
      /\ rsp \in Int /\ rbp \in Int /\ r15 \in Int /\ DOMAIN mem \subseteq Int
      /\ Current(act, mem, rsp) /\ ReturnsUnique(acts, mem, calls)
  BY TopFacts DEF L
<1>2. act.phase = "args" /\ ~InBody(act) /\ act.next > 0 /\ status = "run"
  BY DEF EvalArgument, InPhase, InBody
<1>3. L > 1 /\ CalledOK(act) /\ r15 <= act.base
  BY <1>2, TopFacts DEF L
<1>4. /\ act.next \in 1 .. Len(Args[act.fn]) /\ v \in Values
      /\ n \in Nat /\ Len(Args[act.fn]) \in Nat
  BY <1>1, <1>2, <1>3, NextArgument DEF n, v
<1>5. /\ rsp' = rsp - n /\ mem' = Write(mem, rsp - n, v, n)
      /\ SetAct(a) /\ rbp' = rbp /\ r15' = r15
      /\ calls' = calls /\ reads' = reads /\ plain' = plain /\ status' = "run"
  BY <1>2 DEF EvalArgument, n, v, a, Pushed, counts
<1>6. /\ a \in ActRecord /\ a.phase = "value" /\ a.id = act.id
      /\ a.fn = act.fn /\ a.base = act.base /\ a.ctx = act.ctx
      /\ a.next = act.next /\ a.offset = act.offset /\ a.args = act.args
      /\ a.result = act.result /\ a.locals = act.locals /\ a.drift = act.drift
  BY <1>1 DEF a, ActRecord, Phases
<1>7. /\ Same(acts, L, a) /\ LocalsOK(a) /\ CalledOK(a) /\ ~InBody(a)
      /\ Floor(a) = Floor(act) /\ Pushed(a) = n
  <2>1. Same(acts, L, a) /\ LocalsOK(a) /\ ~InBody(a)
    BY <1>1, <1>6 DEF Same, LocalsOK, InBody
  <2>2. CalledOK(a)
    BY <1>2, <1>3, <1>6 DEF CalledOK
  <2>3. Floor(a) = Floor(act) /\ Pushed(a) = n
    BY <1>2, <1>6, <2>1 DEF Floor, Place, Pushed, n
  <2>. QED
    BY <2>1, <2>2, <2>3
<1>8. After(acts, acts', L, a)
  BY <1>1, <1>5, <1>6, SetActAfter DEF L
<1>9. /\ Floor(act) \in Int /\ Ceiling(act) \in Int /\ rsp <= Floor(act)
      /\ Floor(act) <= Ceiling(act)
  <2>1. /\ Floor(act) \in Int /\ Ceiling(act) \in Int /\ act.base <= Ceiling(act)
        /\ Floor(act) <= act.base /\ act.base \in Int
    BY <1>1, <1>2, <1>3, FloorFacts DEF ActRecord
  <2>. QED
    BY <1>1, <1>2, <2>1 DEF Current
<1>10. Quiet(mem, mem', rsp)
  BY <1>1, <1>4, <1>5, QuietBelow
<1>11. Quiet(mem, mem', Ceiling(acts[L]))
  BY <1>1, <1>9, <1>10 DEF Quiet
<1>12. Current(a, mem', rsp')
  BY <1>1, <1>4, <1>5, <1>6, <1>7, <1>9 DEF Current
<1>13. ReturnsUnique(acts', mem', calls)
  <2>1. NoNewReturn(acts, mem, mem', L)
    BY <1>1, <1>4, <1>5, ValuesAreNot, WriteNoReturn
  <2>2. acts[L].phase \in {"args", "value"} /\ ~InBody(a)
    BY <1>1, <1>2, <1>7
  <2>. QED
    BY <1>1, <1>7, <1>8, <2>1, <2>2, ReturnsKept DEF L
<1>14. ASSUME plain
       PROVE  RegularCall(a, mem') /\ CurrentExact(a, mem', rsp', r15')
  <2>1. RegularCall(act, mem) /\ CurrentExact(act, mem, rsp, r15)
    BY <1>1, <1>3, <1>14 DEF IInv, Exact, ExactOK, L
  <2>2. RegularCall(a, mem')
    BY <1>6, <1>7, <2>1 DEF RegularCall
  <2>3. rsp = Floor(act) /\ r15 = act.base /\ ArgumentsFrom(act, mem, act.next + 1)
    BY <1>2, <2>1 DEF CurrentExact
  <2>4. ArgumentsFrom(a, mem', a.next + 1)
    <3>1. Place(act, act.next + 1) \in Int /\ act.offset \in Nat
      BY <1>1, <1>3, <1>4, PlaceFacts DEF ActRecord
    <3>2. rsp = Place(act, act.next + 1) - act.offset
      BY <1>2, <2>3 DEF Floor
    <3>3. Quiet(mem, mem', Place(act, act.next + 1))
      BY <1>1, <1>10, <3>1, <3>2 DEF Quiet
    <3>4. act.next + 1 \in 1 .. Len(Args[act.fn]) + 1
      BY <1>4
    <3>5. ArgumentsFrom(act, mem', act.next + 1)
      BY <1>1, <1>3, <2>3, <3>3, <3>4, ArgumentsStay
    <3>. QED
      BY <1>6, <3>5 DEF ArgumentsFrom, Place
  <2>5. Holds(mem', rsp', a.args[a.next], Pushed(a))
    BY <1>1, <1>4, <1>5, <1>6, <1>7, HoldsWritten DEF v
  <2>6. rsp' + Pushed(a) = Floor(a) /\ r15' = a.base
    BY <1>1, <1>4, <1>5, <1>6, <1>7, <1>9, <2>3
  <2>7. CurrentExact(a, mem', rsp', r15')
    BY <1>6, <2>4, <2>5, <2>6 DEF CurrentExact
  <2>. QED
    BY <2>2, <2>7
<1>15. reads' \in 0 .. MaxReads /\ plain' \in BOOLEAN
  BY <1>5 DEF IInv, Typed
<1>16. \A k \in 1 .. L - 1 : Outer(acts, k, L) => rbp' = acts[k].frame
  BY <1>2, <1>5, TopFacts DEF L
<1>17. rsp' \in Int /\ DOMAIN mem' \subseteq Int /\ r15' <= a.base
  BY <1>1, <1>3, <1>4, <1>5, <1>6, DomainFacts, SMTT(30)
<1>. QED
  BY <1>1, <1>3, <1>5, <1>6, <1>7, <1>8, <1>11, <1>12, <1>13, <1>14, <1>15,
     <1>16, <1>17, StepKept DEF L

(* An argument moves to its place, next to those already placed.           *)
LEMMA PlaceArgumentKept ==
  ASSUME IInv, PlaceArgument
  PROVE  IInv'
<1>. DEFINE L == Len(acts)
            type == Args[act.fn][act.next]
            up == IF type = "struct" THEN 0 ELSE 8 - Size(type)
            n == IF up = 0 THEN 0 ELSE Size(type)
            to == rsp + act.offset + up
            a == [act EXCEPT !.phase = "args", !.next = @ - 1,
                             !.offset = @ + up]
            p == Place(act, act.next + 1)
<1>1. /\ calls \in Nat /\ ActsOK(acts, calls)
      /\ L \in Nat /\ L \in 1 .. L /\ act = acts[L]
      /\ act \in ActRecord /\ LocalsOK(act)
      /\ rsp \in Int /\ rbp \in Int /\ r15 \in Int /\ DOMAIN mem \subseteq Int
      /\ Nested(acts)
      /\ Current(act, mem, rsp) /\ ReturnsUnique(acts, mem, calls)
  BY TopFacts DEF L
<1>2. act.phase = "value" /\ ~InBody(act) /\ status = "run"
  BY DEF PlaceArgument, InPhase, InBody
<1>3. L > 1 /\ CalledOK(act) /\ r15 <= act.base /\ act.next > 0
  BY <1>2, TopFacts DEF L, CalledOK
<1>4. /\ act.next \in 1 .. Len(Args[act.fn]) /\ Len(Args[act.fn]) \in Nat
      /\ type \in Type /\ Size(type) \in Nat /\ Pushed(act) \in Nat
      /\ act.offset \in Nat /\ act.base \in Int
  BY <1>1, <1>3, NextArgument DEF ActRecord
<1>5. /\ up \in 0 .. 7 /\ n \in Nat /\ n <= Size(type) /\ n < 8
      /\ type \in Prim => /\ up = 8 - Size(type) /\ n = Size(type)
                          /\ Pushed(act) = 8 /\ up + n = 8 /\ n > 0
      /\ type \notin Prim => /\ up = 0 /\ n = 0 /\ type = "struct"
                             /\ Pushed(act) = Size(type)
  <2>1. CASE type \in Prim
    <3>1. Size(type) \in {1, 4} /\ type # "struct"
      BY <2>1, SizeFacts
    <3>2. up = 8 - Size(type)
      BY <3>1
    <3>3. n = Size(type)
      BY <3>1, <3>2
    <3>4. Pushed(act) = 8
      BY <2>1 DEF Pushed
    <3>. HIDE DEF type, up, n
    <3>. QED
      BY <2>1, <3>1, <3>2, <3>3, <3>4
  <2>2. CASE type \notin Prim
    <3>1. type = "struct" /\ up = 0 /\ n = 0
      BY <1>4, <2>2, SizeFacts
    <3>2. Pushed(act) = Size(type)
      BY <2>2, <3>1, SizeFacts DEF Pushed
    <3>. HIDE DEF type, up, n
    <3>. QED
      BY <1>4, <2>2, <3>1, <3>2
  <2>. QED
    BY <2>1, <2>2
<1>6. /\ mem' = Copy(mem, rsp, to, n) /\ SetAct(a)
      /\ rsp' = rsp /\ rbp' = rbp /\ r15' = r15
      /\ calls' = calls /\ reads' = reads /\ plain' = plain /\ status' = "run"
  BY <1>2 DEF PlaceArgument, counts
<1>7. /\ a \in ActRecord /\ a.phase = "args" /\ a.id = act.id
      /\ a.fn = act.fn /\ a.base = act.base /\ a.ctx = act.ctx
      /\ a.next = act.next - 1 /\ a.offset = act.offset + up /\ a.args = act.args
      /\ a.result = act.result /\ a.locals = act.locals /\ a.drift = act.drift
  <2>1. act.next - 1 \in Nat /\ act.offset + up \in Nat
    BY <1>4, <1>5
  <2>. QED
    BY <1>1, <2>1 DEF ActRecord, Phases
<1>. HIDE DEF L, type, up, n, to, a
<1>8. /\ Same(acts, L, a) /\ LocalsOK(a) /\ CalledOK(a) /\ ~InBody(a)
  <2>1. Same(acts, L, a) /\ LocalsOK(a) /\ ~InBody(a)
    BY <1>1, <1>7 DEF Same, LocalsOK, InBody
  <2>2. /\ a.next \in 0 .. Len(Args[a.fn])
        /\ a.offset <= 7 * (Len(Args[a.fn]) - a.next)
    <3>1. act.offset <= 7 * (Len(Args[act.fn]) - act.next)
      BY <1>3 DEF CalledOK
    <3>2. a.offset = act.offset + up /\ a.next = act.next - 1 /\ up \in 0 .. 7
      BY <1>5, <1>7
    <3>3. ASSUME NEW l \in Nat, NEW x \in 1 .. l, NEW u \in 0 .. 7,
                 NEW o \in Nat, o <= 7 * (l - x)
          PROVE  x - 1 \in 0 .. l /\ o + u <= 7 * (l - (x - 1))
      BY <3>3
    <3>4. a.fn = act.fn
      BY <1>7
    <3>. QED
      BY <1>4, <3>1, <3>2, <3>3, <3>4
  <2>3. a.offset # 0 =>
          \E j \in DOMAIN Args[a.fn] : j > a.next /\ Args[a.fn][j] \in Prim
    <3>1. CASE type \in Prim
      <4>1. act.next \in DOMAIN Args[act.fn] /\ act.next > a.next
        <5>1. Args[act.fn] \in Seq(Type)
          BY <1>3, SlotFacts DEF CalledOK
        <5>. QED
          BY <1>4, <1>7, <5>1
      <4>. QED
        BY <1>7, <3>1, <4>1 DEF type
    <3>2. CASE type \notin Prim
      <4>1. a.offset = act.offset /\ a.next = act.next - 1
        BY <1>4, <1>5, <1>7, <3>2
      <4>2. a.offset # 0 =>
              \E j \in DOMAIN Args[a.fn] : j > act.next /\ Args[a.fn][j] \in Prim
        BY <1>3, <1>7, <4>1 DEF CalledOK
      <4>3. \A j \in DOMAIN Args[a.fn] : j > act.next => j > a.next
        <5>1. Args[a.fn] \in Seq(Type)
          BY <1>3, <1>7, SlotFacts DEF CalledOK
        <5>. QED
          BY <1>4, <4>1, <5>1
      <4>. QED
        BY <4>2, <4>3
    <3>. QED
      BY <3>1, <3>2
  <2>. QED
    BY <1>2, <1>3, <1>7, <2>1, <2>2, <2>3 DEF CalledOK
<1>9. After(acts, acts', L, a)
  BY <1>1, <1>6, <1>7, SetActAfter DEF L
<1>10. /\ p \in Int /\ p <= act.base /\ Floor(act) = p - act.offset
       /\ Place(act, act.next) \in Int /\ p = Place(act, act.next) + Size(type)
       /\ Floor(a) = Place(act, act.next) - (act.offset + up)
       /\ Ceiling(act) \in Int /\ act.base <= Ceiling(act)
  <2>1. /\ p \in Int /\ p <= act.base
        /\ Place(act, act.next) \in Int /\ p = Place(act, act.next) + Size(type)
    BY <1>1, <1>3, <1>4, PlaceFacts DEF type
  <2>2. Floor(act) = p - act.offset
    BY <1>2 DEF Floor
  <2>3. Floor(a) = Place(act, act.next) - (act.offset + up)
    <3>1. a.next + 1 = act.next
      BY <1>4, <1>7
    <3>. QED
      BY <1>7, <1>8, <3>1 DEF Floor, Place
  <2>. QED
    BY <1>1, <1>3, <2>1, <2>2, <2>3, FloorFacts
<1>. HIDE DEF p
<1>11. rsp + Pushed(act) <= Floor(act) /\ Floor(a) = Floor(act) - Pushed(act)
  <2>1. rsp + Pushed(act) <= Floor(act)
    BY <1>1, <1>2 DEF Current
  <2>2. CASE type \in Prim
    BY <1>4, <1>5, <1>10, <2>1, <2>2, SMTT(30)
  <2>3. CASE type \notin Prim
    BY <1>4, <1>5, <1>10, <2>1, <2>3
  <2>. QED
    BY <2>1, <2>2, <2>3
<1>12. /\ to \in Int
       /\ n > 0 => to + n <= p /\ rsp + 8 <= act.base
  <2>1. /\ rsp \in Int /\ act.offset \in Nat /\ up \in Nat /\ p \in Int
        /\ act.base \in Int /\ p <= act.base /\ Floor(act) = p - act.offset
    BY <1>1, <1>4, <1>5, <1>10
  <2>2. to = rsp + (act.offset + up) /\ to \in Int
    BY <2>1 DEF to
  <2>3. ASSUME n > 0 PROVE up + n = 8 /\ rsp + 8 <= Floor(act) /\ n \in Nat
    BY <1>5, <1>11, <2>3
  <2>. QED
    BY <2>1, <2>2, <2>3
<1>13. Quiet(mem, mem', p)
  <2>1. CASE n = 0
    BY <1>1, <1>6, <1>12, <2>1, CopyNothing DEF Quiet, to
  <2>2. CASE n # 0
    BY <1>1, <1>5, <1>6, <1>10, <1>12, <2>2, CopyByte DEF Quiet, to
  <2>. QED
    BY <2>1, <2>2
<1>14. Quiet(mem, mem', Ceiling(acts[L]))
  <2>1. p \in Int /\ Ceiling(act) \in Int /\ p <= Ceiling(act)
    BY <1>4, <1>10
  <2>. QED
    BY <1>1, <1>13, <2>1 DEF Quiet
<1>15. Current(a, mem', rsp')
  <2>1. rsp' <= Floor(a)
    BY <1>1, <1>4, <1>6, <1>10, <1>11
  <2>. QED
    BY <1>7, <2>1 DEF Current
<1>16. ReturnsUnique(acts', mem', calls)
  <2>1. \A k \in 0 .. n - 1 : \A l \in 2 .. L :
          InBody(acts[l]) => rsp + k < acts[l].frame + 8
    <3>1. SUFFICES ASSUME NEW k \in 0 .. n - 1, NEW l \in 2 .. L,
                          InBody(acts[l])
                   PROVE  rsp + k < acts[l].frame + 8
      OBVIOUS
    <3>2. l \in 1 .. L - 1
      BY <1>1, <1>2, <3>1
    <3>3. acts[l].frame \in Int /\ Ceiling(act) <= acts[l].frame
      BY <1>1, <3>1, <3>2, WaitingAbove DEF L
    <3>4. k \in Int /\ k < 8 /\ n > 0
      BY <1>4, <1>5
    <3>5. rsp + 8 <= Ceiling(act) /\ rsp \in Int /\ Ceiling(act) \in Int
      BY <1>1, <1>4, <1>10, <1>12, <3>4, SMTT(30)
    <3>. QED
      BY <3>3, <3>4, <3>5
  <2>2. to \in Int
    BY <1>1, <1>4, <1>5 DEF to
  <2>3. NoNewReturn(acts, mem, mem', L)
    BY <1>1, <1>5, <1>6, <2>1, <2>2, CopyNoReturn
  <2>4. acts[L].phase \in {"args", "value"} /\ ~InBody(a)
    BY <1>1, <1>2, <1>8
  <2>. QED
    BY <1>1, <1>8, <1>9, <2>3, <2>4, ReturnsKept DEF L
<1>17. ASSUME plain
       PROVE  RegularCall(a, mem') /\ CurrentExact(a, mem', rsp', r15')
  <2>1. RegularCall(act, mem) /\ CurrentExact(act, mem, rsp, r15)
    BY <1>1, <1>3, <1>17 DEF IInv, Exact, ExactOK, L
  <2>2. RegularCall(a, mem')
    BY <1>7, <1>8, <2>1 DEF RegularCall
  <2>3. /\ rsp + Pushed(act) = Floor(act) /\ r15 = act.base
        /\ ArgumentsFrom(act, mem, act.next + 1)
        /\ Holds(mem, rsp, act.args[act.next], Pushed(act))
    BY <1>2, <2>1 DEF CurrentExact
  <2>4. ArgumentsFrom(act, mem', act.next + 1)
    <3>1. act.next + 1 \in 1 .. Len(Args[act.fn]) + 1
      BY <1>4
    <3>. QED
      BY <1>1, <1>3, <1>13, <2>3, <3>1, ArgumentsStay DEF p
  <2>5. Holds(mem', Place(act, act.next), act.args[act.next], Size(type))
    <3>1. CASE type \in Prim
      <4>1. Place(act, act.next) = to
        <5>1. /\ rsp \in Int /\ act.offset \in Nat /\ up \in Nat /\ p \in Int
              /\ Size(type) \in Nat /\ up + Size(type) = 8
              /\ Place(act, act.next) \in Int
          <6>1. up \in 0 .. 7 /\ up + n = 8 /\ n = Size(type)
            BY <1>5, <3>1
          <6>. QED
            BY <1>1, <1>4, <1>10, <6>1
        <5>2. rsp + 8 = p - act.offset /\ p = Place(act, act.next) + Size(type)
          BY <1>5, <1>10, <2>3, <3>1
        <5>3. to = rsp + (act.offset + up)
          BY <5>1 DEF to
        <5>. QED
          BY <5>1, <5>2, <5>3
      <4>2. Holds(mem, rsp, act.args[act.next], n)
        BY <1>5, <2>3, <3>1, HoldsLess
      <4>3. to \in Int
        BY <1>1, <1>4, <1>5 DEF to
      <4>4. Holds(mem', to, act.args[act.next], n)
        BY <1>1, <1>5, <1>6, <4>2, <4>3, HoldsCopied
      <4>. QED
        BY <1>5, <3>1, <4>1, <4>4
    <3>2. CASE type \notin Prim
      <4>1. act.offset = 0
        <5>1. SUFFICES ASSUME act.offset # 0 PROVE FALSE
          OBVIOUS
        <5>2. PICK j \in DOMAIN Args[act.fn] :
                j > act.next /\ Args[act.fn][j] \in Prim
          BY <1>3, <5>1 DEF CalledOK
        <5>3. act.next \in DOMAIN Args[act.fn] /\ act.next < j
          <6>1. Args[act.fn] \in Seq(Type)
            BY <1>3, SlotFacts DEF CalledOK
          <6>. QED
            BY <1>4, <5>2, <6>1
        <5>4. Args[act.fn][act.next] = "struct"
          BY <1>5, <3>2 DEF type
        <5>. QED
          BY <2>1, <5>2, <5>3, <5>4 DEF RegularCall, RegularArgs
      <4>2. Place(act, act.next) = rsp /\ Pushed(act) = Size(type)
        BY <1>1, <1>4, <1>5, <1>10, <2>3, <3>2, <4>1
      <4>3. \A x \in Int : Byte(mem', x) = Byte(mem, x)
        <5>1. to \in Int
          BY <1>1, <1>4, <1>5 DEF to
        <5>. QED
          BY <1>1, <1>5, <1>6, <3>2, <5>1, CopyNothing
      <4>. QED
        BY <1>1, <1>4, <2>3, <4>2, <4>3, HoldsSame
    <3>. QED
      BY <3>1, <3>2
  <2>6. ArgumentsFrom(a, mem', a.next + 1)
    <3>1. SUFFICES ASSUME NEW j \in act.next .. Len(Args[act.fn])
                   PROVE  Holds(mem', Place(act, j), act.args[j],
                                Size(Args[act.fn][j]))
      <4>1. a.next + 1 = act.next
        BY <1>4, <1>7
      <4>. QED
        BY <1>7, <4>1 DEF ArgumentsFrom, Place
    <3>2. CASE j = act.next
      BY <2>5, <3>2 DEF type
    <3>3. CASE j # act.next
      <4>1. j \in act.next + 1 .. Len(Args[act.fn])
        BY <1>4, <3>3
      <4>. QED
        BY <2>4, <4>1 DEF ArgumentsFrom
    <3>. QED
      BY <3>2, <3>3
  <2>7. rsp' = Floor(a) /\ r15' = a.base
    BY <1>1, <1>4, <1>6, <1>7, <1>10, <1>11, <2>3
  <2>8. CurrentExact(a, mem', rsp', r15')
    BY <1>7, <2>6, <2>7 DEF CurrentExact
  <2>. QED
    BY <2>2, <2>8
<1>18. reads' \in 0 .. MaxReads /\ plain' \in BOOLEAN
  BY <1>6 DEF IInv, Typed
<1>19. \A k \in 1 .. L - 1 : Outer(acts, k, L) => rbp' = acts[k].frame
  BY <1>2, <1>6, TopFacts DEF L
<1>20. rsp' \in Int /\ DOMAIN mem' \subseteq Int /\ r15' <= a.base
  <2>1. to \in Int
    BY <1>1, <1>4, <1>5 DEF to
  <2>. QED
    BY <1>1, <1>3, <1>5, <1>6, <1>7, <2>1, DomainFacts
<1>. QED
  BY <1>1, <1>3, <1>6, <1>7, <1>8, <1>9, <1>14, <1>15, <1>16, <1>17, <1>18,
     <1>19, <1>20, StepKept DEF L

(* The return address is pushed at a place no other call's frame covers.   *)
LEMMA CallKept ==
  ASSUME IInv, Call
  PROVE  IInv'
<1>. DEFINE L == Len(acts)
            top == rsp + act.offset
            saved == Write(mem, top - 8, Address(r15), 8)
            called == Write(saved, top - 16, Return(act.id), 8)
            F == Frame(act.fn)
            P == ArgsSize(act.fn)
            a == [act EXCEPT !.phase = "body", !.frame = top - 24]
<1>1. /\ calls \in Nat /\ ActsOK(acts, calls)
      /\ L \in Nat /\ L \in 1 .. L /\ act = acts[L]
      /\ act \in ActRecord /\ LocalsOK(act)
      /\ rsp \in Int /\ rbp \in Int /\ r15 \in Int /\ DOMAIN mem \subseteq Int
      /\ Nested(acts)
      /\ Current(act, mem, rsp) /\ ReturnsUnique(acts, mem, calls)
  BY TopFacts DEF L
<1>2. act.phase = "args" /\ ~InBody(act) /\ status = "run" /\ act.next = 0
  BY DEF Call, InPhase, InBody
<1>3. L > 1 /\ CalledOK(act) /\ r15 <= act.base
  BY <1>2, TopFacts DEF L
<1>4. /\ mem' = Write(called, top - 24, Address(rbp), 8) /\ SetAct(a)
      /\ rbp' = top - 24 /\ rsp' = (top - 24) - F /\ r15' = r15
      /\ calls' = calls /\ reads' = reads /\ plain' = plain /\ status' = "run"
  BY <1>2 DEF Call, counts, SetAct
<1>5. /\ act.offset \in Nat /\ act.base \in Int /\ act.id \in Nat /\ top \in Int
      /\ F \in Nat /\ act.fn \in Fun /\ P \in Nat /\ Len(Args[act.fn]) \in Nat
  <2>1. act.fn \in Fun /\ Len(Args[act.fn]) \in Nat
    BY <1>3, SlotFacts DEF CalledOK
  <2>2. P \in Nat
    <3>1. Len(Args[act.fn]) + 1 \in 1 .. Len(Args[act.fn]) + 1
      BY <2>1
    <3>. QED
      BY <2>1, <3>1, BeforeFacts
  <2>. QED
    BY <1>1, <2>1, <2>2, FrameFacts DEF ActRecord
<1>6. /\ a \in ActRecord /\ a.phase = "body" /\ a.id = act.id
      /\ a.fn = act.fn /\ a.base = act.base /\ a.ctx = act.ctx
      /\ a.next = act.next /\ a.offset = act.offset /\ a.args = act.args
      /\ a.result = act.result /\ a.locals = act.locals /\ a.drift = act.drift
      /\ a.frame = top - 24
  <2>1. top - 24 \in Int
    BY <1>5
  <2>. QED
    BY <1>1, <2>1 DEF ActRecord, Phases
<1>. HIDE DEF L, top, saved, called, F, P, a
<1>7. Same(acts, L, a) /\ LocalsOK(a) /\ CalledOK(a) /\ InBody(a)
  <2>1. Same(acts, L, a) /\ LocalsOK(a) /\ InBody(a)
    BY <1>1, <1>6 DEF Same, LocalsOK, InBody
  <2>. QED
    BY <1>2, <1>3, <1>6, <2>1 DEF CalledOK
<1>8. After(acts, acts', L, a)
  BY <1>1, <1>4, <1>6, SetActAfter DEF L
<1>9. /\ Floor(act) = (act.base - P) - act.offset
      /\ Place(act, 1) = act.base - P /\ Floor(a) = (top - 24) - F
      /\ Ceiling(act) \in Int /\ act.base <= Ceiling(act)
  <2>1. SizesBefore(Args[act.fn], 1) = 0
    BY <1>5, BeforeFacts
  <2>2. Place(act, 1) = act.base - P
    BY <1>5, <2>1 DEF Place, P
  <2>3. Floor(act) = Place(act, 1) - act.offset
    <3>1. act.next + 1 = 1
      BY <1>2
    <3>. QED
      BY <1>2, <3>1 DEF Floor
  <2>4. Floor(a) = (top - 24) - F
    BY <1>6, <1>7 DEF Floor, F
  <2>. QED
    BY <1>1, <1>3, <2>2, <2>3, <2>4, FloorFacts
<1>10. top <= act.base - P
  <2>1. rsp <= Floor(act)
    BY <1>1, <1>2 DEF Current
  <2>2. /\ rsp \in Int /\ act.offset \in Nat /\ act.base \in Int /\ P \in Nat
        /\ Floor(act) = (act.base - P) - act.offset
    BY <1>1, <1>5, <1>9
  <2>3. top = rsp + act.offset
    BY DEF top
  <2>. QED
    BY <2>1, <2>2, <2>3
<1>11. \A x \in Int :
         Byte(mem', x) = IF top - 24 <= x /\ x < top - 16
                         THEN <<Address(rbp), x - (top - 24)>>
                         ELSE IF top - 16 <= x /\ x < top - 8
                         THEN <<Return(act.id), x - (top - 16)>>
                         ELSE IF top - 8 <= x /\ x < top
                         THEN <<Address(r15), x - (top - 8)>>
                         ELSE Byte(mem, x)
  <2>1. SUFFICES ASSUME NEW x \in Int
        PROVE Byte(mem', x) = IF top - 24 <= x /\ x < top - 16
                         THEN <<Address(rbp), x - (top - 24)>>
                         ELSE IF top - 16 <= x /\ x < top - 8
                         THEN <<Return(act.id), x - (top - 16)>>
                         ELSE IF top - 8 <= x /\ x < top
                         THEN <<Address(r15), x - (top - 8)>>
                         ELSE Byte(mem, x)
    OBVIOUS
  <2>2. /\ top - 8 \in Int /\ top - 16 \in Int /\ top - 24 \in Int
        /\ (top - 8) + 8 = top /\ (top - 16) + 8 = top - 8
        /\ (top - 24) + 8 = top - 16
    BY <1>5
  <2>3. Byte(saved, x) = IF top - 8 <= x /\ x < (top - 8) + 8
                         THEN <<Address(r15), x - (top - 8)>> ELSE Byte(mem, x)
    BY <2>2, WriteByte DEF saved
  <2>4. Byte(called, x) = IF top - 16 <= x /\ x < (top - 16) + 8
                          THEN <<Return(act.id), x - (top - 16)>>
                          ELSE Byte(saved, x)
    BY <2>2, WriteByte DEF called
  <2>5. Byte(mem', x) = IF top - 24 <= x /\ x < (top - 24) + 8
                        THEN <<Address(rbp), x - (top - 24)>>
                        ELSE Byte(called, x)
    BY <1>4, <2>2, WriteByte
  <2>. QED
    BY <2>2, <2>3, <2>4, <2>5
<1>12. /\ Holds(mem', a.frame, Address(rbp), 8)
       /\ Holds(mem', a.frame + 8, Return(a.id), 8)
       /\ Holds(mem', a.frame + 16, Address(r15), 8)
  <2>1. ASSUME NEW k \in 0 .. 7
        PROVE  /\ a.frame + k \in Int /\ a.frame + k = top - 24 + k
               /\ (a.frame + 8) + k \in Int /\ (a.frame + 8) + k = top - 16 + k
               /\ (a.frame + 16) + k \in Int /\ (a.frame + 16) + k = top - 8 + k
    <3>1. k \in Int /\ top \in Int /\ a.frame = top - 24
      BY <1>5, <1>6
    <3>2. (top - 24) + 8 = top - 16 /\ (top - 24) + 16 = top - 8
      BY <3>1
    <3>. QED
      BY <3>1, <3>2
  <2>2. ASSUME NEW k \in 0 .. 7
        PROVE  /\ Byte(mem', top - 24 + k) = <<Address(rbp), k>>
               /\ Byte(mem', top - 16 + k) = <<Return(act.id), k>>
               /\ Byte(mem', top - 8 + k) = <<Address(r15), k>>
    BY <1>5, <1>11
  <2>. QED
    BY <1>6, <2>1, <2>2 DEF Holds
<1>13. Quiet(mem, mem', top)
  BY <1>5, <1>11 DEF Quiet
<1>14. Quiet(mem, mem', Ceiling(acts[L])) /\ Quiet(mem, mem', Place(act, 1))
  BY <1>1, <1>5, <1>9, <1>10, <1>13, SMTT(30) DEF Quiet
<1>15. Current(a, mem', rsp')
  BY <1>4, <1>5, <1>6, <1>9, FloorFacts DEF Current
<1>16. Saved(a, mem')
  <2>1. a.frame + 24 + ArgsSize(a.fn) <= a.base
    BY <1>5, <1>6, <1>10 DEF P
  <2>2. SavedAt(mem', a.frame + 16, a.base)
    BY <1>1, <1>3, <1>6, <1>12 DEF SavedAt
  <2>. QED
    BY <1>12, <2>1, <2>2 DEF Saved
<1>17. \A k \in 1 .. L - 1 : Outer(acts, k, L) =>
         Holds(mem', a.frame, Address(acts[k].frame), 8)
  <2>1. \A k \in 1 .. L - 1 : Outer(acts, k, L) => rbp = acts[k].frame
    BY <1>2, TopFacts DEF L
  <2>. QED
    BY <1>12, <2>1
<1>18. ReturnsUnique(acts', mem', calls)
  <2>1. /\ Len(acts') = L /\ acts'[L] = a
        /\ \A l \in 1 .. L - 1 : acts'[l] = acts[l]
    BY <1>8 DEF After
  <2>2. SUFFICES ASSUME NEW x \in Int, NEW d \in 1 .. MaxCalls, NEW k \in 0 .. 7,
                        Byte(mem', x) = <<Return(d), k>>
                 PROVE  /\ d <= calls
                        /\ \A l \in 2 .. L : acts'[l].id = d =>
                             \/ acts'[l].phase \in {"returned", "result"}
                             \/ InBody(acts'[l]) /\ x = acts'[l].frame + 8 + k
    BY <2>1 DEF ReturnsUnique
  <2>3. CASE top - 16 <= x /\ x < top - 8
    <3>1. <<Return(d), k>> = <<Return(act.id), x - (top - 16)>>
      BY <1>5, <1>11, <2>2, <2>3
    <3>2. d = act.id /\ x = (top - 16) + k
      <4>1. Return(act.id) = Return(d) /\ x - (top - 16) = k
        BY <3>1
      <4>2. act.id = d
        BY <4>1, ValuesAreNot
      <4>. QED
        BY <1>5, <4>1, <4>2
    <3>3. d <= calls
      BY <1>1, <3>2, ActsFacts DEF L
    <3>4. ASSUME NEW l \in 2 .. L, acts'[l].id = d
          PROVE  InBody(acts'[l]) /\ x = acts'[l].frame + 8 + k
      <4>1. CASE l = L
        <5>1. InBody(acts'[l]) /\ acts'[l].frame = top - 24
          BY <1>6, <1>7, <2>1, <4>1
        <5>. QED
          BY <1>5, <3>2, <5>1
      <4>2. CASE l # L
        <5>1. l \in 1 .. L - 1
          BY <1>1, <4>2
        <5>2. acts[l].id < acts[L].id /\ acts'[l] = acts[l]
          BY <1>1, <2>1, <5>1 DEF Nested, Under, L
        <5>3. acts[l].id = act.id
          BY <3>2, <3>4, <5>2
        <5>. QED
          BY <1>1, <1>5, <5>2, <5>3
      <4>. QED
        BY <4>1, <4>2
    <3>. QED
      BY <3>3, <3>4
  <2>4. CASE ~(top - 16 <= x /\ x < top - 8)
    <3>1. Byte(mem, x) = <<Return(d), k>>
      <4>1. /\ <<Address(rbp), x - (top - 24)>> # <<Return(d), k>>
            /\ <<Address(r15), x - (top - 8)>> # <<Return(d), k>>
        BY ValuesAreNot
      <4>. QED
        BY <1>11, <2>2, <2>4, <4>1
    <3>2. /\ d <= calls
          /\ \A l \in 2 .. L : acts[l].id = d =>
               \/ acts[l].phase \in {"returned", "result"}
               \/ InBody(acts[l]) /\ x = acts[l].frame + 8 + k
      <4>1. ReturnsUnique(acts, mem, calls)
        BY <1>1
      <4>2. /\ d <= calls
            /\ \A l \in 2 .. Len(acts) : acts[l].id = d =>
                 \/ acts[l].phase \in {"returned", "result"}
                 \/ InBody(acts[l]) /\ x = acts[l].frame + 8 + k
        BY <3>1, <4>1, ReturnsAt
      <4>. QED
        BY <4>2 DEF L
    <3>3. ASSUME NEW l \in 2 .. L, acts'[l].id = d
          PROVE  \/ acts'[l].phase \in {"returned", "result"}
                 \/ InBody(acts'[l]) /\ x = acts'[l].frame + 8 + k
      <4>1. CASE l = L
        <5>1. act.id = d
          BY <1>6, <2>1, <3>3, <4>1
        <5>2. act.phase \in {"returned", "result"} \/ InBody(act)
          BY <1>1, <3>2, <4>1, <5>1
        <5>. QED
          BY <1>2, <5>2
      <4>2. CASE l # L
        <5>1. l \in 1 .. L - 1
          BY <1>1, <4>2
        <5>. QED
          BY <2>1, <3>2, <3>3, <5>1
      <4>. QED
        BY <4>1, <4>2
    <3>. QED
      BY <3>2, <3>3
  <2>. QED
    BY <2>3, <2>4
<1>19. ASSUME plain
       PROVE  /\ RegularCall(a, mem') /\ LocalsHold(a, mem')
              /\ CurrentExact(a, mem', rsp', r15')
  <2>1. RegularCall(act, mem) /\ CurrentExact(act, mem, rsp, r15)
    BY <1>1, <1>3, <1>19 DEF IInv, Exact, ExactOK, L
  <2>2. rsp = Floor(act) /\ r15 = act.base /\ ArgumentsFrom(act, mem, 1)
    <3>1. act.next + 1 = 1
      BY <1>2
    <3>. QED
      BY <1>2, <2>1, <3>1 DEF CurrentExact
  <2>3. ArgumentsFrom(a, mem', 1)
    <3>1. 1 \in 1 .. Len(Args[act.fn]) + 1
      BY <1>5
    <3>2. ArgumentsFrom(act, mem', 1)
      BY <1>1, <1>3, <1>14, <2>2, <3>1, ArgumentsStay
    <3>. QED
      BY <1>6, <3>2 DEF ArgumentsFrom, Place
  <2>4. a.frame + 24 + ArgsSize(a.fn) = a.base
    <3>1. top = act.base - P
      <4>1. /\ rsp \in Int /\ act.offset \in Nat /\ act.base \in Int /\ P \in Nat
            /\ Floor(act) = (act.base - P) - act.offset
        BY <1>1, <1>5, <1>9
      <4>2. top = rsp + act.offset
        BY DEF top
      <4>. QED
        BY <2>2, <4>1, <4>2
    <3>. QED
      BY <1>5, <1>6, <3>1 DEF P
  <2>5. Holds(mem', a.frame + 16, Address(a.base), 8)
    BY <1>6, <1>12, <2>2
  <2>6. RegularCall(a, mem')
    BY <1>6, <2>1, <2>3, <2>4, <2>5 DEF RegularCall
  <2>7. DOMAIN a.locals = {} /\ a.drift = 0
    BY <1>2, <1>3, <1>6 DEF CalledOK
  <2>8. LocalsHold(a, mem')
    BY <2>7 DEF LocalsHold
  <2>9. rsp' = Floor(a) - a.drift
    BY <1>4, <1>5, <1>9, <2>7
  <2>. QED
    BY <1>6, <2>6, <2>8, <2>9 DEF CurrentExact
<1>20. reads' \in 0 .. MaxReads /\ plain' \in BOOLEAN
  BY <1>4 DEF IInv, Typed
<1>21. /\ rsp' \in Int /\ rbp' \in Int /\ r15' <= a.base /\ rbp' = a.frame
       /\ DOMAIN mem' \subseteq Int
  <2>1. top - 8 \in Int /\ top - 16 \in Int /\ top - 24 \in Int
    BY <1>5
  <2>2. DOMAIN saved \subseteq Int
    BY <1>1, <2>1, DomainFacts DEF saved
  <2>3. DOMAIN called \subseteq Int
    BY <2>1, <2>2, DomainFacts DEF called
  <2>4. DOMAIN mem' \subseteq Int
    BY <1>4, <2>1, <2>3, DomainFacts
  <2>. QED
    BY <1>3, <1>4, <1>5, <1>6, <2>4
<1>. QED
  BY <1>1, <1>3, <1>4, <1>6, <1>7, <1>8, <1>14, <1>15, <1>16, <1>17, <1>18,
     <1>19, <1>20, <1>21, StepKept DEF L

SameBytes(m, m2, lo, hi) ==
  \A x \in Int : lo <= x /\ x < hi => Byte(m2, x) = Byte(m, x)

(* A function that runs leaves by its epilogue, with the frame as it was   *)
(* and its result, when it has one, above its arguments.                   *)
LEMMA EpilogueKept ==
  ASSUME IInv, status = "run", InBody(act), act.fn # main,
         NEW m, DOMAIN m \subseteq Int, Quiet(mem, m, Ceiling(act)),
         SameBytes(mem, m, act.frame, act.frame + 24),
         NoNewReturn(acts, mem, m, Len(acts)), plain => ResultAt(act, m),
         Epilogue(m)
  PROVE  IInv'
<1>. DEFINE L == Len(acts)
            a == [act EXCEPT !.phase = "returned"]
<1>1. /\ calls \in Nat /\ ActsOK(acts, calls)
      /\ L \in Nat /\ L \in 1 .. L /\ act = acts[L]
      /\ act \in ActRecord /\ LocalsOK(act)
      /\ rsp \in Int /\ rbp \in Int /\ r15 \in Int
      /\ FramesLinked(acts, mem) /\ ReturnsUnique(acts, mem, calls)
  BY TopFacts DEF L
<1>2. L > 1 /\ CalledOK(act) /\ r15 <= act.base /\ Saved(act, mem)
      /\ rbp = act.frame
  BY TopFacts DEF L
<1>3. act.frame \in Int /\ act.base \in Int
  BY <1>1 DEF ActRecord
<1>4. /\ a \in ActRecord /\ a.phase = "returned" /\ a.id = act.id
      /\ a.fn = act.fn /\ a.base = act.base /\ a.ctx = act.ctx
      /\ a.next = act.next /\ a.offset = act.offset /\ a.args = act.args
      /\ a.result = act.result /\ a.locals = act.locals /\ a.drift = act.drift
  BY <1>1 DEF ActRecord, Phases
<1>. HIDE DEF L, a
<1>5. Same(acts, L, a) /\ LocalsOK(a) /\ CalledOK(a) /\ ~InBody(a)
  <2>1. Same(acts, L, a) /\ LocalsOK(a) /\ ~InBody(a)
    BY <1>1, <1>4 DEF Same, LocalsOK, InBody
  <2>. QED
    BY <1>2, <1>4, <2>1 DEF CalledOK
<1>6. ASSUME NEW i \in {0, 8, 16}, NEW v, Holds(mem, act.frame + i, v, 8)
      PROVE  Holds(m, act.frame + i, v, 8)
  <2>1. act.frame + i \in Int
    BY <1>3
  <2>2. \A x \in Int : act.frame + i <= x /\ x < (act.frame + i) + 8
          => Byte(m, x) = Byte(mem, x)
    BY <1>3 DEF SameBytes
  <2>. QED
    BY <1>6, <2>1, <2>2, HoldsSame
<1>7. Words(m, rbp + 8, "return") = {Return(act.id)}
  <2>1. Holds(m, act.frame + 8, Return(act.id), 8)
    BY <1>2, <1>6 DEF Saved
  <2>2. Return(act.id)[1] = "return" /\ act.frame + 8 \in Int
    BY <1>3 DEF Return
  <2>. QED
    BY <1>2, <2>1, <2>2, WordsHeld
<1>8. \A k \in 1 .. L - 1 : Outer(acts, k, L) =>
        Words(m, rbp, "address") = {Address(acts[k].frame)}
  <2>1. SUFFICES ASSUME NEW k \in 1 .. L - 1, Outer(acts, k, L)
                 PROVE  Words(m, rbp, "address") = {Address(acts[k].frame)}
    OBVIOUS
  <2>2. L \in 2 .. Len(acts)
    BY <1>1, <1>2 DEF L
  <2>3. Holds(mem, act.frame, Address(acts[k].frame), 8)
    BY <1>1, <2>1, <2>2 DEF FramesLinked
  <2>4. act.frame + 0 = act.frame
    BY <1>3
  <2>5. Holds(m, act.frame, Address(acts[k].frame), 8)
    BY <1>6, <2>3, <2>4
  <2>6. Address(acts[k].frame)[1] = "address"
    BY DEF Address
  <2>. QED
    BY <1>2, <1>3, <2>5, <2>6, WordsHeld
<1>9. PICK k \in 1 .. L - 1 : Outer(acts, k, L)
  <2>1. L \in 2 .. Len(acts)
    BY <1>1, <1>2 DEF L
  <2>. QED
    BY <1>1, <2>1, OuterExists
<1>10. /\ \E v \in Words(m, rbp, "address") : rbp' = v[2]
       /\ rsp' = rbp + 16 /\ mem' = m /\ SetAct(a) /\ r15' = r15
       /\ calls' = calls /\ reads' = reads /\ plain' = plain /\ status' = "run"
  <2>1. Words(m, rbp, "address") # {}
    BY <1>8, <1>9
  <2>. QED
    BY <1>7, <2>1 DEF Epilogue, counts, a
<1>11. \A l \in 1 .. L - 1 : Outer(acts, l, L) => rbp' = acts[l].frame
  <2>1. SUFFICES ASSUME NEW l \in 1 .. L - 1, Outer(acts, l, L)
                 PROVE  rbp' = acts[l].frame
    OBVIOUS
  <2>2. Words(m, rbp, "address") = {Address(acts[l].frame)}
    BY <1>8, <2>1
  <2>3. rbp' = Address(acts[l].frame)[2]
    BY <1>10, <2>2
  <2>. QED
    BY <2>3 DEF Address
<1>12. rbp' \in Int
  <2>1. k \in 1 .. Len(acts)
    BY <1>1 DEF L
  <2>2. acts[k] \in ActRecord
    BY <1>1, <2>1, ActsFacts
  <2>. QED
    BY <1>9, <1>11, <2>2 DEF ActRecord
<1>13. After(acts, acts', L, a)
  BY <1>1, <1>4, <1>10, SetActAfter DEF L
<1>14. Current(a, mem', rsp')
  <2>1. PICK v \in Int : v <= act.base /\ Holds(mem, act.frame + 16, Address(v), 8)
    BY <1>2 DEF Saved, SavedAt
  <2>2. Holds(m, act.frame + 16, Address(v), 8)
    BY <1>6, <2>1
  <2>3. SavedAt(mem', rsp', a.base)
    BY <1>2, <1>4, <1>10, <2>1, <2>2 DEF SavedAt
  <2>. QED
    BY <1>4, <2>3 DEF Current
<1>15. ReturnsUnique(acts', mem', calls)
  <2>1. a.phase \in {"returned", "result"}
    BY <1>4
  <2>2. NoNewReturn(acts, mem, mem', L)
    BY <1>10 DEF L
  <2>. QED
    BY <1>1, <1>5, <1>13, <2>1, <2>2, ReturnsKept DEF L
<1>16. ASSUME plain
       PROVE  RegularCall(a, mem') /\ CurrentExact(a, mem', rsp', r15')
  <2>1. RegularCall(act, mem)
    BY <1>1, <1>2, <1>16 DEF IInv, Exact, ExactOK, L
  <2>2. RegularCall(a, mem')
    BY <1>4, <1>5, <2>1 DEF RegularCall
  <2>3. Holds(m, act.frame + 16, Address(act.base), 8)
    BY <1>6, <2>1 DEF RegularCall
  <2>4. ResultAt(a, mem')
    BY <1>4, <1>10, <1>16 DEF ResultAt
  <2>. QED
    BY <1>2, <1>4, <1>10, <2>2, <2>3, <2>4 DEF CurrentExact
<1>17. reads' \in 0 .. MaxReads /\ plain' \in BOOLEAN
  BY <1>10 DEF IInv, Typed
<1>18. /\ rsp' \in Int /\ DOMAIN mem' \subseteq Int /\ r15' <= a.base
       /\ Quiet(mem, mem', Ceiling(acts[L]))
  BY <1>1, <1>2, <1>4, <1>10
<1>. QED
  <2>1. calls' = calls /\ status' = "run" /\ r15' \in Int /\ rbp' \in Int
    BY <1>1, <1>10, <1>12
  <2>2. plain' => plain /\ RegularCall(a, mem') /\ CurrentExact(a, mem', rsp', r15')
    BY <1>10, <1>16
  <2>. QED
    BY <1>1, <1>2, <1>4, <1>5, <1>11, <1>13, <1>14, <1>15, <1>17, <1>18,
       <2>1, <2>2, StepKept, SMTT(60) DEF L

(* A void function that falls off its end returns to where it was called.  *)
LEMMA FallOffKept ==
  ASSUME IInv, FallOff
  PROVE  IInv'
<1>1. /\ status = "run" /\ InBody(act) /\ act.fn # main
      /\ Ret[act.fn] = "void" /\ Epilogue(mem)
  BY DEF FallOff, InPhase, InBody
<1>2. /\ DOMAIN mem \subseteq Int /\ Quiet(mem, mem, Ceiling(act))
      /\ SameBytes(mem, mem, act.frame, act.frame + 24)
  BY TopFacts DEF Quiet, SameBytes
<1>3. NoNewReturn(acts, mem, mem, Len(acts))
  BY DEF NoNewReturn
<1>4. ResultAt(act, mem)
  BY <1>1, SizeFacts DEF ResultAt, Holds
<1>. QED
  BY <1>1, <1>2, <1>3, <1>4, EpilogueKept

(* The result is copied over the slot that the caller reserved.            *)
LEMMA ReturnValueKept ==
  ASSUME IInv, ReturnValue
  PROVE  IInv'
<1>. DEFINE L == Len(acts)
            n == Slot(act.fn)
            l == Size(Ret[act.fn])
            P == ArgsSize(act.fn)
            from == rsp - n
            to == rbp + 24 + P
            pushed == Write(mem, from, act.result, n)
            m == Copy(pushed, from, to, l)
<1>1. /\ status = "run" /\ InBody(act) /\ act.fn # main
      /\ Ret[act.fn] # "void" /\ Epilogue(m)
  BY DEF ReturnValue, InPhase, InBody
<1>2. /\ calls \in Nat /\ ActsOK(acts, calls)
      /\ L \in Nat /\ L \in 1 .. L /\ act = acts[L] /\ act \in ActRecord
      /\ rsp \in Int /\ rbp \in Int /\ DOMAIN mem \subseteq Int
      /\ Nested(acts) /\ Current(act, mem, rsp)
  BY TopFacts DEF L
<1>3. L > 1 /\ CalledOK(act) /\ Saved(act, mem) /\ rbp = act.frame
  BY <1>1, TopFacts DEF L
<1>. HIDE DEF L, n, l, P, from, to, pushed, m
<1>4. /\ n \in Nat /\ l \in Nat /\ l <= n /\ P \in Nat /\ Frame(act.fn) \in Nat
      /\ act.frame \in Int /\ act.base \in Int /\ from \in Int /\ to \in Int
      /\ act.result \in Values /\ Ceiling(act) = act.base + n
  <2>1. act.fn \in Fun
    BY <1>3 DEF CalledOK
  <2>2. n \in Nat /\ l \in Nat /\ l <= n
    BY <2>1, SlotFacts DEF n, l
  <2>3. P \in Nat
    <3>1. Len(Args[act.fn]) + 1 \in 1 .. Len(Args[act.fn]) + 1
      BY <2>1, SlotFacts
    <3>. QED
      BY <2>1, <3>1, BeforeFacts DEF P
  <2>4. /\ act.frame \in Int /\ act.base \in Int /\ act.result \in Values
    BY <1>2 DEF ActRecord
  <2>5. from \in Int /\ to \in Int
    BY <1>2, <2>2, <2>3 DEF from, to
  <2>. QED
    BY <2>2, <2>3, <2>4, <2>5, FrameFacts DEF Ceiling, n
<1>5. /\ rsp <= act.frame /\ from + n = rsp /\ to = act.frame + 24 + P
      /\ to <= act.base
  <2>1. rsp <= act.frame - Frame(act.fn)
    BY <1>1, <1>2 DEF Current, Floor, InBody
  <2>2. to = act.frame + 24 + P /\ to <= act.base
    BY <1>3 DEF Saved, to, P
  <2>3. from = rsp - n
    BY DEF from
  <2>. QED
    BY <1>2, <1>4, <2>1, <2>2, <2>3
<1>6. \A x \in Int : Byte(m, x) =
        IF to <= x /\ x < to + l THEN Byte(pushed, from + (x - to))
        ELSE Byte(pushed, x)
  BY <1>4, CopyByte DEF m
<1>7. \A x \in Int : Byte(pushed, x) =
        IF from <= x /\ x < from + n THEN <<act.result, x - from>>
        ELSE Byte(mem, x)
  BY <1>4, WriteByte DEF pushed
<1>8. Quiet(mem, m, Ceiling(act))
  <2>1. /\ to + l <= Ceiling(act) /\ from + n <= Ceiling(act)
        /\ Ceiling(act) \in Int
    <3>1. from + n <= act.base
      BY <1>2, <1>4, <1>5
    <3>. QED
      BY <1>4, <1>5, <3>1
  <2>. QED
    BY <1>4, <1>6, <1>7, <2>1 DEF Quiet
<1>9. SameBytes(mem, m, act.frame, act.frame + 24)
  <2>1. act.frame + 24 <= to /\ from + n <= act.frame
    BY <1>4, <1>5
  <2>. QED
    BY <1>4, <1>6, <1>7, <2>1 DEF SameBytes
<1>10. NoNewReturn(acts, mem, m, L)
  <2>1. NoNewReturn(acts, mem, pushed, L)
    BY <1>4, ValuesAreNot, WriteNoReturn DEF pushed
  <2>2. \A k \in 0 .. l - 1 : \A i \in 2 .. L :
          InBody(acts[i]) => from + k < acts[i].frame + 8
    <3>1. SUFFICES ASSUME NEW k \in 0 .. l - 1, NEW i \in 2 .. L,
                          InBody(acts[i])
                   PROVE  from + k < acts[i].frame + 8
      OBVIOUS
    <3>2. from + k < act.frame
      BY <1>2, <1>4, <1>5
    <3>3. CASE i = L
      BY <1>2, <1>4, <3>2, <3>3
    <3>4. CASE i # L
      <4>1. i \in 1 .. L - 1
        BY <1>2, <3>4
      <4>2. acts[i].frame \in Int /\ Ceiling(act) <= acts[i].frame
        BY <1>2, <3>1, <4>1, WaitingAbove DEF L
      <4>3. act.frame <= Ceiling(act)
        BY <1>4, <1>5
      <4>. QED
        BY <1>4, <3>2, <4>2, <4>3
    <3>. QED
      BY <3>3, <3>4
  <2>3. NoNewReturn(acts, pushed, m, L)
    BY <1>4, <2>2, CopyNoReturn DEF m
  <2>. QED
    BY <2>1, <2>3, NoNewTrans
<1>11. ASSUME plain PROVE ResultAt(act, m)
  <2>1. RegularCall(act, mem)
    BY <1>2, <1>3, <1>11 DEF IInv, Exact, ExactOK, L
  <2>2. to = act.base
    BY <1>1, <1>5, <2>1 DEF RegularCall, P
  <2>3. Holds(pushed, from, act.result, l)
    BY <1>4, HoldsWritten DEF pushed
  <2>4. Holds(m, to, act.result, l)
    BY <1>4, <2>3, HoldsCopied DEF m
  <2>. QED
    BY <2>2, <2>4 DEF ResultAt, l
<1>12. DOMAIN m \subseteq Int
  <2>1. DOMAIN pushed \subseteq Int
    BY <1>2, <1>4, DomainFacts DEF pushed
  <2>. QED
    BY <1>4, <2>1, DomainFacts DEF m
<1>. QED
  BY <1>1, <1>8, <1>9, <1>10, <1>11, <1>12, EpilogueKept DEF L

(* RET alone never finds the return address: it is above the saved rbp.    *)
LEMMA ReturnVoidKept ==
  ASSUME IInv, ReturnVoid
  PROVE  IInv'
<1>. DEFINE L == Len(acts)
<1>1. /\ status = "run" /\ InBody(act) /\ act.fn # main
      /\ plain' = FALSE /\ calls' = calls /\ reads' = reads
  BY DEF ReturnVoid, InPhase, InBody
<1>2. /\ calls \in Nat /\ calls <= MaxCalls /\ ActsOK(acts, calls) /\ L \in Nat
      /\ L \in 1 .. L /\ act = acts[L] /\ act \in ActRecord /\ rsp \in Int
      /\ Nested(acts) /\ Current(act, mem, rsp)
      /\ ReturnsUnique(acts, mem, calls) /\ L > 1
  BY <1>1, TopFacts, ProgramAssumption DEF L, IInv, Typed
<1>. HIDE DEF L
<1>3. act.frame \in Int /\ act.id \in 1 .. MaxCalls
  <2>1. act.id \in Nat /\ act.frame \in Int
    BY <1>2 DEF ActRecord
  <2>2. act.id <= calls
    BY <1>2, ActsFacts DEF L
  <2>3. acts[1].id < act.id /\ acts[1].id = 0
    <3>1. 1 \in 1 .. L - 1
      BY <1>2
    <3>2. Under(acts[1], acts[L])
      BY <1>2, <3>1 DEF Nested, L
    <3>. QED
      BY <1>2, <3>2 DEF Under, ActsOK, MainOK
  <2>. QED
    BY <1>2, <2>1, <2>2, <2>3, ProgramAssumption
<1>4. Words(mem, rsp, "return") # {Return(act.id)}
  <2>1. SUFFICES ASSUME Return(act.id) \in Words(mem, rsp, "return")
                 PROVE  FALSE
    OBVIOUS
  <2>2. Byte(mem, rsp) = <<Return(act.id), 0>>
    <3>1. Holds(mem, rsp, Return(act.id), 8)
      BY <2>1 DEF Words
    <3>2. 0 \in 0 .. 8 - 1 /\ rsp + 0 = rsp
      BY <1>2
    <3>. QED
      BY <3>1, <3>2 DEF Holds
  <2>3. L \in 2 .. Len(acts) /\ 0 \in 0 .. 7
    BY <1>2 DEF L
  <2>4. \/ acts[L].phase \in {"returned", "result"}
        \/ InBody(acts[L]) /\ rsp = acts[L].frame + 8 + 0
    BY <1>2, <1>3, <2>2, <2>3, ReturnsAt
  <2>5. rsp = act.frame + 8
    BY <1>1, <1>2, <1>3, <2>4 DEF InBody
  <2>6. rsp <= act.frame
    <3>1. rsp <= act.frame - Frame(act.fn)
      BY <1>1, <1>2 DEF Current, Floor, InBody
    <3>. QED
      BY <1>2, <1>3, <3>1, FrameFacts
  <2>. QED
    BY <1>2, <1>3, <2>5, <2>6
<1>5. /\ status' = "wild" /\ rsp' = rsp /\ rbp' = rbp /\ r15' = r15
      /\ mem' = mem /\ acts' = acts
  BY <1>4 DEF ReturnVoid
<1>6. Typed' /\ Stacked'
  BY <1>1, <1>5 DEF IInv, Typed, Stacked
<1>. QED
  BY <1>1, <1>6 DEF IInv

(* The program ends with the return of main.                               *)
LEMMA ExitKept ==
  ASSUME IInv, Exit
  PROVE  IInv'
<1>1. /\ status' = "exit" /\ rsp' = rsp /\ rbp' = rbp /\ r15' = r15
      /\ mem' = mem /\ acts' = acts
      /\ calls' = calls /\ reads' = reads /\ plain' = plain
  BY DEF Exit, counts
<1>2. Typed' /\ Stacked'
  BY <1>1 DEF IInv, Typed, Stacked
<1>3. plain' => Exact'
  BY <1>1 DEF IInv, Exact
<1>. QED
  BY <1>2, <1>3 DEF IInv

(* The epilogue's last step: rsp goes back to where the caller had it.     *)
LEMMA PopRspKept ==
  ASSUME IInv, PopRsp
  PROVE  IInv'
<1>. DEFINE L == Len(acts)
            a == [act EXCEPT !.phase = "result"]
<1>1. /\ calls \in Nat /\ ActsOK(acts, calls)
      /\ L \in Nat /\ L \in 1 .. L /\ act = acts[L]
      /\ act \in ActRecord /\ LocalsOK(act)
      /\ rsp \in Int /\ rbp \in Int /\ r15 \in Int /\ DOMAIN mem \subseteq Int
      /\ Current(act, mem, rsp) /\ ReturnsUnique(acts, mem, calls)
  BY TopFacts DEF L
<1>2. act.phase = "returned" /\ ~InBody(act) /\ status = "run"
  BY DEF PopRsp, InPhase, InBody
<1>3. L > 1 /\ CalledOK(act) /\ r15 <= act.base
  BY <1>2, TopFacts DEF L
<1>4. PICK v \in Int : v <= act.base /\ Holds(mem, rsp, Address(v), 8)
  BY <1>1, <1>2 DEF Current, SavedAt
<1>5. Words(mem, rsp, "address") = {Address(v)}
  <2>1. Address(v)[1] = "address"
    BY DEF Address
  <2>. QED
    BY <1>1, <1>4, <2>1, WordsHeld, SMTT(30)
<1>6. /\ rsp' = v /\ mem' = mem /\ SetAct(a) /\ rbp' = rbp /\ r15' = r15
      /\ calls' = calls /\ reads' = reads /\ plain' = plain /\ status' = "run"
  <2>1. Words(mem, rsp, "address") # {}
    BY <1>5
  <2>2. \E w \in Words(mem, rsp, "address") : rsp' = w[2]
    BY <2>1 DEF PopRsp
  <2>3. rsp' = Address(v)[2]
    BY <1>5, <2>2
  <2>4. rsp' = v
    BY <2>3 DEF Address
  <2>. QED
    BY <1>2, <2>1, <2>4 DEF PopRsp, counts
<1>7. /\ a \in ActRecord /\ a.phase = "result" /\ a.id = act.id
      /\ a.fn = act.fn /\ a.base = act.base /\ a.ctx = act.ctx
      /\ a.next = act.next /\ a.offset = act.offset /\ a.args = act.args
      /\ a.result = act.result /\ a.locals = act.locals /\ a.drift = act.drift
  BY <1>1 DEF ActRecord, Phases
<1>. HIDE DEF L, a
<1>8. Same(acts, L, a) /\ LocalsOK(a) /\ CalledOK(a) /\ ~InBody(a)
  <2>1. Same(acts, L, a) /\ LocalsOK(a) /\ ~InBody(a)
    BY <1>1, <1>7 DEF Same, LocalsOK, InBody
  <2>. QED
    BY <1>3, <1>7, <2>1 DEF CalledOK
<1>9. After(acts, acts', L, a)
  BY <1>1, <1>6, <1>7, SetActAfter DEF L
<1>10. Current(a, mem', rsp')
  BY <1>4, <1>6, <1>7 DEF Current
<1>11. ReturnsUnique(acts', mem', calls)
  <2>1. NoNewReturn(acts, mem, mem', L)
    BY <1>6 DEF NoNewReturn
  <2>2. a.phase \in {"returned", "result"}
    BY <1>7
  <2>. QED
    BY <1>1, <1>8, <1>9, <2>1, <2>2, ReturnsKept DEF L
<1>12. ASSUME plain
       PROVE  RegularCall(a, mem') /\ CurrentExact(a, mem', rsp', r15')
  <2>1. RegularCall(act, mem) /\ CurrentExact(act, mem, rsp, r15)
    BY <1>1, <1>3, <1>12 DEF IInv, Exact, ExactOK, L
  <2>2. RegularCall(a, mem')
    BY <1>7, <1>8, <2>1 DEF RegularCall
  <2>3. Holds(mem, rsp, Address(act.base), 8) /\ ResultAt(act, mem)
    BY <1>2, <2>1 DEF CurrentExact
  <2>4. Words(mem, rsp, "address") = {Address(act.base)}
    <3>1. Address(act.base)[1] = "address"
      BY DEF Address
    <3>. QED
      BY <1>1, <2>3, <3>1, WordsHeld
  <2>5. v = act.base
    <3>1. Address(v) = Address(act.base)
      BY <1>5, <2>4
    <3>. QED
      BY <3>1 DEF Address
  <2>6. ResultAt(a, mem')
    BY <1>6, <1>7, <2>3 DEF ResultAt
  <2>. QED
    BY <1>6, <1>7, <2>2, <2>5, <2>6 DEF CurrentExact
<1>13. reads' \in 0 .. MaxReads /\ plain' \in BOOLEAN
  BY <1>6 DEF IInv, Typed
<1>14. \A k \in 1 .. L - 1 : Outer(acts, k, L) => rbp' = acts[k].frame
  BY <1>2, <1>6, TopFacts DEF L
<1>15. /\ rsp' \in Int /\ DOMAIN mem' \subseteq Int /\ r15' <= a.base
       /\ Quiet(mem, mem', Ceiling(acts[L]))
  BY <1>1, <1>3, <1>6, <1>7 DEF Quiet
<1>. QED
  BY <1>1, <1>3, <1>6, <1>7, <1>8, <1>9, <1>10, <1>11, <1>12, <1>13, <1>14,
     <1>15, StepKept DEF L

(* What the caller finds when a call ends.                                 *)
LEMMA CallerFacts ==
  ASSUME IInv, act.phase = "result", NEW N, N = Len(acts) - 1
  PROVE  /\ N \in 1 .. Len(acts) /\ N >= 1 /\ Len(acts) > 1 /\ caller = acts[N]
         /\ caller \in ActRecord /\ LocalsOK(caller) /\ Same(acts, N, caller)
         /\ IF N = 1 THEN MainOK(caller) ELSE CalledOK(caller)
         /\ CalledOK(act) /\ WaitsFor(caller, act)
         /\ rsp <= act.base /\ act.base \in Int /\ Ceiling(act) \in Int
         /\ Ceiling(act) = act.base + Slot(act.fn)
         /\ Floor(caller) \in Int /\ Ceiling(act) <= Floor(caller)
         /\ N > 1 => r15 <= caller.base
         /\ InBody(caller) => rbp = caller.frame
         /\ N > 1 /\ InBody(caller) => Saved(caller, mem)
         /\ \A k \in 1 .. N - 1 : Outer(acts, k, N) =>
              IF InBody(caller)
              THEN Holds(mem, caller.frame, Address(acts[k].frame), 8)
              ELSE rbp = acts[k].frame
         /\ plain => /\ N > 1 => RegularCall(caller, mem)
                     /\ InBody(caller) => LocalsHold(caller, mem)
                     /\ InBody(caller) /\ rsp = act.base /\ ResultAt(act, mem)
                     /\ Ceiling(act) = Floor(caller) - caller.drift
<1>. DEFINE L == Len(acts)
<1>1. /\ calls \in Nat /\ ActsOK(acts, calls)
      /\ L \in Nat /\ L \in 1 .. L /\ act = acts[L] /\ act \in ActRecord
      /\ rsp \in Int /\ rbp \in Int /\ r15 \in Int
      /\ Nested(acts) /\ Current(act, mem, rsp) /\ FramesLinked(acts, mem)
  BY TopFacts DEF L
<1>2. ~InBody(act)
  BY DEF InBody
<1>3. L > 1 /\ CalledOK(act) /\ r15 <= act.base
  BY <1>2, TopFacts DEF L
<1>. HIDE DEF L
<1>4. N = L - 1 /\ N \in 1 .. L /\ N >= 1 /\ N \in Nat /\ L = N + 1
      /\ N \in 1 .. L - 1 /\ L \in 2 .. L /\ (N > 1 => N \in 2 .. L)
  BY <1>1, <1>3 DEF L
<1>5. /\ caller = acts[N] /\ caller \in ActRecord /\ LocalsOK(caller)
      /\ IF N = 1 THEN MainOK(caller) ELSE CalledOK(caller)
  <2>1. caller = acts[N]
    BY DEF caller
  <2>2. /\ acts[N] \in ActRecord /\ LocalsOK(acts[N])
        /\ N > 1 => CalledOK(acts[N])
        /\ MainOK(acts[1])
    BY <1>1, <1>4, ActsFacts DEF L
  <2>. QED
    BY <1>4, <2>1, <2>2
<1>6. Same(acts, N, caller)
  BY <1>5 DEF Same
<1>7. WaitsFor(caller, act)
  BY <1>1, <1>4, <1>5 DEF ActsOK, L
<1>8. rsp <= act.base /\ act.base \in Int
  BY <1>1 DEF Current, ActRecord
<1>9. /\ Ceiling(act) \in Int /\ Ceiling(act) = act.base + Slot(act.fn)
      /\ Floor(caller) \in Int /\ Ceiling(act) <= Floor(caller)
      /\ act.base <= Ceiling(act)
  <2>1. Under(acts[N], acts[L])
    BY <1>1, <1>4 DEF Nested, L
  <2>2. /\ Ceiling(act) \in Int /\ act.base <= Ceiling(act)
    BY <1>1, <1>3, FloorFacts
  <2>3. CalledOK(caller) \/ MainOK(caller)
    BY <1>5
  <2>4. Floor(caller) \in Int
    BY <1>5, <2>3, FloorFacts
  <2>. QED
    BY <1>1, <1>5, <2>1, <2>2, <2>4 DEF Under, Ceiling
<1>10. StackOK(acts, mem, rsp, rbp, r15, calls)
  BY DEF IInv, Stacked
<1>11. N > 1 /\ InBody(caller) => Saved(caller, mem)
  BY <1>4, <1>5, <1>10 DEF StackOK, L
<1>12. ASSUME N > 1 PROVE r15 <= caller.base
  <2>1. CalledOK(caller) /\ caller.base \in Int /\ caller.frame \in Int
    BY <1>4, <1>5, <1>12 DEF ActRecord
  <2>2. CASE InBody(caller)
    <3>1. caller.frame + 24 + ArgsSize(caller.fn) <= caller.base
      BY <1>11, <1>12, <2>2 DEF Saved
    <3>2. ArgsSize(caller.fn) \in Nat
      <4>1. caller.fn \in Fun
        BY <2>1 DEF CalledOK
      <4>2. Len(Args[caller.fn]) + 1 \in 1 .. Len(Args[caller.fn]) + 1
        BY <4>1, SlotFacts
      <4>. QED
        BY <4>1, <4>2, BeforeFacts
    <3>3. Floor(caller) <= caller.frame
      BY <1>5, <2>1, <2>2, FloorFacts
    <3>4. r15 <= caller.frame
      BY <1>1, <1>3, <1>8, <1>9, <2>1, <3>3
    <3>. QED
      BY <1>1, <2>1, <3>1, <3>2, <3>4
  <2>3. CASE ~InBody(caller)
    <3>1. Floor(caller) <= caller.base
      BY <1>5, <2>1, <2>3, FloorFacts
    <3>. QED
      BY <1>1, <1>3, <1>8, <1>9, <2>1, <3>1
  <2>. QED
    BY <2>2, <2>3
<1>13. ASSUME InBody(caller) PROVE rbp = caller.frame
  <2>1. Outer(acts, N, L)
    BY <1>4, <1>5, <1>13 DEF Outer
  <2>. QED
    BY <1>2, <1>4, <1>5, <2>1, TopFacts DEF L
<1>14. ASSUME NEW k \in 1 .. N - 1, Outer(acts, k, N)
       PROVE  IF InBody(caller)
              THEN Holds(mem, caller.frame, Address(acts[k].frame), 8)
              ELSE rbp = acts[k].frame
  <2>1. CASE InBody(caller)
    <3>1. N \in 2 .. Len(acts)
      BY <1>4 DEF L
    <3>. QED
      BY <1>1, <1>5, <1>14, <2>1, <3>1 DEF FramesLinked
  <2>2. CASE ~InBody(caller)
    <3>1. k \in 1 .. L - 1 /\ \A j \in k + 1 .. L - 1 : j = N \/ j \in k + 1 .. N - 1
      BY <1>4
    <3>2. Outer(acts, k, L)
      BY <1>5, <1>14, <2>2, <3>1 DEF Outer
    <3>. QED
      BY <1>2, <2>2, <3>1, <3>2, TopFacts DEF L
  <2>. QED
    BY <2>1, <2>2
<1>15. ASSUME plain
       PROVE  /\ N > 1 => RegularCall(caller, mem)
              /\ InBody(caller) => LocalsHold(caller, mem)
              /\ InBody(caller) /\ rsp = act.base /\ ResultAt(act, mem)
              /\ Ceiling(act) = Floor(caller) - caller.drift
  <2>1. ExactOK(acts, mem, rsp, r15)
    BY <1>15 DEF IInv, Exact
  <2>2. RegularCall(act, mem) /\ Ceiling(act) = Floor(caller) - caller.drift
    BY <1>1, <1>4, <1>5, <2>1 DEF ExactOK, L
  <2>3. InBody(caller)
    BY <1>7, <2>2 DEF RegularCall, WaitsFor, InBody
  <2>4. rsp = act.base /\ ResultAt(act, mem)
    BY <1>1, <2>1 DEF ExactOK, CurrentExact, L
  <2>. QED
    BY <1>4, <1>5, <2>1, <2>2, <2>3, <2>4 DEF ExactOK, L
<1>. QED
  BY <1>3, <1>4, <1>5, <1>6, <1>7, <1>8, <1>9, <1>11, <1>12, <1>13, <1>14,
     <1>15 DEF L

(* A result that nobody uses is taken off the stack.                       *)
LEMMA DiscardResultKept ==
  ASSUME IInv, DiscardResult
  PROVE  IInv'
<1>. DEFINE N == Len(acts) - 1
            a == caller
<1>1. /\ calls \in Nat /\ ActsOK(acts, calls) /\ ReturnsUnique(acts, mem, calls)
      /\ rsp \in Int /\ rbp \in Int /\ r15 \in Int /\ DOMAIN mem \subseteq Int
  BY TopFacts
<1>2. act.phase = "result" /\ act.ctx = "statement" /\ status = "run"
  BY DEF DiscardResult, InPhase
<1>3. /\ mem' = mem /\ rsp' = rsp + Slot(act.fn) /\ EndCall(a) /\ rbp' = rbp
      /\ r15' = r15 /\ calls' = calls /\ reads' = reads /\ plain' = plain
      /\ status' = "run"
  BY <1>2 DEF DiscardResult, counts
<1>. HIDE DEF N
<1>4. /\ N \in 1 .. Len(acts) /\ Len(acts) > 1 /\ a = acts[N]
      /\ a \in ActRecord /\ LocalsOK(a) /\ Same(acts, N, a)
      /\ IF N = 1 THEN MainOK(a) ELSE CalledOK(a)
      /\ CalledOK(act) /\ WaitsFor(a, act)
  BY <1>2, CallerFacts DEF N
<1>5. /\ rsp <= act.base /\ act.base \in Int /\ Ceiling(act) \in Int
      /\ Ceiling(act) = act.base + Slot(act.fn)
      /\ Floor(a) \in Int /\ Ceiling(act) <= Floor(a)
      /\ N > 1 => r15 <= a.base
      /\ InBody(a) => rbp = a.frame
      /\ N > 1 /\ InBody(a) => Saved(a, mem)
  BY <1>2, CallerFacts DEF N
<1>6. InBody(a)
  BY <1>2, <1>4 DEF WaitsFor, InBody
<1>7. \A k \in 1 .. N - 1 : Outer(acts, k, N) =>
        Holds(mem', a.frame, Address(acts[k].frame), 8)
  BY <1>2, <1>3, <1>6, CallerFacts DEF N
<1>8. Slot(act.fn) \in Nat
  BY <1>4, SlotFacts DEF CalledOK
<1>9. After(acts, acts', N, a)
  BY <1>1, <1>3, <1>4, EndCallAfter DEF N
<1>10. Current(a, mem', rsp')
  <2>1. rsp' <= Floor(a)
    BY <1>1, <1>3, <1>5, <1>8
  <2>. QED
    BY <1>6, <2>1 DEF Current, InBody
<1>11. ReturnsUnique(acts', mem', calls)
  <2>1. NoNewReturn(acts, mem, mem', N)
    BY <1>3 DEF NoNewReturn
  <2>2. InBody(a) /\ InBody(acts[N]) /\ a.frame = acts[N].frame
    BY <1>4, <1>6
  <2>. QED
    BY <1>1, <1>4, <1>9, <2>1, <2>2, ReturnsKept
<1>12. ASSUME plain
       PROVE  /\ N > 1 => RegularCall(a, mem')
              /\ LocalsHold(a, mem') /\ CurrentExact(a, mem', rsp', r15')
  <2>1. /\ N > 1 => RegularCall(a, mem)
        /\ LocalsHold(a, mem) /\ rsp = act.base
        /\ Ceiling(act) = Floor(a) - a.drift
    BY <1>2, <1>6, <1>12, CallerFacts DEF N
  <2>. QED
    BY <1>3, <1>5, <1>6, <2>1 DEF CurrentExact, InBody
<1>13. reads' \in 0 .. MaxReads /\ plain' \in BOOLEAN
  BY <1>3 DEF IInv, Typed
<1>14. /\ rsp' \in Int /\ DOMAIN mem' \subseteq Int
       /\ Quiet(mem, mem', Ceiling(acts[N]))
  BY <1>1, <1>3, <1>8 DEF Quiet
<1>15. N > 1 => Saved(a, mem') /\ r15' <= a.base
  BY <1>3, <1>5, <1>6
<1>. HIDE DEF a
<1>. QED
  BY <1>1, <1>3, <1>4, <1>5, <1>6, <1>7, <1>9, <1>10, <1>11, <1>12, <1>13,
     <1>14, <1>15, StepKept

(* A result becomes an argument of the call that encloses it.              *)
LEMMA PassResultKept ==
  ASSUME IInv, PassResult
  PROVE  IInv'
<1>. DEFINE N == Len(acts) - 1
            a == [caller EXCEPT !.phase = "value",
                                !.args[caller.next] = act.result]
<1>1. /\ calls \in Nat /\ ActsOK(acts, calls) /\ ReturnsUnique(acts, mem, calls)
      /\ rsp \in Int /\ rbp \in Int /\ r15 \in Int /\ DOMAIN mem \subseteq Int
      /\ act \in ActRecord
  BY TopFacts
<1>2. act.phase = "result" /\ act.ctx = "argument" /\ status = "run"
  BY DEF PassResult, InPhase
<1>3. /\ mem' = mem /\ rsp' = rsp /\ EndCall(a) /\ rbp' = rbp
      /\ r15' = r15 /\ calls' = calls /\ reads' = reads /\ plain' = plain
      /\ status' = "run"
  BY <1>2 DEF PassResult, counts
<1>. HIDE DEF N, a
<1>4. /\ N \in 1 .. Len(acts) /\ Len(acts) > 1 /\ caller = acts[N] /\ N >= 1
      /\ caller \in ActRecord /\ LocalsOK(caller)
      /\ IF N = 1 THEN MainOK(caller) ELSE CalledOK(caller)
      /\ CalledOK(act) /\ WaitsFor(caller, act)
  BY <1>2, CallerFacts DEF N
<1>5. /\ caller.phase = "args" /\ ~InBody(caller) /\ N > 1 /\ CalledOK(caller)
      /\ caller.next > 0 /\ Args[caller.fn][caller.next] \in Prim
      /\ Ret[act.fn] \in Prim
  <2>1. caller.phase = "args"
    BY <1>2, <1>4 DEF WaitsFor
  <2>2. N # 1
    BY <1>4, <2>1 DEF MainOK
  <2>. QED
    BY <1>2, <1>4, <2>1, <2>2 DEF WaitsFor, InBody
<1>6. /\ rsp <= act.base /\ act.base \in Int /\ Ceiling(act) \in Int
      /\ Ceiling(act) = act.base + Slot(act.fn)
      /\ Floor(caller) \in Int /\ Ceiling(act) <= Floor(caller)
      /\ r15 <= caller.base
  BY <1>2, <1>5, CallerFacts DEF N
<1>7. Slot(act.fn) = 8
  BY <1>4, <1>5, SlotFacts DEF CalledOK
<1>8. /\ a \in ActRecord /\ a.phase = "value" /\ a.id = caller.id
      /\ a.fn = caller.fn /\ a.base = caller.base /\ a.ctx = caller.ctx
      /\ a.next = caller.next /\ a.offset = caller.offset
      /\ a.result = caller.result /\ a.locals = caller.locals
      /\ a.drift = caller.drift /\ DOMAIN a.args = DOMAIN caller.args
  <2>. DEFINE e == [caller.args EXCEPT ![caller.next] = act.result]
  <2>1. caller.args \in ArgLists /\ act.result \in Values
    BY <1>1, <1>4 DEF ActRecord
  <2>2. PICK k \in Nat : caller.args \in [1 .. k -> Values]
    BY <2>1 DEF ArgLists
  <2>3. e \in [1 .. k -> Values] /\ DOMAIN e = DOMAIN caller.args
    BY <2>1, <2>2
  <2>4. e \in ArgLists
    BY <2>3 DEF ArgLists
  <2>. HIDE DEF e
  <2>5. a = [caller EXCEPT !.phase = "value", !.args = e]
    BY <1>4 DEF a, e, ActRecord
  <2>. QED
    BY <1>4, <2>3, <2>4, <2>5 DEF ActRecord, Phases
<1>9. Same(acts, N, a) /\ LocalsOK(a) /\ CalledOK(a) /\ ~InBody(a)
  <2>1. Same(acts, N, a) /\ LocalsOK(a) /\ ~InBody(a)
    BY <1>4, <1>8 DEF Same, LocalsOK, InBody
  <2>. QED
    BY <1>5, <1>8, <2>1 DEF CalledOK
<1>10. After(acts, acts', N, a)
  BY <1>1, <1>3, <1>4, <1>8, EndCallAfter DEF N
<1>11. Current(a, mem', rsp')
  <2>1. Floor(a) = Floor(caller) /\ Pushed(a) = 8
    BY <1>5, <1>8, <1>9 DEF Floor, Place, Pushed
  <2>2. rsp' + Pushed(a) <= Floor(a)
    BY <1>1, <1>3, <1>6, <1>7, <2>1
  <2>. QED
    BY <1>8, <2>2 DEF Current
<1>12. ReturnsUnique(acts', mem', calls)
  <2>1. NoNewReturn(acts, mem, mem', N)
    BY <1>3 DEF NoNewReturn
  <2>2. acts[N].phase \in {"args", "value"} /\ ~InBody(a)
    BY <1>4, <1>5, <1>9
  <2>. QED
    BY <1>1, <1>4, <1>9, <1>10, <2>1, <2>2, ReturnsKept
<1>13. ~plain'
  BY <1>2, <1>3, <1>5, CallerFacts
<1>14. reads' \in 0 .. MaxReads /\ plain' \in BOOLEAN
  BY <1>3 DEF IInv, Typed
<1>15. \A k \in 1 .. N - 1 : Outer(acts, k, N) => rbp' = acts[k].frame
  BY <1>2, <1>3, <1>5, CallerFacts DEF N
<1>16. /\ rsp' \in Int /\ DOMAIN mem' \subseteq Int /\ r15' <= a.base
       /\ Quiet(mem, mem', Ceiling(acts[N]))
  BY <1>1, <1>3, <1>6, <1>8 DEF Quiet
<1>. QED
  BY <1>1, <1>3, <1>4, <1>5, <1>8, <1>9, <1>10, <1>11, <1>12, <1>13, <1>14,
     <1>15, <1>16, StepKept

(* A local is written: what lies from the frame pointer on stays.          *)
LEMMA LocalPlaces ==
  ASSUME NEW f \in Framed, NEW t \in Type
  PROVE  /\ LocalAt(t) \in Int /\ Size(t) \in Nat
         /\ -Frame(f) <= LocalAt(t) /\ LocalAt(t) + Size(t) <= 0
         /\ \A u \in Type \ {t} : /\ LocalAt(u) \in Int /\ Size(u) \in Nat
                                  /\ \/ LocalAt(u) + Size(u) <= LocalAt(t)
                                     \/ LocalAt(t) + Size(t) <= LocalAt(u)
<1>1. Frame(f) = 5 + StructSize /\ StructSize \in Nat
  BY FrameFacts, SizeFacts
<1>2. CASE t = "int"
  BY <1>1, <1>2, SizeFacts, LocalFacts
<1>3. CASE t = "char"
  BY <1>1, <1>3, SizeFacts, LocalFacts
<1>4. CASE t = "struct"
  BY <1>1, <1>4, SizeFacts, LocalFacts
<1>. QED
  BY <1>2, <1>3, <1>4, SizeFacts

(* The locals after t was given the value v.                               *)
WithLocal(l, t, v) ==
  [u \in DOMAIN l \cup {t} |-> IF u = t THEN v ELSE l[u]]

(* In the frame of a, only the local of type t has changed.                *)
OnlyLocal(a, t, m, m2) ==
  \A x \in Int :
    a.frame - Frame(a.fn) <= x
      /\ ~(a.frame + LocalAt(t) <= x
             /\ x < (a.frame + LocalAt(t)) + Size(t))
      => Byte(m2, x) = Byte(m, x)

(* A local that is written holds its value, and the others hold theirs:    *)
(* they do not overlap.                                                    *)
LEMMA LocalWritten ==
  ASSUME NEW a \in ActRecord, a.fn \in Framed, NEW t \in Type, NEW v,
         NEW b, b.frame = a.frame, b.locals = WithLocal(a.locals, t, v),
         NEW m, NEW m2, LocalsHold(a, m),
         Holds(m2, a.frame + LocalAt(t), v, Size(t)),
         OnlyLocal(a, t, m, m2)
  PROVE  LocalsHold(b, m2)
<1>1. a.frame \in Int /\ a.locals \in LocalSets /\ Frame(a.fn) \in Nat
  BY FrameFacts DEF ActRecord
<1>2. DOMAIN a.locals \subseteq Type
  BY <1>1 DEF LocalSets
<1>3. SUFFICES ASSUME NEW u \in DOMAIN a.locals \cup {t}
               PROVE  Holds(m2, b.frame + LocalAt(u), b.locals[u], Size(u))
  BY DEF LocalsHold, WithLocal
<1>4. b.locals[u] = IF u = t THEN v ELSE a.locals[u]
  BY DEF WithLocal
<1>5. CASE u = t
  BY <1>4, <1>5
<1>6. CASE u # t
  <2>1. u \in DOMAIN a.locals /\ u \in Type \ {t} /\ u \in Type
    BY <1>2, <1>6
  <2>2. Holds(m, a.frame + LocalAt(u), a.locals[u], Size(u))
    BY <2>1 DEF LocalsHold
  <2>3. /\ LocalAt(u) \in Int /\ Size(u) \in Nat /\ -Frame(a.fn) <= LocalAt(u)
        /\ LocalAt(t) \in Int /\ Size(t) \in Nat
        /\ \/ LocalAt(u) + Size(u) <= LocalAt(t)
           \/ LocalAt(t) + Size(t) <= LocalAt(u)
    BY <2>1, LocalPlaces
  <2>4. ASSUME NEW x \in Int, a.frame + LocalAt(u) <= x,
               x < (a.frame + LocalAt(u)) + Size(u)
        PROVE  Byte(m2, x) = Byte(m, x)
    <3>1. a.frame - Frame(a.fn) <= x
      BY <1>1, <2>3, <2>4
    <3>2. ~(a.frame + LocalAt(t) <= x /\ x < (a.frame + LocalAt(t)) + Size(t))
      BY <1>1, <2>3, <2>4
    <3>. QED
      BY <3>1, <3>2 DEF OnlyLocal
  <2>5. a.frame + LocalAt(u) \in Int
    BY <1>1, <2>3
  <2>6. Holds(m2, a.frame + LocalAt(u), a.locals[u], Size(u))
    BY <2>2, <2>3, <2>4, <2>5, HoldsSame
  <2>. QED
    BY <1>4, <1>6, <2>6
<1>. QED
  BY <1>5, <1>6

(* The record of a frame's locals keeps its type.                          *)
LEMMA WithLocalTyped ==
  ASSUME NEW l \in LocalSets, NEW t \in Type, NEW v \in Values
  PROVE  WithLocal(l, t, v) \in LocalSets
<1>1. PICK D \in SUBSET Type : l \in [D -> Values]
  BY DEF LocalSets
<1>2. D \cup {t} \in SUBSET Type /\ DOMAIN l = D
  BY <1>1
<1>3. WithLocal(l, t, v) \in [D \cup {t} -> Values]
  BY <1>1, <1>2 DEF WithLocal
<1>. QED
  BY <1>2, <1>3 DEF LocalSets

(* The result is copied to a local and taken off the stack.                *)
LEMMA AssignResultKept ==
  ASSUME IInv, AssignResult
  PROVE  IInv'
<1>. DEFINE N == Len(acts) - 1
            t == Ret[act.fn]
            to == rbp + LocalAt(t)
            a == [caller EXCEPT !.locals =
                    [u \in DOMAIN @ \cup {t} |->
                       IF u = t THEN act.result ELSE @[u]]]
<1>1. /\ calls \in Nat /\ ActsOK(acts, calls) /\ ReturnsUnique(acts, mem, calls)
      /\ rsp \in Int /\ rbp \in Int /\ r15 \in Int /\ DOMAIN mem \subseteq Int
      /\ act \in ActRecord /\ Nested(acts) /\ act = acts[Len(acts)]
      /\ Len(acts) \in Nat /\ Len(acts) \in 1 .. Len(acts)
  BY TopFacts
<1>2. act.phase = "result" /\ act.ctx = "assign" /\ status = "run"
  BY DEF AssignResult, InPhase
<1>3. /\ mem' = Copy(mem, rsp, to, Size(t)) /\ rsp' = rsp + Slot(act.fn)
      /\ EndCall(a) /\ rbp' = rbp
      /\ r15' = r15 /\ calls' = calls /\ reads' = reads /\ plain' = plain
      /\ status' = "run"
  BY <1>2 DEF AssignResult, counts
<1>. HIDE DEF N
<1>4. /\ N \in 1 .. Len(acts) /\ Len(acts) > 1 /\ caller = acts[N] /\ N >= 1
      /\ caller \in ActRecord /\ LocalsOK(caller)
      /\ IF N = 1 THEN MainOK(caller) ELSE CalledOK(caller)
      /\ CalledOK(act) /\ WaitsFor(caller, act)
  BY <1>2, CallerFacts DEF N
<1>5. /\ InBody(caller) /\ caller.phase = "body" /\ caller.fn \in Framed
      /\ act.fn \in Fun /\ t \in Type
  <2>1. caller.phase = "body" /\ caller.fn \in Framed
    BY <1>2, <1>4 DEF WaitsFor
  <2>2. act.fn \in Fun /\ t # "void"
    BY <1>2, <1>4 DEF CalledOK
  <2>. QED
    BY <2>1, <2>2, SlotFacts DEF InBody
<1>6. /\ a \in ActRecord /\ a.phase = caller.phase /\ a.id = caller.id
      /\ a.fn = caller.fn /\ a.base = caller.base /\ a.ctx = caller.ctx
      /\ a.next = caller.next /\ a.offset = caller.offset
      /\ a.args = caller.args /\ a.result = caller.result
      /\ a.drift = caller.drift /\ a.frame = caller.frame
      /\ a.locals = WithLocal(caller.locals, t, act.result)
  <2>1. caller.locals \in LocalSets /\ act.result \in Values
    BY <1>1, <1>4 DEF ActRecord
  <2>2. WithLocal(caller.locals, t, act.result) \in LocalSets
    BY <1>5, <2>1, WithLocalTyped
  <2>3. a = [caller EXCEPT !.locals = WithLocal(caller.locals, t, act.result)]
    BY <1>4 DEF WithLocal, ActRecord
  <2>. HIDE DEF a
  <2>. QED
    BY <1>4, <2>2, <2>3 DEF ActRecord
<1>. HIDE DEF t, to, a
<1>7. /\ Same(acts, N, a) /\ LocalsOK(a) /\ InBody(a)
      /\ IF N = 1 THEN MainOK(a) ELSE CalledOK(a)
  <2>1. Same(acts, N, a) /\ LocalsOK(a) /\ InBody(a)
    BY <1>4, <1>5, <1>6 DEF Same, LocalsOK, InBody
  <2>2. CASE N = 1
    BY <1>4, <1>5, <1>6, <2>1, <2>2 DEF MainOK
  <2>3. CASE N # 1
    BY <1>4, <1>5, <1>6, <2>1, <2>3 DEF CalledOK
  <2>. QED
    BY <2>1, <2>2, <2>3
<1>8. /\ rsp <= act.base /\ act.base \in Int /\ Ceiling(act) \in Int
      /\ Ceiling(act) = act.base + Slot(act.fn)
      /\ Floor(caller) \in Int /\ Ceiling(act) <= Floor(caller)
      /\ N > 1 => r15 <= caller.base
      /\ rbp = caller.frame
      /\ N > 1 => Saved(caller, mem)
  BY <1>2, <1>5, CallerFacts DEF N
<1>9. \A k \in 1 .. N - 1 : Outer(acts, k, N) =>
        Holds(mem, caller.frame, Address(acts[k].frame), 8)
  BY <1>2, <1>5, CallerFacts DEF N
<1>10. /\ Slot(act.fn) \in Nat /\ Size(t) \in Nat /\ Size(t) <= Slot(act.fn)
  BY <1>5, SlotFacts DEF t
<1>11. After(acts, acts', N, a)
  BY <1>1, <1>3, <1>4, <1>6, EndCallAfter DEF N
<1>12. /\ caller.frame \in Int /\ Frame(caller.fn) \in Nat
       /\ Floor(caller) = caller.frame - Frame(caller.fn)
       /\ LocalAt(t) \in Int /\ to = caller.frame + LocalAt(t) /\ to \in Int
       /\ to + Size(t) <= caller.frame
  <2>1. caller.frame \in Int /\ Frame(caller.fn) \in Nat
    BY <1>4, FrameFacts DEF ActRecord
  <2>2. Floor(caller) = caller.frame - Frame(caller.fn)
    BY <1>5 DEF Floor
  <2>3. LocalAt(t) \in Int /\ Size(t) \in Nat /\ LocalAt(t) + Size(t) <= 0
    BY <1>5, LocalPlaces
  <2>4. to = caller.frame + LocalAt(t)
    BY <1>8 DEF to
  <2>. QED
    BY <2>1, <2>2, <2>3, <2>4
<1>13. Quiet(mem, mem', caller.frame)
  BY <1>1, <1>3, <1>10, <1>12, CopyByte, SMTT(30) DEF Quiet
<1>14. Current(a, mem', rsp')
  <2>1. Floor(a) = Floor(caller)
    BY <1>5, <1>6, <1>7 DEF Floor
  <2>2. rsp' <= Floor(a)
    BY <1>1, <1>3, <1>8, <1>10, <2>1
  <2>. QED
    BY <1>5, <1>6, <2>2 DEF Current
<1>15. ASSUME N > 1
       PROVE  /\ Saved(a, mem') /\ r15' <= a.base
              /\ Quiet(mem, mem', Ceiling(acts[N]))
  <2>1. Saved(caller, mem')
    BY <1>4, <1>8, <1>13, <1>15, SavedKept
  <2>2. Saved(a, mem')
    BY <1>6, <2>1 DEF Saved
  <2>3. caller.frame <= Ceiling(caller) /\ Ceiling(caller) \in Int
    <3>1. CalledOK(caller) /\ caller.base \in Int
      BY <1>4, <1>15 DEF ActRecord
    <3>2. caller.frame + 24 + ArgsSize(caller.fn) <= caller.base
      BY <1>8, <1>15 DEF Saved
    <3>3. ArgsSize(caller.fn) \in Nat
      <4>1. caller.fn \in Fun
        BY <3>1 DEF CalledOK
      <4>2. Len(Args[caller.fn]) + 1 \in 1 .. Len(Args[caller.fn]) + 1
        BY <4>1, SlotFacts
      <4>. QED
        BY <4>1, <4>2, BeforeFacts
    <3>4. caller.base <= Ceiling(caller) /\ Ceiling(caller) \in Int
      BY <1>4, <3>1, FloorFacts
    <3>. QED
      BY <1>12, <3>1, <3>2, <3>3, <3>4
  <2>4. Quiet(mem, mem', Ceiling(acts[N]))
    BY <1>4, <1>12, <1>13, <2>3 DEF Quiet
  <2>. QED
    BY <1>3, <1>6, <1>8, <1>15, <2>2, <2>4
<1>16. ASSUME NEW k \in 1 .. N - 1, Outer(acts, k, N)
       PROVE  Holds(mem', a.frame, Address(acts[k].frame), 8)
  <2>1. Holds(mem, caller.frame, Address(acts[k].frame), 8)
    BY <1>9, <1>16
  <2>2. \A x \in Int : caller.frame <= x /\ x < caller.frame + 8
          => Byte(mem', x) = Byte(mem, x)
    BY <1>12, <1>13 DEF Quiet
  <2>. QED
    BY <1>6, <1>12, <2>1, <2>2, HoldsSame
<1>17. ReturnsUnique(acts', mem', calls)
  <2>1. \A k \in 0 .. Size(t) - 1 : \A l \in 2 .. N :
          InBody(acts[l]) => rsp + k < acts[l].frame + 8
    <3>1. SUFFICES ASSUME NEW k \in 0 .. Size(t) - 1, NEW l \in 2 .. N,
                          InBody(acts[l])
                   PROVE  rsp + k < acts[l].frame + 8
      OBVIOUS
    <3>2. l \in 1 .. Len(acts) - 1
      BY <1>1, <1>4 DEF N
    <3>3. acts[l].frame \in Int /\ Ceiling(act) <= acts[l].frame
      BY <1>1, <3>1, <3>2, WaitingAbove
    <3>4. k \in Int /\ k < Size(t)
      BY <1>10
    <3>5. rsp + k < Ceiling(act)
      BY <1>1, <1>8, <1>10, <3>4
    <3>. QED
      BY <1>1, <1>8, <3>3, <3>4, <3>5
  <2>2. NoNewReturn(acts, mem, mem', N)
    BY <1>1, <1>3, <1>10, <1>12, <2>1, CopyNoReturn
  <2>3. InBody(a) /\ InBody(acts[N]) /\ a.frame = acts[N].frame
    BY <1>4, <1>5, <1>6, <1>7
  <2>. QED
    BY <1>1, <1>4, <1>7, <1>11, <2>2, <2>3, ReturnsKept
<1>18. ASSUME plain
       PROVE  /\ N > 1 => RegularCall(a, mem')
              /\ LocalsHold(a, mem') /\ CurrentExact(a, mem', rsp', r15')
  <2>1. /\ N > 1 => RegularCall(caller, mem)
        /\ LocalsHold(caller, mem) /\ rsp = act.base /\ ResultAt(act, mem)
        /\ Ceiling(act) = Floor(caller) - caller.drift
    BY <1>2, <1>5, <1>18, CallerFacts DEF N
  <2>2. ASSUME N > 1 PROVE RegularCall(a, mem')
    <3>1. RegularCall(caller, mem')
      BY <1>4, <1>5, <1>13, <2>1, <2>2, RegularKept
    <3>. QED
      BY <1>6, <1>7, <3>1
        DEF RegularCall, ArgumentsFrom, Place, InBody
  <2>3. LocalsHold(a, mem')
    <3>1. Holds(mem', caller.frame + LocalAt(t), act.result, Size(t))
      <4>1. Holds(mem, rsp, act.result, Size(t))
        BY <2>1 DEF ResultAt, t
      <4>. QED
        BY <1>1, <1>3, <1>10, <1>12, <4>1, HoldsCopied
    <3>2. OnlyLocal(caller, t, mem, mem')
      <4>1. \A x \in Int : ~(to <= x /\ x < to + Size(t))
              => Byte(mem', x) = Byte(mem, x)
        <5>1. rsp \in Int /\ to \in Int /\ Size(t) \in Nat
          BY <1>1, <1>10, <1>12
        <5>2. mem' = Copy(mem, rsp, to, Size(t))
          BY <1>3
        <5>. QED
          BY <5>1, <5>2, CopyByte
      <4>2. to = caller.frame + LocalAt(t)
        BY <1>12
      <4>. QED
        BY <4>1, <4>2 DEF OnlyLocal
    <3>3. a.frame = caller.frame /\ a.locals = WithLocal(caller.locals, t, act.result)
      BY <1>6
    <3>4. caller \in ActRecord /\ caller.fn \in Framed /\ t \in Type
      BY <1>4, <1>5
    <3>5. LocalsHold(caller, mem)
      BY <2>1
    <3>. QED
      BY <3>1, <3>2, <3>3, <3>4, <3>5, LocalWritten
  <2>4. rsp' = Floor(a) - a.drift
    <3>1. Floor(a) = Floor(caller)
      BY <1>5, <1>6, <1>7 DEF Floor
    <3>. QED
      BY <1>3, <1>6, <1>8, <2>1, <3>1
  <2>5. CurrentExact(a, mem', rsp', r15')
    BY <1>5, <1>6, <2>4 DEF CurrentExact
  <2>. QED
    BY <2>2, <2>3, <2>5
<1>19. reads' \in 0 .. MaxReads /\ plain' \in BOOLEAN
  BY <1>3 DEF IInv, Typed
<1>20. /\ rsp' \in Int /\ DOMAIN mem' \subseteq Int /\ rbp' = a.frame
  <2>1. DOMAIN mem' \subseteq Int
    BY <1>1, <1>3, <1>10, <1>12, DomainFacts
  <2>2. rsp' \in Int
    BY <1>1, <1>3, <1>10
  <2>. QED
    BY <1>3, <1>6, <1>8, <2>1, <2>2
<1>. QED
  BY <1>1, <1>3, <1>4, <1>7, <1>11, <1>14, <1>15, <1>16, <1>17, <1>18,
     <1>19, <1>20, StepKept

(* scanf is called below rsp; the local it sets is in the frame.           *)
LEMMA ReadKept ==
  ASSUME IInv, NEW t \in Prim, Read(t)
  PROVE  IInv'
<1>. DEFINE L == Len(acts)
            v == <<"read", reads>>
            low == Aligned(rsp) - 16
            to == rbp + LocalAt(t)
            written == Write(mem, low, Address(rsp), 8)
            pushed == Above(written, low)
            a == [act EXCEPT !.drift = @ + (rsp - low),
                    !.locals = [u \in DOMAIN @ \cup {t} |->
                                  IF u = t THEN v ELSE @[u]]]
<1>1. /\ calls \in Nat /\ ActsOK(acts, calls)
      /\ L \in Nat /\ L \in 1 .. L /\ act = acts[L]
      /\ act \in ActRecord /\ LocalsOK(act)
      /\ rsp \in Int /\ rbp \in Int /\ r15 \in Int /\ DOMAIN mem \subseteq Int
      /\ Nested(acts) /\ FramesLinked(acts, mem)
      /\ Current(act, mem, rsp) /\ ReturnsUnique(acts, mem, calls)
  BY TopFacts DEF L
<1>2. /\ act.phase = "body" /\ InBody(act) /\ status = "run"
      /\ act.fn \in Framed /\ reads < MaxReads /\ rbp = act.frame
  BY TopFacts DEF Read, InPhase, InBody
<1>3. /\ L > 1 => CalledOK(act) /\ r15 <= act.base /\ Saved(act, mem)
      /\ L = 1 => MainOK(act)
  BY <1>2, TopFacts DEF L
<1>4. /\ rsp' = low /\ mem' = Write(pushed, to, v, Size(t)) /\ SetAct(a)
      /\ reads' = reads + 1 /\ rbp' = rbp /\ r15' = r15
      /\ calls' = calls /\ plain' = plain /\ status' = "run"
  BY <1>2 DEF Read
<1>5. /\ t \in Type /\ Size(t) \in Nat /\ LocalAt(t) \in Int /\ low \in Int
      /\ low <= rsp - 16 /\ act.frame \in Int /\ Frame(act.fn) \in Nat
      /\ v \in Values /\ reads \in Nat
  <2>1. t \in Type
    BY DEF Type
  <2>2. Size(t) \in Nat /\ LocalAt(t) \in Int
    BY <1>2, <2>1, LocalPlaces
  <2>3. (rsp + 8) % 16 \in 0 .. 15
    BY <1>1
  <2>4. low \in Int /\ low <= rsp - 16
    BY <1>1, <2>3 DEF Aligned
  <2>5. reads \in Nat
    BY DEF IInv, Typed
  <2>6. v \in Values
    BY <2>5 DEF Values
  <2>. QED
    BY <1>1, <2>1, <2>2, <2>4, <2>5, <2>6, FrameFacts DEF ActRecord
<1>6. /\ a \in ActRecord /\ a.phase = act.phase /\ a.id = act.id
      /\ a.fn = act.fn /\ a.base = act.base /\ a.ctx = act.ctx
      /\ a.next = act.next /\ a.offset = act.offset
      /\ a.args = act.args /\ a.result = act.result
      /\ a.drift = act.drift + (rsp - low) /\ a.frame = act.frame
      /\ a.locals = WithLocal(act.locals, t, v) /\ act.drift \in Int
  <2>1. act.locals \in LocalSets /\ act.drift \in Int
    BY <1>1 DEF ActRecord
  <2>. HIDE DEF v, low
  <2>2. WithLocal(act.locals, t, v) \in LocalSets
    BY <1>5, <2>1, WithLocalTyped
  <2>3. act.drift + (rsp - low) \in Int
    BY <1>1, <1>5, <2>1
  <2>4. a = [act EXCEPT !.drift = act.drift + (rsp - low),
                        !.locals = WithLocal(act.locals, t, v)]
    BY <1>1 DEF WithLocal, ActRecord
  <2>. HIDE DEF a
  <2>. QED
    BY <1>1, <2>1, <2>2, <2>3, <2>4 DEF ActRecord
<1>. HIDE DEF L, v, low, to, written, pushed, a
<1>7. /\ Same(acts, L, a) /\ LocalsOK(a) /\ InBody(a)
      /\ IF L = 1 THEN MainOK(a) ELSE CalledOK(a)
  <2>1. Same(acts, L, a) /\ LocalsOK(a) /\ InBody(a)
    BY <1>1, <1>2, <1>6 DEF Same, LocalsOK, InBody
  <2>2. ASSUME L = 1 PROVE MainOK(a)
    BY <1>2, <1>3, <1>6, <2>2 DEF MainOK
  <2>3. ASSUME L # 1 PROVE CalledOK(a)
    <3>1. CalledOK(act)
      BY <1>1, <1>3, <2>3
    <3>. QED
      BY <1>2, <1>6, <3>1 DEF CalledOK
  <2>. QED
    BY <2>1, <2>2, <2>3
<1>8. After(acts, acts', L, a)
  BY <1>1, <1>4, <1>6, SetActAfter DEF L
<1>9. /\ Floor(act) = act.frame - Frame(act.fn) /\ Floor(a) = Floor(act)
      /\ rsp <= Floor(act) /\ to = act.frame + LocalAt(t) /\ to \in Int
      /\ Floor(act) <= to /\ to + Size(t) <= act.frame /\ Floor(act) \in Int
  <2>1. Floor(act) = act.frame - Frame(act.fn) /\ Floor(a) = Floor(act)
    BY <1>2, <1>6, <1>7 DEF Floor
  <2>2. rsp <= Floor(act)
    BY <1>1, <1>2 DEF Current
  <2>3. to = act.frame + LocalAt(t)
    BY <1>2 DEF to
  <2>4. -Frame(act.fn) <= LocalAt(t) /\ LocalAt(t) + Size(t) <= 0
    BY <1>2, <1>5, LocalPlaces
  <2>. QED
    BY <1>5, <2>1, <2>2, <2>3, <2>4
<1>10. \A x \in Int : x >= rsp =>
         Byte(mem', x) = IF to <= x /\ x < to + Size(t) THEN <<v, x - to>>
                         ELSE Byte(mem, x)
  <2>1. SUFFICES ASSUME NEW x \in Int, x >= rsp
        PROVE Byte(mem', x) = IF to <= x /\ x < to + Size(t) THEN <<v, x - to>>
                              ELSE Byte(mem, x)
    OBVIOUS
  <2>2. Byte(mem', x) = IF to <= x /\ x < to + Size(t) THEN <<v, x - to>>
                        ELSE Byte(pushed, x)
    BY <1>4, <1>5, <1>9, WriteByte
  <2>3. Byte(pushed, x) = Byte(written, x)
    <3>1. x >= low
      BY <1>1, <1>5, <2>1
    <3>. QED
      BY <1>5, <3>1, AboveByte DEF pushed
  <2>4. Byte(written, x) = Byte(mem, x)
    <3>1. ~(x < low + 8)
      BY <1>1, <1>5, <2>1
    <3>. QED
      BY <1>5, <3>1, WriteByte DEF written
  <2>. QED
    BY <2>2, <2>3, <2>4
<1>11. Quiet(mem, mem', act.frame)
  <2>1. rsp <= act.frame
    BY <1>1, <1>5, <1>9
  <2>. QED
    BY <1>1, <1>5, <1>9, <1>10, <2>1 DEF Quiet
<1>12. Current(a, mem', rsp')
  <2>1. rsp' <= Floor(a)
    BY <1>1, <1>4, <1>5, <1>9
  <2>. QED
    BY <1>2, <1>6, <2>1 DEF Current
<1>13. ASSUME L > 1
       PROVE  /\ Saved(a, mem') /\ r15' <= a.base
              /\ Quiet(mem, mem', Ceiling(acts[L]))
  <2>1. Saved(act, mem')
    BY <1>1, <1>3, <1>11, <1>13, SavedKept
  <2>2. Saved(a, mem')
    BY <1>6, <2>1 DEF Saved
  <2>3. act.frame <= Ceiling(act) /\ Ceiling(act) \in Int
    <3>1. CalledOK(act) /\ act.base \in Int
      BY <1>1, <1>3, <1>13 DEF ActRecord
    <3>2. act.frame + 24 + ArgsSize(act.fn) <= act.base
      BY <1>3, <1>13 DEF Saved
    <3>3. ArgsSize(act.fn) \in Nat
      <4>1. act.fn \in Fun
        BY <3>1 DEF CalledOK
      <4>2. Len(Args[act.fn]) + 1 \in 1 .. Len(Args[act.fn]) + 1
        BY <4>1, SlotFacts
      <4>. QED
        BY <4>1, <4>2, BeforeFacts
    <3>4. act.base <= Ceiling(act) /\ Ceiling(act) \in Int
      BY <1>1, <3>1, FloorFacts
    <3>. QED
      BY <1>5, <3>1, <3>2, <3>3, <3>4
  <2>4. Quiet(mem, mem', Ceiling(acts[L]))
    BY <1>1, <1>5, <1>11, <2>3 DEF Quiet
  <2>. QED
    BY <1>3, <1>4, <1>6, <1>13, <2>2, <2>4
<1>14. ASSUME NEW k \in 1 .. L - 1, Outer(acts, k, L)
       PROVE  Holds(mem', a.frame, Address(acts[k].frame), 8)
  <2>1. Holds(mem, act.frame, Address(acts[k].frame), 8)
    <3>1. L \in 2 .. Len(acts)
      BY <1>1 DEF L
    <3>. QED
      BY <1>1, <1>2, <1>14, <3>1 DEF FramesLinked
  <2>2. \A x \in Int : act.frame <= x /\ x < act.frame + 8
          => Byte(mem', x) = Byte(mem, x)
    BY <1>5, <1>11 DEF Quiet
  <2>. QED
    BY <1>5, <1>6, <2>1, <2>2, HoldsSame
<1>15. ReturnsUnique(acts', mem', calls)
  <2>1. NoNewReturn(acts, mem, written, L)
    BY <1>5, ValuesAreNot, WriteNoReturn DEF written
  <2>2. NoNewReturn(acts, written, pushed, L)
    BY <1>5, AboveNoReturn DEF pushed
  <2>3. NoNewReturn(acts, pushed, mem', L)
    BY <1>4, <1>5, <1>9, ValuesAreNot, WriteNoReturn
  <2>4. NoNewReturn(acts, mem, mem', L)
    BY <2>1, <2>2, <2>3, NoNewTrans
  <2>5. InBody(a) /\ InBody(acts[L]) /\ a.frame = acts[L].frame
    BY <1>1, <1>2, <1>6, <1>7
  <2>. QED
    BY <1>1, <1>7, <1>8, <2>4, <2>5, ReturnsKept DEF L
<1>16. ASSUME plain
       PROVE  /\ L > 1 => RegularCall(a, mem')
              /\ LocalsHold(a, mem') /\ CurrentExact(a, mem', rsp', r15')
  <2>1. /\ L > 1 => RegularCall(act, mem)
        /\ LocalsHold(act, mem) /\ CurrentExact(act, mem, rsp, r15)
    BY <1>1, <1>2, <1>16 DEF IInv, Exact, ExactOK, L
  <2>2. ASSUME L > 1 PROVE RegularCall(a, mem')
    <3>1. RegularCall(act, mem')
      BY <1>1, <1>2, <1>3, <1>11, <2>1, <2>2, RegularKept
    <3>. QED
      BY <1>2, <1>6, <1>7, <3>1
        DEF RegularCall, ArgumentsFrom, Place, InBody
  <2>3. LocalsHold(a, mem')
    <3>1. Holds(mem', act.frame + LocalAt(t), v, Size(t))
      BY <1>4, <1>5, <1>9, HoldsWritten
    <3>2. OnlyLocal(act, t, mem, mem')
      <4>1. \A x \in Int : act.frame - Frame(act.fn) <= x => x >= rsp
        BY <1>1, <1>5, <1>9
      <4>2. \A x \in Int : x >= rsp /\ ~(to <= x /\ x < to + Size(t))
              => Byte(mem', x) = Byte(mem, x)
        BY <1>10
      <4>3. to = act.frame + LocalAt(t)
        BY <1>9
      <4>. QED
        BY <4>1, <4>2, <4>3 DEF OnlyLocal
    <3>3. a.frame = act.frame /\ a.locals = WithLocal(act.locals, t, v)
      BY <1>6
    <3>4. act \in ActRecord /\ act.fn \in Framed /\ t \in Type
      BY <1>1, <1>2, <1>5
    <3>5. LocalsHold(act, mem)
      BY <2>1
    <3>. QED
      BY <3>1, <3>2, <3>3, <3>4, <3>5, LocalWritten
  <2>4. rsp' = Floor(a) - a.drift
    <3>1. rsp = Floor(act) - act.drift
      BY <1>2, <2>1 DEF CurrentExact
    <3>. QED
      BY <1>1, <1>4, <1>5, <1>6, <1>9, <3>1
  <2>5. CurrentExact(a, mem', rsp', r15')
    BY <1>2, <1>6, <2>4 DEF CurrentExact
  <2>. QED
    BY <2>2, <2>3, <2>5
<1>17. reads' \in 0 .. MaxReads /\ plain' \in BOOLEAN
  BY <1>2, <1>4, <1>5, ProgramAssumption DEF IInv, Typed
<1>18. /\ rsp' \in Int /\ DOMAIN mem' \subseteq Int /\ rbp' = a.frame
  <2>1. DOMAIN written \subseteq Int
    BY <1>1, <1>5, DomainFacts DEF written
  <2>2. DOMAIN pushed \subseteq Int
    BY <1>5, <2>1, DomainFacts DEF pushed
  <2>3. DOMAIN mem' \subseteq Int
    BY <1>4, <1>5, <1>9, <2>2, DomainFacts
  <2>. QED
    BY <1>2, <1>4, <1>5, <1>6, <2>3
<1>. QED
  BY <1>1, <1>4, <1>7, <1>8, <1>12, <1>13, <1>14, <1>15, <1>16,
     <1>17, <1>18, StepKept DEF L

(* The activation that a call begins.                                      *)
LEMMA NewActivation ==
  ASSUME NEW c \in Nat, NEW f \in Fun, NEW ctx \in Contexts, NEW s \in Int,
         NEW b, b = Activation(c, f, ctx, s)
  PROVE  /\ b \in ActRecord /\ b.id = c /\ b.fn = f /\ b.ctx = ctx
         /\ b.phase = "args" /\ ~InBody(b) /\ b.base = s
         /\ b.next = Len(Args[f]) /\ b.offset = 0 /\ LocalsOK(b)
         /\ (ctx = "assign" => Ret[f] # "void") => CalledOK(b)
         /\ Floor(b) = s /\ Ceiling(b) = s + Slot(f)
<1>1. Len(Args[f]) \in Nat /\ f \in Fun \cup {main}
  BY SlotFacts
<1>2. NoLocals \in LocalSets /\ DOMAIN NoLocals = {}
  <2>1. NoLocals \in [{} -> Values] /\ DOMAIN NoLocals = {}
    BY DEF NoLocals
  <2>2. {} \in SUBSET Type
    OBVIOUS
  <2>. QED
    BY <2>1, <2>2 DEF LocalSets
<1>3. [i \in 1 .. Len(Args[f]) |-> Arg(c, i)] \in ArgLists
  <2>1. [i \in 1 .. Len(Args[f]) |-> Arg(c, i)] \in [1 .. Len(Args[f]) -> Values]
    BY <1>1 DEF Values
  <2>. QED
    BY <1>1, <2>1 DEF ArgLists
<1>4. Result(c) \in Values
  BY DEF Values
<1>5. /\ b.id = c /\ b.fn = f /\ b.ctx = ctx
      /\ b.phase = "args" /\ b.base = s /\ b.next = Len(Args[f])
      /\ b.offset = 0 /\ b.drift = 0 /\ b.result = Result(c)
      /\ b.locals = NoLocals /\ b.args = [i \in 1 .. Len(Args[f]) |-> Arg(c, i)]
  BY DEF Activation
<1>6. b \in ActRecord
  <2>. DEFINE A == [i \in 1 .. Len(Args[f]) |-> Arg(c, i)]
  <2>1. A \in ArgLists
    BY <1>3
  <2>2. b = [id |-> c, fn |-> f, ctx |-> ctx, phase |-> "args",
             next |-> Len(Args[f]), offset |-> 0, base |-> s, frame |-> 0,
             drift |-> 0, args |-> A, result |-> Result(c), locals |-> NoLocals]
    BY DEF Activation
  <2>. HIDE DEF A
  <2>. QED
    BY <1>1, <1>2, <1>4, <2>1, <2>2 DEF ActRecord, Phases
<1>7. ~InBody(b) /\ LocalsOK(b)
  BY <1>2, <1>5 DEF InBody, LocalsOK
<1>8. ASSUME ctx = "assign" => Ret[f] # "void" PROVE CalledOK(b)
  <2>1. DOMAIN b.args = 1 .. Len(Args[f])
    BY <1>5
  <2>2. b.next \in 0 .. Len(Args[f]) /\ b.offset <= 7 * (Len(Args[f]) - b.next)
    BY <1>1, <1>5
  <2>. QED
    BY <1>2, <1>5, <1>8, <2>1, <2>2 DEF CalledOK
<1>9. Floor(b) = s /\ Ceiling(b) = s + Slot(f)
  <2>1. Len(Args[f]) + 1 \in 1 .. Len(Args[f]) + 1
    BY <1>1
  <2>2. ArgsSize(f) = SizesBefore(Args[f], Len(Args[f]) + 1) /\ ArgsSize(f) \in Nat
    BY <2>1, BeforeFacts
  <2>3. Place(b, b.next + 1) = (s - ArgsSize(f)) + ArgsSize(f)
    BY <1>5, <2>2 DEF Place
  <2>4. Floor(b) = Place(b, b.next + 1) - 0
    BY <1>5, <1>7 DEF Floor
  <2>. QED
    BY <1>5, <2>2, <2>3, <2>4 DEF Ceiling
<1>. QED
  BY <1>5, <1>6, <1>7, <1>8, <1>9

(* A new call opens below what its caller has on the stack.                *)
LEMMA BeginCallKept ==
  ASSUME IInv, NEW f \in Fun, NEW ctx \in Contexts, BeginCall(f, ctx)
  PROVE  IInv'
<1>. DEFINE L == Len(acts)
            s == rsp - Slot(f)
            b == Activation(calls + 1, f, ctx, s)
<1>1. /\ calls \in Nat /\ ActsOK(acts, calls)
      /\ L \in Nat /\ L \in 1 .. L /\ act = acts[L]
      /\ act \in ActRecord /\ LocalsOK(act)
      /\ rsp \in Int /\ rbp \in Int /\ r15 \in Int /\ DOMAIN mem \subseteq Int
      /\ Nested(acts) /\ FramesLinked(acts, mem)
      /\ Current(act, mem, rsp) /\ ReturnsUnique(acts, mem, calls)
  BY TopFacts DEF L
<1>2. L > 1 => CalledOK(act) /\ (InBody(act) => Saved(act, mem))
  BY TopFacts DEF L
<1>3. /\ status = "run" /\ calls < MaxCalls /\ Calls(f, ctx)
      /\ rsp' = s /\ r15' = s /\ rbp' = rbp /\ mem' = mem
      /\ calls' = calls + 1 /\ plain' = (plain /\ ~Irregular(f, ctx))
      /\ acts' = Append(acts, b) /\ reads' = reads /\ status' = "run"
  BY DEF BeginCall
<1>4. /\ act.phase \in {"body", "args"}
      /\ ctx = "argument" <=> act.phase = "args"
      /\ act.phase = "args" => /\ act.next > 0
                               /\ Args[act.fn][act.next] \in Prim
                               /\ Ret[f] \in Prim
      /\ ctx = "assign" => act.fn \in Framed /\ Ret[f] # "void"
  BY <1>3 DEF Calls
<1>5. Slot(f) \in Nat /\ s \in Int /\ s + Slot(f) = rsp
  BY <1>1, SlotFacts
<1>6. calls + 1 \in Nat /\ calls + 1 \in 0 .. MaxCalls
  BY <1>1, <1>3, ProgramAssumption
<1>7. /\ b \in ActRecord /\ b.id = calls + 1 /\ b.fn = f /\ b.ctx = ctx
      /\ b.phase = "args" /\ ~InBody(b) /\ b.base = s
      /\ b.next = Len(Args[f]) /\ b.offset = 0 /\ LocalsOK(b) /\ CalledOK(b)
      /\ Floor(b) = s /\ Ceiling(b) = rsp
  <2>1. s \in Int /\ calls + 1 \in Nat
    BY <1>5, <1>6
  <2>. HIDE DEF b, s
  <2>2. b = Activation(calls + 1, f, ctx, s)
    BY DEF b
  <2>3. /\ b \in ActRecord /\ b.id = calls + 1 /\ b.fn = f /\ b.ctx = ctx
        /\ b.phase = "args" /\ ~InBody(b) /\ b.base = s
        /\ b.next = Len(Args[f]) /\ b.offset = 0 /\ LocalsOK(b)
        /\ (ctx = "assign" => Ret[f] # "void") => CalledOK(b)
        /\ Floor(b) = s /\ Ceiling(b) = s + Slot(f)
    BY <2>1, <2>2, NewActivation
  <2>. QED
    BY <1>4, <1>5, <2>3
<1>. HIDE DEF L, s, b
<1>8. /\ acts' \in Seq(ActRecord) /\ Len(acts') = L + 1 /\ acts'[L + 1] = b
      /\ \A n \in 1 .. L : acts'[n] = acts[n]
  <2>1. acts \in Seq(ActRecord)
    BY <1>1 DEF ActsOK
  <2>. QED
    BY <1>3, <1>7, <2>1 DEF L
<1>9. WaitsFor(act, b)
  BY <1>4, <1>7 DEF WaitsFor
<1>10. ActsOK(acts', calls + 1)
  <2>1. Len(acts') \in 1 .. (calls + 1) + 1
    BY <1>1, <1>8 DEF ActsOK, L
  <2>2. MainOK(acts'[1])
    BY <1>1, <1>8 DEF ActsOK
  <2>3. ASSUME NEW n \in 2 .. L + 1
        PROVE  CalledOK(acts'[n]) /\ WaitsFor(acts'[n - 1], acts'[n])
    <3>1. CASE n = L + 1
      <4>1. n - 1 = L
        BY <1>1, <3>1
      <4>. QED
        BY <1>1, <1>7, <1>8, <1>9, <3>1, <4>1
    <3>2. CASE n # L + 1
      <4>1. n \in 2 .. L /\ n \in 1 .. L /\ n - 1 \in 1 .. L
        BY <1>1, <3>2
      <4>. QED
        BY <1>1, <1>8, <4>1 DEF ActsOK, L
    <3>. QED
      BY <3>1, <3>2
  <2>4. ASSUME NEW n \in 1 .. L + 1
        PROVE  LocalsOK(acts'[n]) /\ acts'[n].id <= calls + 1
    <3>1. CASE n = L + 1
      BY <1>1, <1>7, <1>8, <3>1
    <3>2. CASE n # L + 1
      <4>1. n \in 1 .. L
        BY <1>1, <3>2
      <4>2. LocalsOK(acts[n]) /\ acts[n].id <= calls /\ acts[n] \in ActRecord
        BY <1>1, <4>1, ActsFacts DEF L
      <4>3. acts[n].id \in Nat
        BY <4>2 DEF ActRecord
      <4>. QED
        BY <1>1, <1>8, <4>1, <4>2, <4>3
    <3>. QED
      BY <3>1, <3>2
  <2>. QED
    BY <1>8, <2>1, <2>2, <2>3, <2>4 DEF ActsOK
<1>11. Typed'
  BY <1>1, <1>3, <1>5, <1>6, <1>10 DEF IInv, Typed
<1>12. rsp <= Floor(act) /\ Floor(act) \in Int
  <2>1. rsp <= Floor(act)
    BY <1>1, <1>4 DEF Current
  <2>. QED
    BY <1>1, <1>2, <2>1, ActsFacts, FloorFacts DEF L
<1>13. ASSUME L > 1 PROVE rsp <= Ceiling(act) /\ Ceiling(act) \in Int
  <2>1. /\ CalledOK(act) /\ act.base \in Int /\ act.frame \in Int
        /\ act.fn \in Fun
    BY <1>1, <1>2, <1>13 DEF ActRecord, CalledOK
  <2>2. Ceiling(act) \in Int /\ act.base <= Ceiling(act)
    BY <1>1, <2>1, FloorFacts
  <2>3. CASE InBody(act)
    <3>1. act.frame + 24 + ArgsSize(act.fn) <= act.base
      BY <1>2, <1>13, <2>3 DEF Saved
    <3>2. ArgsSize(act.fn) \in Nat
      <4>1. Len(Args[act.fn]) + 1 \in 1 .. Len(Args[act.fn]) + 1
        BY <2>1, SlotFacts
      <4>. QED
        BY <2>1, <4>1, BeforeFacts
    <3>3. Floor(act) <= act.frame
      BY <1>1, <2>1, <2>3, FloorFacts
    <3>. QED
      BY <1>1, <1>12, <2>1, <2>2, <3>1, <3>2, <3>3
  <2>4. CASE ~InBody(act)
    <3>1. Floor(act) <= act.base
      BY <1>1, <2>1, <2>4, FloorFacts
    <3>. QED
      BY <1>1, <1>12, <2>1, <2>2, <3>1
  <2>. QED
    BY <2>3, <2>4
<1>14. ASSUME NEW k \in 1 .. L PROVE Under(acts[k], b)
  <2>1. acts[k].id < b.id
    <3>1. acts[k].id <= calls /\ acts[k] \in ActRecord
      BY <1>1, ActsFacts DEF L
    <3>2. acts[k].id \in Nat
      BY <3>1 DEF ActRecord
    <3>. QED
      BY <1>1, <1>7, <3>1, <3>2
  <2>2. rsp <= Floor(acts[k])
    <3>1. CASE k = L
      BY <1>1, <1>12, <3>1
    <3>2. CASE k # L
      <4>1. L > 1 /\ k \in 1 .. L - 1
        BY <1>1, <3>2
      <4>2. Ceiling(act) <= Floor(acts[k])
        BY <1>1, <4>1 DEF Nested, Under, L
      <4>3. Floor(acts[k]) \in Int
        <5>1. acts[k] \in ActRecord /\ (CalledOK(acts[k]) \/ MainOK(acts[k]))
          BY <1>1, ActsFacts DEF L
        <5>. QED
          BY <5>1, FloorFacts
      <4>. QED
        BY <1>1, <1>13, <4>1, <4>2, <4>3
    <3>. QED
      BY <3>1, <3>2
  <2>. QED
    BY <1>7, <2>1, <2>2 DEF Under
<1>15. Nested(acts')
  <2>1. SUFFICES ASSUME NEW n \in 1 .. L + 1, NEW k \in 1 .. n - 1
                 PROVE  Under(acts'[k], acts'[n])
    BY <1>8 DEF Nested
  <2>2. k \in 1 .. L /\ acts'[k] = acts[k]
    BY <1>1, <1>8
  <2>3. CASE n = L + 1
    BY <1>8, <1>14, <2>2, <2>3
  <2>4. CASE n # L + 1
    <3>1. n \in 1 .. L
      BY <1>1, <2>4
    <3>. QED
      BY <1>1, <1>8, <2>2, <3>1 DEF Nested, L
  <2>. QED
    BY <2>3, <2>4
<1>16. Current(acts'[Len(acts')], mem', rsp')
  BY <1>3, <1>5, <1>7, <1>8 DEF Current
<1>17. r15' <= acts'[Len(acts')].base
  BY <1>3, <1>5, <1>7, <1>8
<1>18. StackOK(acts, mem, rsp, rbp, r15, calls)
  BY DEF IInv, Stacked
<1>19. ASSUME NEW n \in 2 .. L + 1, InBody(acts'[n])
       PROVE  Saved(acts'[n], mem') /\ n \in 2 .. L /\ acts'[n] = acts[n]
  <2>1. n # L + 1
    BY <1>7, <1>8, <1>19
  <2>2. n \in 2 .. L /\ acts'[n] = acts[n]
    BY <1>1, <1>8, <2>1
  <2>. QED
    BY <1>3, <1>18, <1>19, <2>2 DEF StackOK, L
<1>20. FramesLinked(acts', mem')
  <2>1. SUFFICES ASSUME NEW n \in 2 .. L + 1, NEW k \in 1 .. n - 1,
                        InBody(acts'[n]), Outer(acts', k, n)
                 PROVE  Holds(mem', acts'[n].frame, Address(acts'[k].frame), 8)
    BY <1>8 DEF FramesLinked
  <2>2. n \in 2 .. L /\ acts'[n] = acts[n]
    BY <1>19, <2>1
  <2>3. /\ k \in 1 .. L /\ acts'[k] = acts[k]
        /\ \A j \in k + 1 .. n - 1 : acts'[j] = acts[j]
    BY <1>1, <1>8, <2>2
  <2>4. Outer(acts, k, n)
    BY <2>1, <2>3 DEF Outer
  <2>. QED
    BY <1>1, <1>3, <2>1, <2>2, <2>3, <2>4 DEF FramesLinked, L
<1>21. Framing(acts', rbp')
  <2>1. SUFFICES ASSUME NEW k \in 1 .. L + 1, Outer(acts', k, (L + 1) + 1)
                 PROVE  rbp' = acts'[k].frame
    BY <1>8 DEF Framing
  <2>2. k # L + 1
    BY <1>7, <1>8, <2>1 DEF Outer
  <2>3. /\ k \in 1 .. L /\ acts'[k] = acts[k]
        /\ \A j \in k + 1 .. (L + 1) - 1 :
             /\ j \in k + 1 .. ((L + 1) + 1) - 1 /\ acts'[j] = acts[j]
    BY <1>1, <1>8, <2>2
  <2>4. k \in 1 .. (L + 1) - 1
    BY <1>1, <2>3
  <2>5. Outer(acts, k, L + 1)
    BY <2>1, <2>3, <2>4 DEF Outer
  <2>. QED
    BY <1>3, <1>18, <2>3, <2>5 DEF StackOK, Framing, L
<1>22. ReturnsUnique(acts', mem', calls + 1)
  <2>1. SUFFICES ASSUME NEW x \in Int, NEW d \in 1 .. MaxCalls, NEW k \in 0 .. 7,
                        Byte(mem, x) = <<Return(d), k>>
                 PROVE  /\ d <= calls + 1
                        /\ \A n \in 2 .. L + 1 : acts'[n].id = d =>
                             \/ acts'[n].phase \in {"returned", "result"}
                             \/ InBody(acts'[n]) /\ x = acts'[n].frame + 8 + k
    BY <1>3, <1>8, SMTT(30) DEF ReturnsUnique
  <2>2. ReturnsUnique(acts, mem, calls)
    BY <1>1
  <2>3. /\ d <= calls
        /\ \A n \in 2 .. Len(acts) : acts[n].id = d =>
             \/ acts[n].phase \in {"returned", "result"}
             \/ InBody(acts[n]) /\ x = acts[n].frame + 8 + k
    BY <2>1, <2>2, ReturnsAt
  <2>4. ASSUME NEW n \in 2 .. L + 1, acts'[n].id = d
        PROVE  \/ acts'[n].phase \in {"returned", "result"}
               \/ InBody(acts'[n]) /\ x = acts'[n].frame + 8 + k
    <3>1. n # L + 1
      <4>1. d # calls + 1
        BY <1>1, <2>3
      <4>. QED
        BY <1>7, <1>8, <2>4, <4>1
    <3>2. n \in 2 .. Len(acts) /\ acts'[n] = acts[n]
      BY <1>1, <1>8, <3>1 DEF L
    <3>. QED
      BY <2>3, <2>4, <3>2
  <2>5. d <= calls + 1
    BY <1>1, <2>3
  <2>. QED
    BY <2>4, <2>5
<1>23. Stacked'
  BY <1>3, <1>8, <1>15, <1>16, <1>17, <1>19, <1>20, <1>21, <1>22
    DEF Stacked, StackOK
<1>24. ASSUME plain' PROVE Exact'
  <2>1. plain /\ ~Irregular(f, ctx)
    BY <1>3, <1>24
  <2>2. ctx # "argument" /\ RegularArgs(f) /\ act.phase = "body"
    BY <1>4, <2>1 DEF Irregular, RegularArgs
  <2>3. ExactOK(acts, mem, rsp, r15)
    BY <2>1 DEF IInv, Exact
  <2>4. rsp = Floor(act) - act.drift
    BY <1>1, <2>2, <2>3 DEF ExactOK, CurrentExact, L
  <2>5. ASSUME NEW n \in 2 .. L + 1
        PROVE  /\ RegularCall(acts'[n], mem')
               /\ Ceiling(acts'[n]) = Floor(acts'[n - 1]) - acts'[n - 1].drift
    <3>1. CASE n = L + 1
      <4>1. RegularCall(b, mem')
        BY <1>7, <2>2 DEF RegularCall
      <4>2. n - 1 = L /\ acts'[n - 1] = act
        BY <1>1, <1>8, <3>1
      <4>. QED
        BY <1>7, <1>8, <2>4, <3>1, <4>1, <4>2
    <3>2. CASE n # L + 1
      <4>1. n \in 2 .. L /\ acts'[n] = acts[n] /\ acts'[n - 1] = acts[n - 1]
        BY <1>1, <1>8, <3>2
      <4>. QED
        BY <1>3, <2>3, <4>1 DEF ExactOK, L
    <3>. QED
      BY <3>1, <3>2
  <2>6. ASSUME NEW n \in 1 .. L + 1, InBody(acts'[n])
        PROVE  LocalsHold(acts'[n], mem')
    <3>1. n # L + 1
      BY <1>7, <1>8, <2>6
    <3>2. n \in 1 .. L /\ acts'[n] = acts[n]
      BY <1>1, <1>8, <3>1
    <3>. QED
      BY <1>3, <2>3, <2>6, <3>2 DEF ExactOK, L
  <2>7. CurrentExact(acts'[L + 1], mem', rsp', r15')
    <3>1. ArgumentsFrom(b, mem', b.next + 1)
      <4>1. Len(Args[f]) \in Nat
        BY SlotFacts
      <4>2. b.next + 1 .. Len(Args[b.fn]) = {}
        BY <1>7, <4>1
      <4>. QED
        BY <4>2 DEF ArgumentsFrom
    <3>. QED
      BY <1>3, <1>7, <1>8, <3>1 DEF CurrentExact
  <2>. QED
    BY <1>3, <1>8, <2>5, <2>6, <2>7 DEF Exact, ExactOK
<1>. QED
  BY <1>11, <1>23, <1>24 DEF IInv

-----------------------------------------------------------------------------
(* The invariant holds from the start on. *)

(* The invariant holds as main starts.                                     *)
LEMMA InitInvariant == Init => IInv
<1>. SUFFICES ASSUME Init PROVE IInv
  OBVIOUS
<1>. DEFINE F == Frame(main)
<1>1. /\ mem = Write(<<>>, -8, Address(0), 8) /\ rbp = -8 /\ rsp = (-8) - F
      /\ r15 = 0 /\ acts = <<Main>> /\ calls = 0 /\ reads = 0 /\ plain = TRUE
      /\ status = "run" /\ F \in Nat
  BY FrameFacts DEF Init
<1>. HIDE DEF F
<1>2. /\ Main.id = 0 /\ Main.fn = main /\ Main.phase = "body"
      /\ Main.frame = -8 /\ Main.drift = 0 /\ Main.args = <<>>
      /\ Main.locals = NoLocals
  BY DEF Main
<1>3. DOMAIN NoLocals = {} /\ NoLocals \in LocalSets
  <2>1. NoLocals \in [{} -> Values] /\ DOMAIN NoLocals = {}
    BY DEF NoLocals
  <2>2. {} \in SUBSET Type
    OBVIOUS
  <2>. QED
    BY <2>1, <2>2 DEF LocalSets
<1>4. Main \in ActRecord
  <2>1. <<>> \in ArgLists
    <3>1. <<>> \in [1 .. 0 -> Values] /\ 0 \in Nat
      OBVIOUS
    <3>. QED
      BY <3>1 DEF ArgLists
  <2>2. Result(0) \in Values
    BY DEF Values
  <2>. QED
    BY <1>3, <2>1, <2>2 DEF Main, ActRecord, Phases, Contexts
<1>5. Len(acts) = 1 /\ acts[1] = Main /\ acts \in Seq(ActRecord)
  BY <1>1, <1>4
<1>6. MainOK(Main) /\ LocalsOK(Main) /\ InBody(Main) /\ Floor(Main) = (-8) - F
  BY <1>2, <1>3 DEF MainOK, LocalsOK, InBody, Floor, F
<1>7. ActsOK(acts, calls)
  BY <1>1, <1>2, <1>5, <1>6 DEF ActsOK
<1>8. Typed
  <2>1. DOMAIN mem \subseteq Int
    <3>1. DOMAIN <<>> \subseteq Int
      OBVIOUS
    <3>2. -8 \in Int /\ 8 \in Nat
      OBVIOUS
    <3>3. DOMAIN Write(<<>>, -8, Address(0), 8) \subseteq Int
      BY <3>1, <3>2, DomainFacts
    <3>. QED
      BY <1>1, <3>3
  <2>2. 0 \in 0 .. MaxCalls /\ 0 \in 0 .. MaxReads
    BY ProgramAssumption
  <2>. QED
    BY <1>1, <1>7, <2>1, <2>2 DEF Typed
<1>9. Current(Main, mem, rsp)
  BY <1>1, <1>2, <1>6 DEF Current
<1>10. Framing(acts, rbp)
  BY <1>1, <1>2, <1>5 DEF Framing, Outer
<1>11. ReturnsUnique(acts, mem, calls)
  <2>1. \A x \in Int, d \in 1 .. MaxCalls, k \in 0 .. 7 :
          Byte(mem, x) # <<Return(d), k>>
    <3>1. SUFFICES ASSUME NEW x \in Int, NEW d \in 1 .. MaxCalls, NEW k \in 0 .. 7
                   PROVE  Byte(mem, x) # <<Return(d), k>>
      OBVIOUS
    <3>2. Byte(mem, x) = IF -8 <= x /\ x < (-8) + 8
                         THEN <<Address(0), x - (-8)>> ELSE Byte(<<>>, x)
      BY <1>1, WriteByte
    <3>3. Byte(<<>>, x) = Unwritten
      BY DEF Byte
    <3>4. <<Address(0), x - (-8)>> # <<Return(d), k>>
      BY ValuesAreNot
    <3>5. Unwritten # <<Return(d), k>>
      BY ValuesAreNot DEF Unwritten
    <3>. QED
      BY <3>2, <3>3, <3>4, <3>5
  <2>. QED
    BY <2>1 DEF ReturnsUnique
<1>12. Stacked
  BY <1>1, <1>5, <1>9, <1>10, <1>11
    DEF Stacked, StackOK, Nested, FramesLinked
<1>13. Exact
  <2>1. LocalsHold(Main, mem)
    BY <1>2, <1>3 DEF LocalsHold
  <2>2. CurrentExact(Main, mem, rsp, r15)
    BY <1>1, <1>2, <1>6 DEF CurrentExact
  <2>. QED
    BY <1>1, <1>5, <2>1, <2>2 DEF Exact, ExactOK
<1>. QED
  BY <1>8, <1>12, <1>13 DEF IInv

(* Every step keeps the invariant, whatever the program.                   *)
LEMMA NextInvariant == IInv /\ [Next]_vars => IInv'
<1>. SUFFICES ASSUME IInv, [Next]_vars PROVE IInv'
  OBVIOUS
<1>1. ASSUME NEW f \in Fun, NEW ctx \in {"statement", "assign", "argument"},
             BeginCall(f, ctx)
      PROVE  IInv'
  BY <1>1, BeginCallKept DEF Contexts
<1>2. CASE EvalArgument
  BY <1>2, EvalArgumentKept
<1>3. CASE PlaceArgument
  BY <1>3, PlaceArgumentKept
<1>4. CASE Call
  BY <1>4, CallKept
<1>5. CASE ReturnValue
  BY <1>5, ReturnValueKept
<1>6. CASE FallOff
  BY <1>6, FallOffKept
<1>7. CASE ReturnVoid
  BY <1>7, ReturnVoidKept
<1>8. CASE PopRsp
  BY <1>8, PopRspKept
<1>9. CASE DiscardResult
  BY <1>9, DiscardResultKept
<1>10. CASE AssignResult
  BY <1>10, AssignResultKept
<1>11. CASE PassResult
  BY <1>11, PassResultKept
<1>12. ASSUME NEW t \in Prim, Read(t) PROVE IInv'
  BY <1>12, ReadKept
<1>13. CASE Exit
  BY <1>13, ExitKept
<1>14. CASE UNCHANGED vars
  BY <1>14 DEF vars, counts, IInv, Typed, Stacked, Exact
<1>. QED
  BY <1>1, <1>2, <1>3, <1>4, <1>5, <1>6, <1>7, <1>8, <1>9, <1>10, <1>11, <1>12,
     <1>13, <1>14 DEF Next

(* The inductive invariant: the types, the shape of the stack for every    *)
(* program and, unless a call was irregular, what is at which address.     *)
THEOREM Invariance == Spec => []IInv
<1>1. Init => IInv
  BY InitInvariant
<1>2. IInv /\ [Next]_vars => IInv'
  BY NextInvariant
<1>. QED
  BY <1>1, <1>2, PTL DEF Spec

-----------------------------------------------------------------------------
(* What follows from it. *)

(* Every activation, register and count is of its type.                    *)
THEOREM TypeCorrect == Spec => []TypeOK
<1>1. IInv => TypeOK
  <2>. SUFFICES ASSUME IInv PROVE TypeOK
    OBVIOUS
  <2>. DEFINE L == Len(acts)
  <2>1. /\ rsp \in Int /\ rbp \in Int /\ r15 \in Int /\ DOMAIN mem \subseteq Int
        /\ ActsOK(acts, calls) /\ calls \in 0 .. MaxCalls
        /\ reads \in 0 .. MaxReads /\ plain \in BOOLEAN
        /\ status \in {"run", "exit", "wild"} /\ calls \in Nat
    BY DEF IInv, Typed
  <2>2. L \in 1 .. MaxCalls + 1 /\ L \in Nat
    BY <2>1, ProgramAssumption DEF ActsOK
  <2>. HIDE DEF L
  <2>3. acts[1].fn = main
    BY <2>1 DEF ActsOK, MainOK
  <2>4. ASSUME NEW n \in 2 .. L
        PROVE  /\ acts[n].fn \in Fun /\ acts[n].phase \in Phases
               /\ acts[n].next \in 0 .. Len(Args[acts[n].fn])
               /\ acts[n].offset \in 0 .. 7 * Len(Args[acts[n].fn])
    <3>1. n \in 1 .. Len(acts) /\ n > 1
      BY <2>2 DEF L
    <3>2. CalledOK(acts[n]) /\ acts[n] \in ActRecord
      BY <2>1, <3>1, ActsFacts
    <3>3. /\ acts[n].fn \in Fun /\ acts[n].phase \in Phases
          /\ acts[n].next \in 0 .. Len(Args[acts[n].fn])
          /\ acts[n].offset \in Nat
          /\ acts[n].offset <= 7 * (Len(Args[acts[n].fn]) - acts[n].next)
      BY <3>2 DEF CalledOK, ActRecord
    <3>4. Len(Args[acts[n].fn]) \in Nat
      BY <3>3, SlotFacts
    <3>. QED
      BY <3>3, <3>4
  <2>5. ASSUME NEW n \in 1 .. L - 1 PROVE acts[n].phase \in {"body", "args"}
    <3>1. n + 1 \in 2 .. Len(acts) /\ (n + 1) - 1 = n
      BY <2>2 DEF L
    <3>2. WaitsFor(acts[n], acts[n + 1])
      BY <2>1, <3>1 DEF ActsOK
    <3>. QED
      BY <3>2 DEF WaitsFor
  <2>. QED
    BY <2>1, <2>2, <2>3, <2>4, <2>5 DEF TypeOK, L, Phases
<1>. QED
  BY <1>1, Invariance, PTL

(* For every program, regular or not, what a function pushes, its locals,  *)
(* its parameters and the place of its result stay clear of the locals of  *)
(* the functions that run or wait.                                         *)
THEOREM ClearOfLocals == Spec => []StackClearOfLocals
<1>1. IInv => StackClearOfLocals
  <2>. SUFFICES ASSUME IInv PROVE StackClearOfLocals
    OBVIOUS
  <2>1. ASSUME InPhase("body") PROVE rsp <= rbp - Frame(act.fn)
    <3>1. InBody(act) /\ act.phase = "body"
      BY <2>1 DEF InPhase, InBody
    <3>2. Current(act, mem, rsp) /\ rbp = act.frame
      BY <3>1, TopFacts
    <3>. QED
      BY <3>1, <3>2 DEF Current, Floor
  <2>2. FramesNested
    <3>1. SUFFICES ASSUME NEW n \in Entered, NEW m \in {1} \cup Entered, m < n
          PROVE  acts[n].frame + 24 + ArgsSize(acts[n].fn)
                   + Size(Ret[acts[n].fn])
                   <= acts[m].frame - Frame(acts[m].fn)
      BY DEF FramesNested
    <3>2. calls \in Nat /\ ActsOK(acts, calls) /\ Nested(acts) /\ Len(acts) \in Nat
      BY TopFacts
    <3>3. n \in 2 .. Len(acts) /\ InBody(acts[n])
      BY DEF Entered, InBody
    <3>4. m \in 1 .. n - 1 /\ InBody(acts[m]) /\ n \in 1 .. Len(acts) /\ n > 1
      <4>1. InBody(acts[1])
        BY <3>2 DEF ActsOK, MainOK, InBody
      <4>2. m \in 1 .. Len(acts) /\ InBody(acts[m])
        BY <3>2, <3>3, <4>1 DEF Entered, InBody
      <4>. QED
        BY <3>1, <3>2, <3>3, <4>2
    <3>5. acts[n] \in ActRecord /\ CalledOK(acts[n])
      BY <3>2, <3>4, ActsFacts
    <3>6. Saved(acts[n], mem)
      BY <3>3 DEF IInv, Stacked, StackOK
    <3>7. /\ Slot(acts[n].fn) \in Nat /\ Size(Ret[acts[n].fn]) \in Nat
          /\ Size(Ret[acts[n].fn]) <= Slot(acts[n].fn)
          /\ ArgsSize(acts[n].fn) \in Nat
      <4>1. acts[n].fn \in Fun
        BY <3>5 DEF CalledOK
      <4>2. Len(Args[acts[n].fn]) + 1 \in 1 .. Len(Args[acts[n].fn]) + 1
        BY <4>1, SlotFacts
      <4>. QED
        BY <4>1, <4>2, SlotFacts, BeforeFacts
    <3>8. /\ acts[m].frame - Frame(acts[m].fn) \in Int
          /\ Ceiling(acts[n]) <= acts[m].frame - Frame(acts[m].fn)
      <4>1. /\ acts[m].frame \in Int /\ Frame(acts[m].fn) \in Nat
            /\ Ceiling(acts[n]) <= acts[m].frame - Frame(acts[m].fn)
        BY <3>2, <3>4, WaitingAbove
      <4>. QED
        BY <4>1
    <3>9. /\ acts[n].base \in Int /\ acts[n].frame \in Int
          /\ Ceiling(acts[n]) = acts[n].base + Slot(acts[n].fn)
          /\ acts[n].frame + 24 + ArgsSize(acts[n].fn) <= acts[n].base
      BY <3>5, <3>6 DEF ActRecord, Ceiling, Saved
    <3>. QED
      BY <3>7, <3>8, <3>9
  <2>. QED
    BY <2>1, <2>2 DEF StackClearOfLocals
<1>. QED
  BY <1>1, Invariance, PTL

(* Unless a call was irregular, RET and POP always take what was saved.    *)
THEOREM NeverGoesWild == Spec => []NeverWild
<1>1. IInv => NeverWild
  BY DEF IInv, Exact, NeverWild
<1>. QED
  BY <1>1, Invariance, PTL

(* Unless a call was irregular, the stack is balanced: after POP rsp it is *)
(* where the arguments started, and in a body as far below the frame as    *)
(* its locals and its reads take.                                          *)
THEOREM Balanced == Spec => []StackBalanced
<1>1. IInv => StackBalanced
  <2>. SUFFICES ASSUME IInv, plain PROVE StackBalanced
    BY DEF StackBalanced
  <2>1. CurrentExact(act, mem, rsp, r15)
    BY DEF IInv, Exact, ExactOK, act
  <2>2. ASSUME InPhase("result") PROVE rsp = act.base
    BY <2>1, <2>2 DEF InPhase, CurrentExact
  <2>3. ASSUME InPhase("body")
        PROVE  rbp = act.frame /\ rsp = act.frame - Frame(act.fn) - act.drift
    <3>1. InBody(act) /\ act.phase = "body"
      BY <2>3 DEF InPhase, InBody
    <3>2. rbp = act.frame
      BY <3>1, TopFacts
    <3>. QED
      BY <2>1, <3>1, <3>2 DEF CurrentExact, Floor
  <2>. QED
    BY <2>2, <2>3 DEF StackBalanced
<1>. QED
  BY <1>1, Invariance, PTL

(* Unless a call was irregular, every function finds each argument where   *)
(* create_table placed the parameter, for as long as it runs.              *)
THEOREM ArgumentsFound == Spec => []ArgumentsAgree
<1>1. IInv => ArgumentsAgree
  <2>. SUFFICES ASSUME IInv, plain, NEW n \in Entered,
                       NEW i \in DOMAIN acts[n].args
       PROVE  Holds(mem, acts[n].frame + 24 + SizesBefore(Args[acts[n].fn], i),
                    acts[n].args[i], Size(Args[acts[n].fn][i]))
    BY DEF ArgumentsAgree
  <2>. DEFINE a == acts[n]
  <2>. HIDE DEF a
  <2>1. calls \in Nat /\ ActsOK(acts, calls) /\ Len(acts) \in Nat
    BY TopFacts
  <2>2. n \in 2 .. Len(acts) /\ n \in 1 .. Len(acts) /\ n > 1 /\ InBody(a)
    BY <2>1 DEF Entered, InBody, a
  <2>3. a \in ActRecord /\ CalledOK(a)
    BY <2>1, <2>2, ActsFacts DEF a
  <2>4. a.frame + 24 + ArgsSize(a.fn) = a.base /\ ArgumentsFrom(a, mem, 1)
    BY <2>2 DEF IInv, Exact, ExactOK, RegularCall, a
  <2>5. i \in 1 .. Len(Args[a.fn]) /\ a.fn \in Fun /\ Len(Args[a.fn]) \in Nat
    BY <2>3, SlotFacts DEF CalledOK, a
  <2>6. Holds(mem, Place(a, i), a.args[i], Size(Args[a.fn][i]))
    BY <2>4, <2>5 DEF ArgumentsFrom
  <2>7. Place(a, i) = a.frame + 24 + SizesBefore(Args[a.fn], i)
    <3>1. /\ SizesBefore(Args[a.fn], i) \in Nat /\ ArgsSize(a.fn) \in Nat
      <4>1. i \in 1 .. Len(Args[a.fn]) + 1
            /\ Len(Args[a.fn]) + 1 \in 1 .. Len(Args[a.fn]) + 1
        BY <2>5
      <4>. QED
        BY <2>5, <4>1, BeforeFacts
    <3>2. a.frame \in Int /\ a.base \in Int
      BY <2>3 DEF ActRecord
    <3>. QED
      BY <2>4, <3>1, <3>2 DEF Place
  <2>. QED
    BY <2>6, <2>7 DEF a
<1>. QED
  BY <1>1, Invariance, PTL

(* Unless a call was irregular, the caller finds the result of a call on   *)
(* the top of the stack.                                                   *)
THEOREM ResultFound == Spec => []ResultOnTop
<1>1. IInv => ResultOnTop
  <2>. SUFFICES ASSUME IInv, plain, InPhase("result")
                PROVE  Holds(mem, rsp, act.result, Size(Ret[act.fn]))
    BY DEF ResultOnTop, NestedResultOnTop
  <2>1. CurrentExact(act, mem, rsp, r15)
    BY DEF IInv, Exact, ExactOK, act
  <2>. QED
    BY <2>1 DEF InPhase, CurrentExact, ResultAt
<1>. QED
  BY <1>1, Invariance, PTL

(* Unless a call was irregular, a local keeps what was last stored in it,  *)
(* whatever its function and the functions it calls do.                    *)
THEOREM LocalsSafe == Spec => []LocalsKept
<1>1. IInv => LocalsKept
  <2>. SUFFICES ASSUME IInv, plain, NEW n \in {1} \cup Entered
                PROVE  LocalsHold(acts[n], mem)
    BY DEF LocalsKept, LocalsHold
  <2>1. calls \in Nat /\ ActsOK(acts, calls) /\ Len(acts) \in 1 .. Len(acts)
    BY TopFacts
  <2>2. n \in 1 .. Len(acts) /\ InBody(acts[n])
    BY <2>1 DEF Entered, InBody, ActsOK, MainOK
  <2>. QED
    BY <2>2 DEF IInv, Exact, ExactOK
<1>. QED
  BY <1>1, Invariance, PTL
=============================================================================
