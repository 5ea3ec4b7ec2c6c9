------------------------- MODULE RecursionTheorems --------------------------
(***************************************************************************)
(* Induction and recursion for the other proofs: minimal counterexamples,  *)
(* what is defined by recursion over a well-founded relation, and sums of  *)
(* integers over finite sets, which are SumFunctionOnSet of the community  *)
(* modules by its recursive definition.                                    *)
(***************************************************************************)
EXTENDS Integers, FiniteSets, Functions, FiniteSetTheorems,
        WellFoundedInduction, TLAPS

(* A collection of subsets of a finite set has a minimal member.           *)
LEMMA MinimalSubset ==
  ASSUME NEW S, IsFiniteSet(S), NEW F \in SUBSET (SUBSET S), F # {}
  PROVE  \E T \in F : \A U \in F : U \subseteq T => U = T
<1>1. IsWellFoundedOn(StrictSubsetOrdering(S), FiniteSubsetsOf(S))
  BY FS_StrictSubsetOrderingWellFounded
<1>2. F \subseteq FiniteSubsetsOf(S)
  BY FS_FiniteSubsetsOfFinite
<1>3. PICK T \in F : \A U \in F : ~ (<<U, T>> \in StrictSubsetOrdering(S))
  BY <1>1, <1>2, WFMin
<1>4. ASSUME NEW U \in F, U \subseteq T PROVE U = T
  BY <1>3, <1>4 DEF StrictSubsetOrdering
<1>. QED
  BY <1>4

(* A set of naturals that is not empty has a least element.                *)
LEMMA LeastNatural ==
  ASSUME NEW T \in SUBSET Nat, T # {}
  PROVE  \E n \in T : \A m \in T : n <= m
<1>1. PICK b \in T : TRUE
  OBVIOUS
<1>2. IsFiniteSet(0 .. b)
  BY <1>1, FS_Interval
<1>. DEFINE F == {0 .. n : n \in {m \in T : m <= b}}
<1>3. F \in SUBSET (SUBSET (0 .. b))
  <2>1. ASSUME NEW n \in T, n <= b PROVE 0 .. n \subseteq 0 .. b
    BY <2>1
  <2>. QED
    BY <2>1
<1>4. 0 .. b \in F
  BY <1>1
<1>5. PICK V \in F : \A U \in F : U \subseteq V => U = V
  <2>. DEFINE B == 0 .. b
  <2>1. IsFiniteSet(B) /\ F \in SUBSET (SUBSET B) /\ F # {}
    BY <1>2, <1>3, <1>4
  <2>. HIDE DEF F, B
  <2>. QED
    BY <2>1, MinimalSubset
<1>6. PICK n \in T : n <= b /\ V = 0 .. n
  OBVIOUS
<1>7. ASSUME NEW m \in T, m < n PROVE FALSE
  <2>1. 0 .. m \in F /\ 0 .. m \subseteq 0 .. n
    BY <1>6, <1>7
  <2>2. n \in 0 .. n /\ n \notin 0 .. m
    BY <1>7
  <2>. QED
    BY <2>1, <2>2, <1>5, <1>6
<1>. QED
  BY <1>7

(* What holds at x when it holds at all that is below x holds everywhere.  *)
THEOREM WellFoundedCover ==
  ASSUME NEW S, NEW R, IsWellFoundedOn(R, S), NEW T,
         \A x \in S : (\A y \in S : <<y, x>> \in R => y \in T) => x \in T
  PROVE  S \subseteq T
<1>. DEFINE B == S \ T
<1>. SUFFICES ASSUME B # {} PROVE FALSE
  OBVIOUS
<1>1. B \subseteq S
  OBVIOUS
<1>2. PICK x \in B : \A y \in B : ~ (<<y, x>> \in R)
  <2>. HIDE DEF B
  <2>. QED
    BY <1>1, WFMin
<1>. QED
  BY <1>2

(* What holds at 0, and at n + 1 when at n, holds at every natural.        *)
THEOREM NaturalCover ==
  ASSUME NEW T, 0 \in T, \A n \in Nat : n \in T => n + 1 \in T
  PROVE  Nat \subseteq T
<1>. DEFINE B == Nat \ T
<1>. SUFFICES ASSUME B # {} PROVE FALSE
  OBVIOUS
<1>1. B \in SUBSET Nat
  OBVIOUS
<1>2. PICK n \in B : \A m \in B : n <= m
  <2>. HIDE DEF B
  <2>. QED
    BY <1>1, LeastNatural
<1>3. n \in Nat /\ n # 0
  BY <1>2
<1>4. n - 1 \in Nat /\ (n - 1) + 1 = n
  BY <1>3
<1>5. n - 1 \notin B
  BY <1>2, <1>3
<1>. QED
  BY <1>2, <1>4, <1>5

-----------------------------------------------------------------------------
(* Recursion over a well-founded relation.  F says what a function must be *)
(* at x, from its values below x.                                          *)

Determined(F, R, S, V) ==
  \A g, h \in [S -> V] : \A x \in S :
    (\A y \in S : <<y, x>> \in R => g[y] = h[y]) => F[g][x] = F[h][x]

Closed(D, R, S) == D \subseteq S /\ \A x \in D : \A y \in S : <<y, x>> \in R => y \in D

Solves(g, D, F) == \A x \in D : F[g][x] = g[x]

(* Two solutions agree where both are.                                     *)
LEMMA SolutionsAgree ==
  ASSUME NEW S, NEW R, NEW V, NEW F, IsWellFoundedOn(R, S), Determined(F, R, S, V),
         NEW g \in [S -> V], NEW h \in [S -> V],
         NEW D, Closed(D, R, S), Solves(g, D, F),
         NEW E, Closed(E, R, S), Solves(h, E, F)
  PROVE  \A x \in D \cap E : g[x] = h[x]
<1>. DEFINE T == {x \in D \cap E : g[x] # h[x]}
<1>. SUFFICES ASSUME T # {} PROVE FALSE
  OBVIOUS
<1>1. T \subseteq S
  BY DEF Closed
<1>2. PICK x \in T : \A y \in T : ~ (<<y, x>> \in R)
  <2>. HIDE DEF T
  <2>. QED
    BY <1>1, WFMin
<1>3. \A y \in S : <<y, x>> \in R => g[y] = h[y]
  BY <1>2 DEF Closed
<1>4. F[g][x] = F[h][x]
  BY <1>1, <1>2, <1>3 DEF Determined
<1>. QED
  BY <1>2, <1>4 DEF Solves

(* A solution on a closed set is one on the set with an element more.      *)
LEMMA SolutionGrows ==
  ASSUME NEW S, NEW R, NEW V, NEW F \in [[S -> V] -> [S -> V]],
         Determined(F, R, S, V),
         NEW g \in [S -> V], NEW D, Closed(D, R, S), Solves(g, D, F),
         NEW x \in S, x \notin D, \A y \in S : <<y, x>> \in R => y \in D
  PROVE  \E h \in [S -> V] : Closed(D \cup {x}, R, S) /\ Solves(h, D \cup {x}, F)
<1>. DEFINE h == [g EXCEPT ![x] = F[g][x]]
<1>1. h \in [S -> V] /\ h[x] = F[g][x] /\ \A y \in D : h[y] = g[y]
  BY DEF Closed
<1>2. Closed(D \cup {x}, R, S)
  BY DEF Closed
<1>. HIDE DEF h
<1>3. ASSUME NEW z \in D \cup {x} PROVE F[h][z] = h[z]
  <2>1. z \in S /\ \A y \in S : <<y, z>> \in R => h[y] = g[y]
    BY <1>1, <1>3 DEF Closed
  <2>2. F[h][z] = F[g][z]
    BY <1>1, <2>1 DEF Determined
  <2>. QED
    BY <1>1, <1>3, <2>2 DEF Solves
<1>. QED
  BY <1>1, <1>2, <1>3 DEF Solves

WellDefined(F, R, S, V) ==
  /\ V # {} /\ F \in [[S -> V] -> [S -> V]]
  /\ IsWellFoundedOn(R, S) /\ Determined(F, R, S, V)

(* What is defined by recursion over a well-founded relation exists.       *)
THEOREM RecursiveFunction ==
  ASSUME NEW S, NEW R, NEW V, NEW F, WellDefined(F, R, S, V)
  PROVE  \E g \in [S -> V] : g = F[g]
<1>. PICK v0 \in V : TRUE
  BY DEF WellDefined
<1>0. /\ F \in [[S -> V] -> [S -> V]]
      /\ IsWellFoundedOn(R, S) /\ Determined(F, R, S, V)
  BY DEF WellDefined
<1>. DEFINE Covers(D, g) == Closed(D, R, S) /\ Solves(g, D, F)
            Covered == {x \in S : \E g \in [S -> V] : \E D \in SUBSET S : x \in D /\ Covers(D, g)}
            P(x) == CHOOSE g \in [S -> V] : \E D \in SUBSET S : x \in D /\ Covers(D, g)
            G == [x \in S |-> IF x \in Covered THEN P(x)[x] ELSE v0]
<1>1. \A x \in Covered : P(x) \in [S -> V] /\ \E D \in SUBSET S : x \in D /\ Covers(D, P(x))
  OBVIOUS
<1>2. G \in [S -> V]
  BY <1>1
<1>3. ASSUME NEW g \in [S -> V], NEW D \in SUBSET S, Covers(D, g)
      PROVE  D \subseteq Covered /\ \A x \in D : G[x] = g[x]
  <2>1. D \subseteq Covered
    BY <1>3
  <2>2. ASSUME NEW x \in D PROVE G[x] = g[x]
    <3>1. x \in Covered
      BY <2>1
    <3>2. PICK E \in SUBSET S : x \in E /\ Covers(E, P(x))
      BY <1>1, <3>1
    <3>3. P(x) \in [S -> V]
      BY <1>1, <3>1
    <3>4. P(x)[x] = g[x]
      <4>. DEFINE h == P(x)
      <4>1. h \in [S -> V] /\ Closed(E, R, S) /\ Solves(h, E, F)
        BY <3>2, <3>3
      <4>2. Closed(D, R, S) /\ Solves(g, D, F)
        BY <1>3
      <4>. HIDE DEF h
      <4>3. \A y \in E \cap D : h[y] = g[y]
        BY <1>0, <4>1, <4>2, SolutionsAgree
      <4>. QED
        BY <3>2, <4>3 DEF h
    <3>. QED
      BY <3>1, <3>4
  <2>. QED
    BY <2>1, <2>2
<1>4. \A x \in Covered : \E g \in [S -> V] : \E D \in SUBSET S : x \in D /\ Covers(D, g)
  OBVIOUS
<1>5. Covered \subseteq S
  OBVIOUS
<1>. HIDE DEF Covered, G
<1>6. Closed(Covered, R, S) /\ Solves(G, Covered, F)
  <2>1. ASSUME NEW x \in Covered
        PROVE  F[G][x] = G[x] /\ \A y \in S : <<y, x>> \in R => y \in Covered
    <3>1. PICK g \in [S -> V], D \in SUBSET S : x \in D /\ Covers(D, g)
      BY <1>4
    <3>2. D \subseteq Covered /\ \A y \in D : G[y] = g[y]
      BY <1>3, <3>1
    <3>3. \A y \in S : <<y, x>> \in R => y \in D
      BY <3>1 DEF Closed
    <3>4. F[G][x] = F[g][x]
      BY <1>0, <1>2, <1>5, <3>2, <3>3 DEF Determined
    <3>. QED
      BY <3>1, <3>2, <3>3, <3>4 DEF Solves
  <2>. QED
    BY <1>5, <2>1 DEF Closed, Solves
<1>7. Covered = S
  <2>. SUFFICES ASSUME S \ Covered # {} PROVE FALSE
    BY <1>5
  <2>. DEFINE T == S \ Covered
  <2>1. PICK x \in T : \A y \in T : ~ (<<y, x>> \in R)
    <3>1. T \subseteq S /\ T # {}
      OBVIOUS
    <3>. HIDE DEF T
    <3>. QED
      BY <1>0, <3>1, WFMin
  <2>2. x \in S /\ x \notin Covered /\ \A y \in S : <<y, x>> \in R => y \in Covered
    BY <2>1
  <2>3. PICK h \in [S -> V] : Closed(Covered \cup {x}, R, S) /\ Solves(h, Covered \cup {x}, F)
    BY <1>0, <1>2, <1>6, <2>2, SolutionGrows
  <2>4. Covers(Covered \cup {x}, h) /\ Covered \cup {x} \in SUBSET S
    BY <1>5, <2>2, <2>3
  <2>. QED
    BY <1>3, <2>2, <2>4
<1>8. F[G] \in [S -> V] /\ \A x \in S : F[G][x] = G[x]
  BY <1>0, <1>2, <1>6, <1>7 DEF Solves
<1>. QED
  BY <1>2, <1>8

-----------------------------------------------------------------------------
(* One step of the sum over a subset s of S, given the sums g of smaller   *)
(* subsets.                                                                *)
SumStep(fun, g, s) ==
  IF s = {} THEN 0
  ELSE LET x == CHOOSE x \in s : TRUE IN fun[x] + g[s \ {x}]

(* g satisfies the recursive definition of the sum, on the subsets of S.   *)
Iterates(fun, g, S) == g = [s \in SUBSET S |-> SumStep(fun, g, s)]

Iter(fun, S) == CHOOSE g : Iterates(fun, g, S)

(* The sum of a set is the iteration's value at that set.                  *)
LEMMA SumIsIter ==
  ASSUME NEW fun, NEW S
  PROVE  SumFunctionOnSet(fun, S) = Iter(fun, S)[S]
BY DEF SumFunctionOnSet, FoldFunctionOnSet, MapThenFoldSet, Iter, Iterates, SumStep

(* A step depends on the sum of one strictly smaller subset only.          *)
LEMMA StepLocal ==
  ASSUME NEW fun, NEW g, NEW h, NEW s,
         \A t \in SUBSET s : t # s => g[t] = h[t]
  PROVE  SumStep(fun, g, s) = SumStep(fun, h, s)
<1>1. CASE s = {}
  BY <1>1 DEF SumStep
<1>2. CASE s # {}
  <2>. DEFINE x == CHOOSE x \in s : TRUE
  <2>1. x \in s
    BY <1>2
  <2>2. s \ {x} \in SUBSET s /\ s \ {x} # s
    BY <2>1
  <2>3. g[s \ {x}] = h[s \ {x}]
    BY <2>2
  <2>. QED
    BY <1>2, <2>3 DEF SumStep
<1>. QED
  BY <1>1, <1>2

(* Two solutions of the recursive definition agree where both are defined. *)
LEMMA IteratesAgree ==
  ASSUME NEW fun, NEW S, NEW T, IsFiniteSet(S), NEW g, NEW h,
         Iterates(fun, g, S), Iterates(fun, h, T)
  PROVE  \A u \in SUBSET S : u \in SUBSET T => g[u] = h[u]
<1>. DEFINE F == {u \in SUBSET S : u \in SUBSET T /\ g[u] # h[u]}
<1>1. SUFFICES ASSUME F # {} PROVE FALSE
  OBVIOUS
<1>2. PICK u \in F : \A v \in F : v \subseteq u => v = u
  <2>1. F \in SUBSET (SUBSET S)
    OBVIOUS
  <2>. HIDE DEF F
  <2>. QED
    BY <1>1, <2>1, MinimalSubset
<1>3. g[u] = SumStep(fun, g, u) /\ h[u] = SumStep(fun, h, u)
  BY DEF Iterates
<1>4. \A v \in SUBSET u : v # u => g[v] = h[v]
  BY <1>2
<1>5. SumStep(fun, g, u) = SumStep(fun, h, u)
  <2>. HIDE DEF F
  <2>. QED
    BY <1>4, StepLocal
<1>. QED
  BY <1>3, <1>5

(* The recursive function exists, for finite sets.                         *)
LEMMA IterExists ==
  ASSUME NEW fun, NEW S, IsFiniteSet(S)
  PROVE  Iterates(fun, Iter(fun, S), S)
<1>. DEFINE F == {T \in SUBSET S : ~ \E g : Iterates(fun, g, T)}
<1>1. SUFFICES F = {}
  BY <1>1 DEF Iter
<1>2. SUFFICES ASSUME F # {} PROVE FALSE
  OBVIOUS
<1>3. PICK T \in F : \A U \in F : U \subseteq T => U = T
  <2>1. F \in SUBSET (SUBSET S)
    OBVIOUS
  <2>. HIDE DEF F
  <2>. QED
    BY <1>2, <2>1, MinimalSubset
<1>. DEFINE sub(U) == Iter(fun, U)
            val == [u \in SUBSET T |-> sub(u)[u]]
            h == [s \in SUBSET T |-> SumStep(fun, val, s)]
<1>4. ASSUME NEW U \in SUBSET T, U # T
      PROVE  Iterates(fun, sub(U), U)
  BY <1>3, <1>4 DEF Iter
<1>5. ASSUME NEW U \in SUBSET T, U # T, NEW u \in SUBSET U
      PROVE  sub(U)[u] = val[u]
  <2>1. u \in SUBSET T /\ u # T
    BY <1>5
  <2>2. Iterates(fun, sub(U), U) /\ Iterates(fun, sub(u), u)
    BY <1>4, <1>5, <2>1
  <2>3. IsFiniteSet(U)
    BY <1>5, FS_Subset
  <2>4. sub(U)[u] = sub(u)[u]
    <3>. HIDE DEF sub
    <3>. QED
      BY <2>2, <2>3, IteratesAgree
  <2>. QED
    BY <2>1, <2>4
<1>6. ASSUME NEW u \in SUBSET T, u # T
      PROVE  val[u] = h[u]
  <2>1. sub(u)[u] = SumStep(fun, sub(u), u)
    BY <1>4, <1>6 DEF Iterates
  <2>2. SumStep(fun, sub(u), u) = SumStep(fun, val, u)
    <3>1. \A t \in SUBSET u : t # u => sub(u)[t] = val[t]
      BY <1>5, <1>6
    <3>. HIDE DEF sub, val
    <3>. QED
      BY <3>1, StepLocal
  <2>. QED
    BY <2>1, <2>2
<1>7. ASSUME NEW s \in SUBSET T
      PROVE  h[s] = SumStep(fun, h, s)
  <2>1. \A t \in SUBSET s : t # s => val[t] = h[t]
    <3>1. ASSUME NEW t \in SUBSET s, t # s PROVE val[t] = h[t]
      <4>1. t \in SUBSET T /\ t # T
        BY <1>7, <3>1
      <4>. HIDE DEF val, h
      <4>. QED
        BY <4>1, <1>6
    <3>. QED
      BY <3>1
  <2>2. SumStep(fun, val, s) = SumStep(fun, h, s)
    <3>. HIDE DEF val, h
    <3>. QED
      BY <2>1, StepLocal
  <2>. QED
    BY <2>2
<1>8. Iterates(fun, h, T)
  BY <1>7 DEF Iterates
<1>. QED
  BY <1>8, <1>3

-----------------------------------------------------------------------------
(* The sum over no element.                                                *)
THEOREM SumEmpty ==
  ASSUME NEW fun
  PROVE  SumFunctionOnSet(fun, {}) = 0
<1>1. Iterates(fun, Iter(fun, {}), {})
  BY IterExists, FS_EmptySet
<1>2. Iter(fun, {})[{}] = SumStep(fun, Iter(fun, {}), {})
  BY <1>1 DEF Iterates
<1>. QED
  BY <1>2, SumIsIter DEF SumStep

(* The definition of the sum, unfolded once.                               *)
LEMMA SumUnfold ==
  ASSUME NEW fun, NEW S, IsFiniteSet(S), S # {}
  PROVE  \E x \in S :
           SumFunctionOnSet(fun, S) = fun[x] + SumFunctionOnSet(fun, S \ {x})
<1>. DEFINE x == CHOOSE x \in S : TRUE
            T == S \ {x}
<1>1. x \in S
  OBVIOUS
<1>2. IsFiniteSet(T)
  BY FS_RemoveElement
<1>3. Iterates(fun, Iter(fun, S), S) /\ Iterates(fun, Iter(fun, T), T)
  <2>. HIDE DEF T
  <2>. QED
    BY <1>2, IterExists
<1>4. Iter(fun, S)[S] = SumStep(fun, Iter(fun, S), S)
  BY <1>3 DEF Iterates
<1>5. Iter(fun, S)[T] = Iter(fun, T)[T]
  <2>1. T \in SUBSET S /\ T \in SUBSET T
    OBVIOUS
  <2>. HIDE DEF T
  <2>. QED
    BY <1>3, <2>1, IteratesAgree
<1>6. Iter(fun, S)[S] = fun[x] + Iter(fun, T)[T]
  BY <1>4, <1>5 DEF SumStep
<1>7. SumFunctionOnSet(fun, S) = fun[x] + SumFunctionOnSet(fun, T)
  <2>. HIDE DEF x, T
  <2>. QED
    BY <1>6, SumIsIter
<1>. QED
  BY <1>1, <1>7

(* The sum of integers is an integer, and of naturals a natural.           *)
THEOREM SumInt ==
  ASSUME NEW fun, NEW S, IsFiniteSet(S), \A x \in S : fun[x] \in Int
  PROVE  SumFunctionOnSet(fun, S) \in Int
<1>. DEFINE F == {T \in SUBSET S : SumFunctionOnSet(fun, T) \notin Int}
<1>1. SUFFICES ASSUME F # {} PROVE FALSE
  OBVIOUS
<1>2. PICK T \in F : \A U \in F : U \subseteq T => U = T
  <2>1. F \in SUBSET (SUBSET S)
    OBVIOUS
  <2>. HIDE DEF F
  <2>. QED
    BY <1>1, <2>1, MinimalSubset
<1>3. IsFiniteSet(T) /\ T # {}
  <2>1. IsFiniteSet(T)
    BY FS_Subset
  <2>. QED
    BY <2>1, SumEmpty
<1>4. PICK x \in T :
        SumFunctionOnSet(fun, T) = fun[x] + SumFunctionOnSet(fun, T \ {x})
  BY <1>3, SumUnfold
<1>5. T \ {x} \notin F
  BY <1>2
<1>. QED
  BY <1>4, <1>5

(* The sum of natural numbers is a natural number.                         *)
THEOREM SumNat ==
  ASSUME NEW fun, NEW S, IsFiniteSet(S), \A x \in S : fun[x] \in Nat
  PROVE  SumFunctionOnSet(fun, S) \in Nat
<1>. DEFINE F == {T \in SUBSET S : SumFunctionOnSet(fun, T) \notin Nat}
<1>1. SUFFICES ASSUME F # {} PROVE FALSE
  OBVIOUS
<1>2. PICK T \in F : \A U \in F : U \subseteq T => U = T
  <2>1. F \in SUBSET (SUBSET S)
    OBVIOUS
  <2>. HIDE DEF F
  <2>. QED
    BY <1>1, <2>1, MinimalSubset
<1>3. IsFiniteSet(T) /\ T # {}
  <2>1. IsFiniteSet(T)
    BY FS_Subset
  <2>. QED
    BY <2>1, SumEmpty
<1>4. PICK x \in T :
        SumFunctionOnSet(fun, T) = fun[x] + SumFunctionOnSet(fun, T \ {x})
  BY <1>3, SumUnfold
<1>5. T \ {x} \notin F
  BY <1>2
<1>. QED
  BY <1>4, <1>5

(* Any element can be taken out of the sum first.                          *)
THEOREM SumRemove ==
  ASSUME NEW fun, NEW S, IsFiniteSet(S), \A x \in S : fun[x] \in Int,
         NEW x \in S
  PROVE  SumFunctionOnSet(fun, S) = fun[x] + SumFunctionOnSet(fun, S \ {x})
<1>. DEFINE Sum(T) == SumFunctionOnSet(fun, T)
            Out(T, y) == Sum(T) = fun[y] + Sum(T \ {y})
            F == {T \in SUBSET S : \E y \in T : ~ Out(T, y)}
<1>1. SUFFICES ASSUME F # {} PROVE FALSE
  OBVIOUS
<1>2. PICK T \in F : \A U \in F : U \subseteq T => U = T
  <2>1. F \in SUBSET (SUBSET S)
    OBVIOUS
  <2>. HIDE DEF F
  <2>. QED
    BY <1>1, <2>1, MinimalSubset
<1>3. PICK y \in T : ~ Out(T, y)
  OBVIOUS
<1>4. PICK c \in T : Out(T, c)
  <2>1. IsFiniteSet(T)
    BY FS_Subset
  <2>. QED
    BY <2>1, SumUnfold
<1>5. y # c
  BY <1>3, <1>4
<1>. DEFINE R == (T \ {c}) \ {y}
<1>6. T \ {c} \notin F /\ T \ {y} \notin F
  BY <1>2
<1>7. Sum(T \ {c}) = fun[y] + Sum(R)
  <2>. HIDE DEF Sum
  <2>. QED
    BY <1>5, <1>6
<1>8. Sum(T \ {y}) = fun[c] + Sum(R)
  <2>1. (T \ {y}) \ {c} = R
    OBVIOUS
  <2>. HIDE DEF Sum, R
  <2>. QED
    BY <1>5, <1>6, <2>1
<1>9. Sum(R) \in Int /\ fun[y] \in Int /\ fun[c] \in Int
  <2>1. IsFiniteSet(R) /\ \A z \in R : fun[z] \in Int
    BY FS_Subset
  <2>. HIDE DEF R
  <2>. QED
    BY <2>1, SumInt
<1>. HIDE DEF Sum, R
<1>. QED
  BY <1>3, <1>4, <1>7, <1>8, <1>9

(* One more element.                                                       *)
THEOREM SumAdd ==
  ASSUME NEW fun, NEW S, IsFiniteSet(S), NEW x, x \notin S,
         \A y \in S \cup {x} : fun[y] \in Int
  PROVE  SumFunctionOnSet(fun, S \cup {x}) = SumFunctionOnSet(fun, S) + fun[x]
<1>. DEFINE T == S \cup {x}
<1>1. IsFiniteSet(T) /\ x \in T /\ T \ {x} = S
  BY FS_AddElement
<1>2. SumFunctionOnSet(fun, T) = fun[x] + SumFunctionOnSet(fun, S)
  <2>. HIDE DEF T
  <2>. QED
    BY <1>1, SumRemove DEF T
<1>3. SumFunctionOnSet(fun, S) \in Int
  BY SumInt
<1>. QED
  BY <1>2, <1>3

(* The sum depends on the summands only.                                   *)
THEOREM SumSame ==
  ASSUME NEW fun, NEW other, NEW S, IsFiniteSet(S),
         \A x \in S : fun[x] = other[x]
  PROVE  SumFunctionOnSet(fun, S) = SumFunctionOnSet(other, S)
<1>. DEFINE g == Iter(fun, S)
<1>1. Iterates(fun, g, S) /\ Iterates(other, Iter(other, S), S)
  BY IterExists
<1>2. ASSUME NEW s \in SUBSET S PROVE SumStep(fun, g, s) = SumStep(other, g, s)
  <2>. HIDE DEF g
  <2>. QED
    BY DEF SumStep
<1>3. Iterates(other, g, S)
  <2>. HIDE DEF g
  <2>. QED
    BY <1>1, <1>2 DEF Iterates
<1>4. g[S] = Iter(other, S)[S]
  <2>1. S \in SUBSET S
    OBVIOUS
  <2>. HIDE DEF g
  <2>. QED
    BY <1>1, <1>3, <2>1, IteratesAgree
<1>. QED
  BY <1>4, SumIsIter

(* Where two functions differ in one place only, so do their sums.         *)
THEOREM SumChange ==
  ASSUME NEW fun, NEW other, NEW S, IsFiniteSet(S), NEW x \in S,
         \A y \in S : fun[y] \in Int /\ other[y] \in Int,
         \A y \in S \ {x} : other[y] = fun[y]
  PROVE  SumFunctionOnSet(other, S) = SumFunctionOnSet(fun, S) + (other[x] - fun[x])
<1>. DEFINE rest == S \ {x}
<1>1. IsFiniteSet(rest)
  BY FS_RemoveElement
<1>2. /\ SumFunctionOnSet(fun, S) = fun[x] + SumFunctionOnSet(fun, rest)
      /\ SumFunctionOnSet(other, S) = other[x] + SumFunctionOnSet(other, rest)
  BY SumRemove
<1>3. /\ \A y \in rest : other[y] = fun[y] /\ fun[y] \in Int
      /\ fun[x] \in Int /\ other[x] \in Int
  OBVIOUS
<1>. HIDE DEF rest
<1>4. SumFunctionOnSet(other, rest) = SumFunctionOnSet(fun, rest)
  BY <1>1, <1>3, SumSame
<1>5. SumFunctionOnSet(fun, rest) \in Int
  BY <1>1, <1>3, SumInt
<1>. QED
  BY <1>2, <1>3, <1>4, <1>5
=============================================================================
