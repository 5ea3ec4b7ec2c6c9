-------------------------- MODULE ExpressionsProofs --------------------------
(***************************************************************************)
(* The four invariants of Expressions, for every set of expressions, any   *)
(* nesting, any variables and any width of a cell.                         *)
(*                                                                         *)
(* The argument is compositional.  Step(env, A, x, B) says that the item x *)
(* of the code, a node or an instruction, may be executed in the states A  *)
(* and leads to the states B; Chain joins steps to code.  A node leads to  *)
(* the states in which a word that stands for its value is on the stack    *)
(* (Yields), and the code instr writes for it is a chain that does the     *)
(* same, given that its operands do.  The inductive invariant Good says    *)
(* that what is left of the code is a chain to an end of the statement     *)
(* that is C's: replacing a node by its code keeps the chain, executing an *)
(* item goes one step along it.                                            *)
(***************************************************************************)
EXTENDS Expressions, RecursionTheorems, SequenceTheorems

-----------------------------------------------------------------------------
(* Division.                                                               *)

(* A product of natural numbers is one.                                    *)
LEMMA ProductNat == ASSUME NEW p \in Nat, NEW q \in Nat PROVE p * q \in Nat
OBVIOUS

(* Factors may change places.                                              *)
LEMMA ProductSwap ==
  ASSUME NEW p \in Int, NEW q \in Int, NEW r \in Int PROVE r * (p * q) = p * (r * q)
OBVIOUS

(* Quotient and remainder are what they are called.                        *)
LEMMA DivMod ==
  ASSUME NEW d \in Nat \ {0}, NEW v \in Int
  PROVE  /\ v \div d \in Int /\ v % d \in 0 .. d - 1
         /\ v = d * (v \div d) + (v % d)
OBVIOUS

(* There is one quotient and one remainder.                                *)
LEMMA DivUnique ==
  ASSUME NEW d \in Nat \ {0}, NEW q \in Int, NEW r \in 0 .. d - 1, NEW v \in Int,
         v = d * q + r
  PROVE  v % d = r /\ v \div d = q
OBVIOUS

(* A multiple more or less leaves the remainder.                           *)
LEMMA ModShift ==
  ASSUME NEW d \in Nat \ {0}, NEW v \in Int, NEW k \in Int
  PROVE  (v + d * k) % d = v % d
<1>. DEFINE q == v \div d
            r == v % d
            w == v + d * k
            s == q + k
<1>1. q \in Int /\ r \in 0 .. d - 1 /\ v = d * q + r
  BY DivMod
<1>2. w = d * s + r /\ s \in Int /\ w \in Int
  <2>. HIDE DEF q, r
  <2>1. d * (q + k) = d * q + d * k
    BY <1>1
  <2>. QED
    BY <1>1, <2>1
<1>3. w % d = r
  <2>. HIDE DEF q, r, w, s
  <2>. QED
    BY <1>1, <1>2, DivUnique
<1>. QED
  BY <1>3

(* What is small is its own remainder.                                     *)
LEMMA ModSmall ==
  ASSUME NEW d \in Nat \ {0}, NEW v \in 0 .. d - 1
  PROVE  v % d = v /\ v \div d = 0
BY DivUnique

(* A remainder by a multiple, and its digits.                              *)
LEMMA ModDigit ==
  ASSUME NEW p \in Nat \ {0}, NEW d \in Nat \ {0}, NEW v \in Int
  PROVE  v % (p * d) = (v % p) + (p * ((v \div p) % d))
<1>. DEFINE q == v \div p
            r == v % p
            q2 == q \div d
            r2 == q % d
<1>1. q \in Int /\ r \in 0 .. p - 1 /\ v = p * q + r
  BY DivMod
<1>2. q2 \in Int /\ r2 \in 0 .. d - 1 /\ q = d * q2 + r2
  BY <1>1, DivMod
<1>. HIDE DEF q, r, q2, r2
<1>3. v = p * (d * q2 + r2) + r
  BY <1>1, <1>2
<1>4. p * (d * q2 + r2) = (p * d) * q2 + (p * r2)
  BY <1>2
<1>5. p * r2 \in Int /\ p * r2 <= p * (d - 1) /\ 0 <= p * r2
  BY <1>2
<1>6. p * (d - 1) = (p * d) - p /\ p * d \in Nat \ {0}
  OBVIOUS
<1>7. (p * r2) + r \in 0 .. (p * d) - 1
  BY <1>1, <1>5, <1>6
<1>8. v = (p * d) * q2 + ((p * r2) + r)
  BY <1>1, <1>2, <1>3, <1>4, <1>5
<1>9. v % (p * d) = (p * r2) + r
  <2>. DEFINE m == p * d
              w == (p * r2) + r
  <2>1. m \in Nat \ {0} /\ w \in 0 .. m - 1 /\ v = m * q2 + w
    BY <1>6, <1>7, <1>8
  <2>2. v % m = w
    <3>. HIDE DEF m, w
    <3>. QED
      BY <1>2, <2>1, DivUnique
  <2>. QED
    BY <2>2
<1>. QED
  BY <1>1, <1>5, <1>9 DEF q, r, r2

(* A remainder by a multiple of p, taken by p.                             *)
LEMMA ModMod ==
  ASSUME NEW p \in Nat \ {0}, NEW d \in Nat \ {0}, NEW v \in Int
  PROVE  (v % (p * d)) % p = v % p
<1>. DEFINE r == v % p
            k == (v \div p) % d
<1>1. r \in 0 .. p - 1 /\ k \in Int
  BY DivMod
<1>2. v % (p * d) = r + p * k
  BY ModDigit
<1>. HIDE DEF r, k
<1>3. (r + p * k) % p = r % p
  <2>1. r \in Int
    BY <1>1
  <2>. QED
    BY <1>1, <2>1, ModShift
<1>4. r % p = r
  BY <1>1, ModSmall
<1>. QED
  BY <1>2, <1>3, <1>4 DEF r

(* The remainder of a product is that of the product of the remainders.    *)
LEMMA ModMul ==
  ASSUME NEW d \in Nat \ {0}, NEW a \in Int, NEW b \in Int
  PROVE  ((a % d) * (b % d)) % d = (a * b) % d
<1>. DEFINE q == a \div d
            r == a % d
            s == b \div d
            t == b % d
<1>1. /\ q \in Int /\ r \in 0 .. d - 1 /\ a = d * q + r
      /\ s \in Int /\ t \in 0 .. d - 1 /\ b = d * s + t
  BY DivMod
<1>. HIDE DEF q, r, s, t
<1>. DEFINE k == (q * (d * s)) + (q * t) + (r * s)
<1>2. (d * q + r) * (d * s + t) = ((d * q) * (d * s)) + ((d * q) * t) + (r * (d * s)) + (r * t)
  BY <1>1
<1>3. /\ (d * q) * (d * s) = d * (q * (d * s)) /\ (d * q) * t = d * (q * t)
      /\ r * (d * s) = d * (r * s)
  BY <1>1
<1>4. /\ q * (d * s) \in Int /\ q * t \in Int /\ r * s \in Int /\ r * t \in Int
  BY <1>1
<1>5. k \in Int /\ d * k = (d * (q * (d * s))) + (d * (q * t)) + (d * (r * s))
  BY <1>4
<1>6. a * b = (r * t) + d * k
  BY <1>1, <1>2, <1>3, <1>4, <1>5
<1>. HIDE DEF k
<1>7. ((r * t) + d * k) % d = (r * t) % d
  BY <1>4, <1>5, ModShift
<1>. QED
  BY <1>6, <1>7 DEF r, t

-----------------------------------------------------------------------------
(* Widths.                                                                 *)

(* The recursive function Power, unfolded once.                            *)
LEMMA PowerRule ==
  /\ Power \in [0 .. 8 -> Nat]
  /\ Power[0] = 1
  /\ \A n \in 1 .. 8 : Power[n] = CellValues * Power[n - 1]
<1>. DEFINE S == 0 .. 8
            R == {p \in S \X S : p[1] < p[2]}
            F == [g \in [S -> Nat] |-> [n \in S |-> IF n = 0 THEN 1 ELSE CellValues * g[n - 1]]]
<1>0. CellValues \in Nat
  BY CellAssumption
<1>1. F \in [[S -> Nat] -> [S -> Nat]]
  <2>1. ASSUME NEW g \in [S -> Nat], NEW n \in S
        PROVE  (IF n = 0 THEN 1 ELSE CellValues * g[n - 1]) \in Nat
    <3>1. CASE n = 0
      BY <3>1
    <3>2. CASE n # 0
      <4>1. n - 1 \in S
        BY <3>2
      <4>2. g[n - 1] \in Nat
        BY <4>1
      <4>. QED
        BY <3>2, <4>2, <1>0
    <3>. QED
      BY <3>1, <3>2
  <2>. QED
    BY <2>1
<1>2. IsWellFoundedOn(R, S)
  <2>1. IsWellFoundedOn(OpToRel(<, Nat), Nat)
    BY NatLessThanWellFounded
  <2>2. S \in SUBSET Nat /\ R \cap (S \X S) \subseteq OpToRel(<, Nat)
    BY DEF OpToRel
  <2>3. IsWellFoundedOn(OpToRel(<, Nat), S)
    <3>. HIDE DEF S, R
    <3>. QED
      BY <2>1, <2>2, IsWellFoundedOnSubset
  <2>. HIDE DEF S, R
  <2>. QED
    BY <2>2, <2>3, IsWellFoundedOnSubrelation
<1>3. Determined(F, R, S, Nat)
  <2>1. ASSUME NEW g \in [S -> Nat], NEW h \in [S -> Nat], NEW n \in S,
               \A m \in S : <<m, n>> \in R => g[m] = h[m]
        PROVE  F[g][n] = F[h][n]
    <3>1. CASE n = 0
      BY <3>1
    <3>2. CASE n # 0
      <4>1. n - 1 \in S /\ <<n - 1, n>> \in R
        BY <3>2
      <4>. QED
        BY <2>1, <3>2, <4>1
    <3>. QED
      BY <3>1, <3>2
  <2>. QED
    BY <2>1 DEF Determined
<1>4. WellDefined(F, R, S, Nat)
  <2>. HIDE DEF F, R, S
  <2>. QED
    BY <1>1, <1>2, <1>3 DEF WellDefined
<1>5. \E g \in [S -> Nat] : g = F[g]
  <2>. HIDE DEF F, R, S
  <2>. QED
    BY <1>4, RecursiveFunction
<1>6. \E g : g = [n \in S |-> IF n = 0 THEN 1 ELSE CellValues * g[n - 1]]
  BY <1>5
<1>7. Power = [n \in S |-> IF n = 0 THEN 1 ELSE CellValues * Power[n - 1]]
  <2>. HIDE DEF F
  <2>. QED
    BY <1>6 DEF Power
<1>8. Power[0] = 1 /\ \A n \in 1 .. 8 : Power[n] = CellValues * Power[n - 1]
  BY <1>7
<1>9. \A n \in S : Power[n] \in Nat
  <2>1. /\ Power[0] \in Nat /\ Power[1] \in Nat /\ Power[2] \in Nat
        /\ Power[3] \in Nat /\ Power[4] \in Nat
    BY <1>0, <1>8
  <2>2. Power[5] \in Nat /\ Power[6] \in Nat /\ Power[7] \in Nat /\ Power[8] \in Nat
    BY <1>0, <1>8, <2>1
  <2>. QED
    BY <2>1, <2>2
<1>10. DOMAIN Power = S /\ Power = [n \in S |-> Power[n]]
  BY <1>7
<1>. QED
  BY <1>8, <1>9, <1>10

(* An int has four cells, a word eight.                                    *)
LEMMA Widths ==
  /\ \A n \in 0 .. 8 : Width(n) \in Nat \ {0}
  /\ \A n \in 0 .. 7 : Width(n + 1) = Width(n) * Width(1)
  /\ Width(0) = 1 /\ Width(1) = CellValues /\ Width(1) >= 2
  /\ IntMod = Width(4) /\ WordMod = Width(8)
  /\ IntMod = Width(1) * Width(3) /\ WordMod = IntMod * IntMod
  /\ IntMod >= 16 /\ IntMod > Width(1)
<1>. DEFINE B == CellValues
            P(n) == Power[n]
<1>1. B \in Nat /\ B >= 2
  BY CellAssumption
<1>2. /\ \A n \in 0 .. 8 : Power[n] \in Nat
      /\ Power[0] = 1 /\ \A n \in 1 .. 8 : Power[n] = B * Power[n - 1]
  BY PowerRule
<1>. HIDE DEF B
<1>3. /\ Power[1] = B /\ Power[2] = B * Power[1] /\ Power[3] = B * Power[2]
      /\ Power[4] = B * Power[3] /\ Power[5] = B * Power[4] /\ Power[6] = B * Power[5]
      /\ Power[7] = B * Power[6] /\ Power[8] = B * Power[7]
  BY <1>1, <1>2
<1>4. \A n \in 0 .. 7 : Power[n + 1] = Power[n] * Power[1]
  <2>1. ASSUME NEW n \in 0 .. 7 PROVE Power[n + 1] = Power[n] * Power[1]
    <3>1. n + 1 \in 1 .. 8 /\ (n + 1) - 1 = n /\ Power[n] \in Nat
      BY <1>2
    <3>2. Power[n + 1] = B * Power[n]
      BY <1>2, <3>1
    <3>3. B * Power[n] = Power[n] * B
      BY <1>1, <3>1
    <3>. QED
      BY <1>3, <3>2, <3>3
  <2>. QED
    BY <2>1
<1>5. ASSUME NEW p \in Nat \ {0} PROVE B * p \in Nat \ {0} /\ B * p >= 2 * p
  BY <1>1
<1>6. /\ Power[2] \in Nat \ {0} /\ Power[2] >= 4
      /\ Power[3] \in Nat \ {0} /\ Power[3] >= 8
      /\ Power[4] \in Nat \ {0} /\ Power[4] >= 16
  <2>1. Power[1] \in Nat \ {0} /\ Power[1] >= 2
    BY <1>1, <1>3
  <2>2. Power[2] \in Nat \ {0} /\ Power[2] >= 4
    BY <1>3, <1>5, <2>1
  <2>3. Power[3] \in Nat \ {0} /\ Power[3] >= 8
    BY <1>3, <1>5, <2>2
  <2>4. Power[4] \in Nat \ {0} /\ Power[4] >= 16
    BY <1>3, <1>5, <2>3
  <2>. QED
    BY <2>2, <2>3, <2>4
<1>7. /\ Power[5] \in Nat \ {0} /\ Power[6] \in Nat \ {0} /\ Power[7] \in Nat \ {0}
      /\ Power[8] \in Nat \ {0}
  <2>1. Power[5] \in Nat \ {0}
    BY <1>3, <1>5, <1>6
  <2>2. Power[6] \in Nat \ {0}
    BY <1>3, <1>5, <2>1
  <2>3. Power[7] \in Nat \ {0}
    BY <1>3, <1>5, <2>2
  <2>4. Power[8] \in Nat \ {0}
    BY <1>3, <1>5, <2>3
  <2>. QED
    BY <2>1, <2>2, <2>3, <2>4
<1>8. Power[4] > Power[1]
  <2>1. Power[4] = Power[3] * B /\ Power[3] * B >= 8 * B
    BY <1>1, <1>3, <1>6
  <2>. QED
    BY <1>1, <1>3, <2>1
<1>9. Power[8] = Power[4] * Power[4]
  <2>2. Power[5] = Power[4] * Power[1]
    BY <1>4
  <2>3. \A n \in 1 .. 4 : B * (Power[4] * Power[n]) = Power[4] * (B * Power[n])
    <3>1. ASSUME NEW n \in 1 .. 4 PROVE B * (Power[4] * Power[n]) = Power[4] * (B * Power[n])
      <4>1. Power[4] \in Int /\ Power[n] \in Int /\ B \in Int
        BY <1>1, <1>2
      <4>. QED
        BY <4>1, ProductSwap
    <3>. QED
      BY <3>1
  <2>4. Power[6] = Power[4] * Power[2]
    BY <2>2, <2>3, <1>3
  <2>5. Power[7] = Power[4] * Power[3]
    BY <2>3, <2>4, <1>3
  <2>. QED
    BY <2>3, <2>5, <1>3
<1>10. \A n \in 0 .. 8 : Power[n] \in Nat \ {0}
  BY <1>1, <1>2, <1>3, <1>6, <1>7
<1>. QED
  BY <1>1, <1>2, <1>3, <1>4, <1>6, <1>8, <1>9, <1>10 DEF B, Width, IntMod, WordMod

-----------------------------------------------------------------------------
(* The bits two numbers have in common.                                    *)

(* CommonBits is a function on pairs of numbers, unfolded once.            *)
LEMMA CommonBitsRule ==
  /\ CommonBits \in [Nat -> [Nat -> Nat]]
  /\ \A a, b \in Nat :
       BitAnd(a, b) = IF a = 0 THEN 0
                      ELSE ((a % 2) * (b % 2)) + (2 * BitAnd(a \div 2, b \div 2))
<1>. DEFINE V == [Nat -> Nat]
            R == OpToRel(<, Nat)
            Rule(g, a) == [b \in Nat |-> IF a = 0 THEN 0
                             ELSE (a % 2) * (b % 2) + 2 * g[a \div 2][b \div 2]]
            F == [g \in [Nat -> V] |-> [a \in Nat |-> Rule(g, a)]]
<1>1. ASSUME NEW a \in Nat, a # 0 PROVE a \div 2 \in Nat /\ a \div 2 < a
  BY <1>1
<1>2. F \in [[Nat -> V] -> [Nat -> V]]
  <2>1. ASSUME NEW g \in [Nat -> V], NEW a \in Nat PROVE Rule(g, a) \in V
    <3>1. CASE a = 0
      BY <3>1
    <3>2. CASE a # 0
      <4>1. g[a \div 2] \in V
        BY <3>2, <1>1
      <4>2. \A b \in Nat : b \div 2 \in Nat /\ b % 2 \in Nat
        OBVIOUS
      <4>3. \A b \in Nat : g[a \div 2][b \div 2] \in Nat
        BY <4>1, <4>2
      <4>4. \A b \in Nat : (a % 2) * (b % 2) + 2 * g[a \div 2][b \div 2] \in Nat
        <5>1. ASSUME NEW b \in Nat
              PROVE  (a % 2) * (b % 2) + 2 * g[a \div 2][b \div 2] \in Nat
          <6>1. a % 2 \in Nat /\ b % 2 \in Nat /\ g[a \div 2][b \div 2] \in Nat
            BY <4>2, <4>3
          <6>. DEFINE p == (a % 2) * (b % 2)
                      q == g[a \div 2][b \div 2]
          <6>2. p \in Nat /\ q \in Nat
            BY <6>1, ProductNat
          <6>3. p + 2 * q \in Nat
            <7>. HIDE DEF p, q
            <7>. QED
              BY <6>2
          <6>. QED
            BY <6>3
        <5>. QED
          BY <5>1
      <4>. QED
        BY <3>2, <4>4
    <3>. QED
      BY <3>1, <3>2
  <2>. HIDE DEF V, Rule
  <2>. QED
    BY <2>1
<1>3. IsWellFoundedOn(R, Nat)
  BY NatLessThanWellFounded
<1>4. Determined(F, R, Nat, V)
  <2>1. ASSUME NEW g \in [Nat -> V], NEW h \in [Nat -> V], NEW a \in Nat,
               \A c \in Nat : <<c, a>> \in R => g[c] = h[c]
        PROVE  F[g][a] = F[h][a]
    <3>1. a # 0 => g[a \div 2] = h[a \div 2]
      BY <1>1, <2>1 DEF OpToRel
    <3>2. Rule(g, a) = Rule(h, a)
      BY <3>1
    <3>. HIDE DEF Rule, V
    <3>. QED
      BY <3>2
  <2>. HIDE DEF F, R, V
  <2>. QED
    BY <2>1 DEF Determined
<1>5. V # {}
  <2>1. [b \in Nat |-> 0] \in V
    OBVIOUS
  <2>. QED
    BY <2>1
<1>6. \E g \in [Nat -> V] : g = F[g]
  <2>. HIDE DEF F, R, V
  <2>1. WellDefined(F, R, Nat, V)
    BY <1>2, <1>3, <1>4, <1>5 DEF WellDefined
  <2>. QED
    BY <2>1, RecursiveFunction
<1>7. PICK f \in [Nat -> V] : f = [a \in Nat |-> Rule(f, a)]
  <2>. HIDE DEF V, Rule
  <2>. QED
    BY <1>6
<1>8. CommonBits = [a \in Nat |-> Rule(CommonBits, a)]
  BY <1>7 DEF CommonBits
<1>9. CommonBits \in [Nat -> V]
  <2>. DEFINE T == {a \in Nat : CommonBits[a] \in V}
  <2>1. ASSUME NEW a \in Nat, \A c \in Nat : <<c, a>> \in R => c \in T PROVE a \in T
    <3>0. CommonBits[a] = Rule(CommonBits, a)
      <4>. HIDE DEF Rule
      <4>. QED
        BY <1>8
    <3>1. CASE a = 0
      BY <3>0, <3>1
    <3>2. CASE a # 0
      <4>1. CommonBits[a \div 2] \in V
        BY <1>1, <2>1, <3>2 DEF OpToRel
      <4>. DEFINE k == CommonBits[a \div 2]
      <4>2. ASSUME NEW b \in Nat PROVE (a % 2) * (b % 2) + 2 * k[b \div 2] \in Nat
        <5>1. a % 2 \in Nat /\ b % 2 \in Nat /\ b \div 2 \in Nat
          OBVIOUS
        <5>2. k[b \div 2] \in Nat
          BY <4>1, <5>1
        <5>. DEFINE p == (a % 2) * (b % 2)
                    q == k[b \div 2]
        <5>3. p \in Nat /\ q \in Nat
          BY <5>1, <5>2, ProductNat
        <5>4. p + 2 * q \in Nat
          <6>. HIDE DEF p, q
          <6>. QED
            BY <5>3
        <5>. QED
          BY <5>4
      <4>. QED
        BY <3>0, <3>2, <4>2
    <3>. QED
      BY <3>1, <3>2
  <2>2. Nat \subseteq T
    <3>. HIDE DEF T, R
    <3>. QED
      BY <1>3, <2>1, WellFoundedCover
  <2>3. CommonBits = [a \in Nat |-> CommonBits[a]]
    <3>. HIDE DEF Rule
    <3>. QED
      BY <1>8
  <2>. QED
    BY <2>2, <2>3
<1>10. ASSUME NEW a \in Nat, NEW b \in Nat
       PROVE  BitAnd(a, b) = IF a = 0 THEN 0
                      ELSE ((a % 2) * (b % 2)) + (2 * BitAnd(a \div 2, b \div 2))
  <2>1. CommonBits[a] = Rule(CommonBits, a)
    <3>. HIDE DEF Rule
    <3>. QED
      BY <1>8
  <2>. QED
    BY <2>1 DEF BitAnd
<1>. QED
  BY <1>9, <1>10

(* They are no more than either has.                                       *)
LEMMA BitAndBounds ==
  ASSUME NEW a \in Nat, NEW b \in Nat
  PROVE  BitAnd(a, b) \in Nat /\ BitAnd(a, b) <= a /\ BitAnd(a, b) <= b
<1>. DEFINE R == OpToRel(<, Nat)
            T == {x \in Nat : \A y \in Nat : BitAnd(x, y) \in Nat
                                /\ BitAnd(x, y) <= x /\ BitAnd(x, y) <= y}
<1>1. ASSUME NEW x \in Nat, \A z \in Nat : <<z, x>> \in R => z \in T PROVE x \in T
  <2>1. ASSUME NEW y \in Nat
        PROVE  BitAnd(x, y) \in Nat /\ BitAnd(x, y) <= x /\ BitAnd(x, y) <= y
    <3>1. CASE x = 0
      <4>1. BitAnd(x, y) = 0
        BY <3>1, CommonBitsRule
      <4>. QED
        BY <3>1, <4>1
    <3>2. CASE x # 0
      <4>. DEFINE c == BitAnd(x \div 2, y \div 2)
                  p == (x % 2) * (y % 2)
      <4>1. x \div 2 \in Nat /\ x \div 2 < x /\ y \div 2 \in Nat
        BY <3>2
      <4>2. c \in Nat /\ c <= x \div 2 /\ c <= y \div 2
        BY <1>1, <4>1 DEF OpToRel
      <4>3. BitAnd(x, y) = p + 2 * c
        BY <3>2, CommonBitsRule
      <4>4. /\ x % 2 \in {0, 1} /\ y % 2 \in {0, 1}
            /\ x = 2 * (x \div 2) + (x % 2) /\ y = 2 * (y \div 2) + (y % 2)
        OBVIOUS
      <4>5. p \in Nat /\ p <= x % 2 /\ p <= y % 2
        BY <4>4
      <4>. HIDE DEF c, p
      <4>. QED
        BY <4>1, <4>2, <4>3, <4>4, <4>5
    <3>. QED
      BY <3>1, <3>2
  <2>. QED
    BY <2>1
<1>2. Nat \subseteq T
  <2>1. IsWellFoundedOn(R, Nat)
    BY NatLessThanWellFounded
  <2>. HIDE DEF T, R
  <2>. QED
    BY <1>1, <2>1, WellFoundedCover
<1>. QED
  BY <1>2

(* Of truth values it is the conjunction.                                  *)
LEMMA BitAndTruth ==
  /\ BitAnd(0, 0) = 0 /\ BitAnd(0, 1) = 0 /\ BitAnd(1, 0) = 0 /\ BitAnd(1, 1) = 1
<1>1. BitAnd(0, 0) = 0 /\ BitAnd(0, 1) = 0
  BY CommonBitsRule
<1>2. 1 \div 2 = 0 /\ 0 \div 2 = 0 /\ 1 % 2 = 1 /\ 0 % 2 = 0
  OBVIOUS
<1>3. /\ BitAnd(1, 0) = ((1 % 2) * (0 % 2)) + (2 * BitAnd(1 \div 2, 0 \div 2))
      /\ BitAnd(1, 1) = ((1 % 2) * (1 % 2)) + (2 * BitAnd(1 \div 2, 1 \div 2))
  BY CommonBitsRule
<1>. QED
  BY <1>1, <1>2, <1>3

-----------------------------------------------------------------------------
(* Memory.                                                                 *)

Memories == UNION {[D -> 0 .. Width(1) - 1] : D \in SUBSET Word}

(* A cell of a memory holds a value of a cell.                             *)
LEMMA CellTyped ==
  ASSUME NEW m \in Memories, NEW a
  PROVE  CellAt(m, a) \in 0 .. Width(1) - 1
<1>1. PICK D \in SUBSET Word : m \in [D -> 0 .. Width(1) - 1]
  BY DEF Memories
<1>2. 0 \in 0 .. Width(1) - 1
  BY Widths
<1>. QED
  BY <1>1, <1>2 DEF CellAt

(* One cell more.                                                          *)
LEMMA LoadStep ==
  ASSUME NEW m \in Memories, NEW a \in Nat, NEW n \in 0 .. 7
  PROVE  Load(m, a, n + 1) = Load(m, a, n) + (CellAt(m, (a + n) % WordMod) * Width(n))
<1>. DEFINE T(k) == CellAt(m, (a + k) % WordMod) * Width(k)
            f == [k \in 0 .. (n + 1) - 1 |-> T(k)]
            g == [k \in 0 .. n - 1 |-> T(k)]
            S == 0 .. n - 1
<1>1. DOMAIN f = S \cup {n} /\ DOMAIN g = S /\ n \notin S
  OBVIOUS
<1>2. \A k \in S \cup {n} : f[k] = T(k)
  OBVIOUS
<1>3. \A k \in S : g[k] = T(k)
  OBVIOUS
<1>4. \A k \in S \cup {n} : T(k) \in Int
  <2>1. ASSUME NEW k \in S \cup {n} PROVE T(k) \in Int
    <3>1. CellAt(m, (a + k) % WordMod) \in Nat /\ Width(k) \in Nat
      BY CellTyped, Widths
    <3>. QED
      BY <3>1, ProductNat
  <2>. QED
    BY <2>1
<1>5. IsFiniteSet(S)
  BY FS_Interval
<1>. HIDE DEF T, f, g, S
<1>6. SumFunctionOnSet(f, S \cup {n}) = SumFunctionOnSet(f, S) + f[n]
  <2>1. \A y \in S \cup {n} : f[y] \in Int
    BY <1>2, <1>4
  <2>. QED
    BY <1>1, <1>5, <2>1, SumAdd
<1>7. SumFunctionOnSet(f, S) = SumFunctionOnSet(g, S)
  <2>1. \A y \in S : f[y] = g[y]
    BY <1>2, <1>3
  <2>. QED
    BY <1>5, <2>1, SumSame
<1>8. Load(m, a, n + 1) = SumFunctionOnSet(f, S \cup {n})
  BY <1>1 DEF Load, SumFunction, f, T
<1>9. Load(m, a, n) = SumFunctionOnSet(g, S)
  BY <1>1 DEF Load, SumFunction, g, T
<1>10. f[n] = CellAt(m, (a + n) % WordMod) * Width(n)
  BY <1>2 DEF T
<1>. QED
  BY <1>6, <1>7, <1>8, <1>9, <1>10

(* No cells hold 0.                                                        *)
LEMMA LoadNothing == ASSUME NEW m, NEW a PROVE Load(m, a, 0) = 0
<1>. DEFINE g == [k \in 0 .. 0 - 1 |-> CellAt(m, (a + k) % WordMod) * Width(k)]
<1>1. DOMAIN g = {}
  OBVIOUS
<1>. HIDE DEF g
<1>2. SumFunctionOnSet(g, DOMAIN g) = 0
  BY <1>1, SumEmpty
<1>. QED
  BY <1>2 DEF Load, SumFunction, g

(* What n cells hold is below the width of n cells.                        *)
LEMMA LoadBelow ==
  ASSUME NEW m \in Memories, NEW a \in Nat
  PROVE  \A n \in 0 .. 8 : Load(m, a, n) \in 0 .. Width(n) - 1
<1>. DEFINE In(n) == Load(m, a, n) \in 0 .. Width(n) - 1
            T == {n \in Nat : n <= 8 => In(n)}
<1>1. In(0)
  BY LoadNothing, Widths
<1>2. ASSUME NEW n \in 0 .. 7, In(n) PROVE In(n + 1)
  <2>. DEFINE L == Load(m, a, n)
              c == CellAt(m, (a + n) % WordMod)
              p == Width(n)
              d == Width(1)
  <2>1. Load(m, a, n + 1) = L + (c * p)
    BY LoadStep
  <2>2. Width(n + 1) = p * d /\ p \in Nat \ {0} /\ d \in Nat \ {0}
    BY Widths
  <2>3. c \in 0 .. d - 1
    BY CellTyped
  <2>4. L \in 0 .. p - 1
    BY <1>2
  <2>. HIDE DEF L, c, p, d
  <2>5. c * p \in Nat /\ c * p <= (d - 1) * p
    BY <2>2, <2>3
  <2>6. (d - 1) * p = (p * d) - p
    BY <2>2
  <2>7. p * d \in Nat
    BY <2>2
  <2>8. L + (c * p) \in 0 .. (p * d) - 1
    BY <2>2, <2>4, <2>5, <2>6, <2>7
  <2>. QED
    BY <2>1, <2>2, <2>8
<1>3. Nat \subseteq T
  <2>1. ASSUME NEW n \in Nat, n \in T PROVE n + 1 \in T
    <3>1. CASE n + 1 <= 8
      <4>1. n \in 0 .. 7 /\ In(n)
        BY <2>1, <3>1
      <4>2. In(n + 1)
        <5>. HIDE DEF In
        <5>. QED
          BY <1>2, <4>1
      <4>. QED
        BY <4>2
    <3>2. CASE ~ (n + 1 <= 8)
      BY <3>2
    <3>. QED
      BY <3>1, <3>2
  <2>2. 0 \in T
    BY <1>1
  <2>. HIDE DEF T
  <2>. QED
    BY <2>1, <2>2, NaturalCover
<1>. QED
  BY <1>3

(* Equal cells are loaded as equal.                                        *)
LEMMA LoadSame ==
  ASSUME NEW m \in Memories, NEW p \in Memories, NEW a \in Nat, NEW n \in 0 .. 8,
         \A k \in 0 .. n - 1 :
           CellAt(m, (a + k) % WordMod) = CellAt(p, (a + k) % WordMod)
  PROVE  Load(m, a, n) = Load(p, a, n)
<1>1. [k \in 0 .. n - 1 |-> CellAt(m, (a + k) % WordMod) * Width(k)]
        = [k \in 0 .. n - 1 |-> CellAt(p, (a + k) % WordMod) * Width(k)]
  OBVIOUS
<1>. QED
  BY <1>1 DEF Load

(* The digits of a number, cell by cell, are loaded as the number.         *)
LEMMA LoadDigits ==
  ASSUME NEW m \in Memories, NEW a \in Nat, NEW v \in Int, NEW size \in 0 .. 8,
         \A k \in 0 .. size - 1 :
           CellAt(m, (a + k) % WordMod) = (v \div Width(k)) % Width(1)
  PROVE  Load(m, a, size) = v % Width(size)
<1>. DEFINE Is(n) == Load(m, a, n) = v % Width(n)
            T == {n \in Nat : n <= size => Is(n)}
<1>1. Is(0)
  <2>1. v % 1 = 0
    BY DivUnique
  <2>. QED
    BY <2>1, LoadNothing, Widths
<1>2. ASSUME NEW n \in 0 .. size - 1, Is(n) PROVE Is(n + 1)
  <2>. DEFINE L == Load(m, a, n)
              c == CellAt(m, (a + n) % WordMod)
              p == Width(n)
              d == Width(1)
  <2>0. n \in 0 .. 7
    OBVIOUS
  <2>1. Load(m, a, n + 1) = L + (c * p)
    BY <2>0, LoadStep
  <2>2. Width(n + 1) = p * d /\ p \in Nat \ {0} /\ d \in Nat \ {0}
    BY <2>0, Widths
  <2>3. c = (v \div p) % d /\ c \in Int
    BY CellTyped
  <2>4. L = v % p
    BY <1>2
  <2>. HIDE DEF L, c, p, d
  <2>5. v % (p * d) = (v % p) + (p * ((v \div p) % d))
    BY <2>2, ModDigit
  <2>6. v % (p * d) = L + (p * c)
    BY <2>3, <2>4, <2>5
  <2>7. p * c = c * p
    BY <2>2, <2>3
  <2>8. Load(m, a, n + 1) = v % Width(n + 1)
    BY <2>1, <2>2, <2>6, <2>7
  <2>. QED
    BY <2>8
<1>3. Nat \subseteq T
  <2>1. ASSUME NEW n \in Nat, n \in T PROVE n + 1 \in T
    <3>1. CASE n + 1 <= size
      <4>1. n \in 0 .. size - 1 /\ Is(n)
        BY <2>1, <3>1
      <4>2. Is(n + 1)
        <5>. HIDE DEF Is
        <5>. QED
          BY <1>2, <4>1
      <4>. QED
        BY <4>2
    <3>2. CASE ~ (n + 1 <= size)
      BY <3>2
    <3>. QED
      BY <3>1, <3>2
  <2>2. 0 \in T
    BY <1>1
  <2>. HIDE DEF T
  <2>. QED
    BY <2>1, <2>2, NaturalCover
<1>. QED
  BY <1>3

(* The four lower cells of a word.                                         *)
LEMMA LoadLower ==
  ASSUME NEW m \in Memories, NEW a \in Nat
  PROVE  Load(m, a, 8) % IntMod = Load(m, a, 4)
<1>. DEFINE I == IntMod
            c(n) == CellAt(m, (a + n) % WordMod)
            L(n) == Load(m, a, n)
<1>1. /\ I \in Nat \ {0} /\ Width(4) = I /\ Width(5) = I * Width(1)
      /\ Width(6) = Width(5) * Width(1) /\ Width(7) = Width(6) * Width(1)
  BY Widths, 4 + 1 = 5, 5 + 1 = 6, 6 + 1 = 7
<1>2. \A n \in 0 .. 7 : c(n) \in Int /\ Width(n) \in Int
  BY CellTyped, Widths
<1>3. /\ L(5) = L(4) + (c(4) * Width(4)) /\ L(6) = L(5) + (c(5) * Width(5))
      /\ L(7) = L(6) + (c(6) * Width(6)) /\ L(8) = L(7) + (c(7) * Width(7))
  BY LoadStep, 4 + 1 = 5, 5 + 1 = 6, 6 + 1 = 7, 7 + 1 = 8
<1>4. L(4) \in 0 .. I - 1
  <2>1. \A n \in 0 .. 8 : Load(m, a, n) \in 0 .. Width(n) - 1
    BY LoadBelow
  <2>2. Load(m, a, 4) \in 0 .. Width(4) - 1
    BY <2>1, 4 \in 0 .. 8
  <2>. QED
    BY <1>1, <2>2
<1>. DEFINE w1 == Width(1)
            k5 == c(5) * w1
            k6 == c(6) * (w1 * w1)
            k7 == c(7) * ((w1 * w1) * w1)
            k == c(4) + k5 + k6 + k7
<1>5. /\ c(4) * Width(4) = I * c(4) /\ c(5) * Width(5) = I * k5
      /\ c(6) * Width(6) = I * k6 /\ c(7) * Width(7) = I * k7
      /\ k5 \in Int /\ k6 \in Int /\ k7 \in Int
  <2>1. /\ c(4) \in Int /\ c(5) \in Int /\ c(6) \in Int /\ c(7) \in Int /\ w1 \in Int
    BY <1>2
  <2>. DEFINE w2 == w1 * w1
              w3 == w2 * w1
  <2>2. w2 \in Int /\ w3 \in Int
    BY <2>1
  <2>3. Width(6) = I * w2 /\ Width(7) = I * w3
    <3>. HIDE DEF I
    <3>1. Width(6) = (I * w1) * w1 /\ (I * w1) * w1 = I * w2
      BY <1>1, <2>1
    <3>2. Width(7) = (I * w2) * w1 /\ (I * w2) * w1 = I * w3
      BY <1>1, <2>1, <2>2, <3>1
    <3>. QED
      BY <3>1, <3>2
  <2>4. /\ c(4) * I = I * c(4) /\ c(5) * (I * w1) = I * (c(5) * w1)
        /\ c(6) * (I * w2) = I * (c(6) * w2) /\ c(7) * (I * w3) = I * (c(7) * w3)
    <3>. HIDE DEF I, c, w1, w2, w3
    <3>1. c(4) * I = I * c(4)
      BY <1>1, <2>1
    <3>. QED
      BY <1>1, <2>1, <2>2, <3>1, ProductSwap
  <2>5. c(5) * w1 \in Int /\ c(6) * w2 \in Int /\ c(7) * w3 \in Int
    <3>. HIDE DEF c, w1, w2, w3
    <3>. QED
      BY <2>1, <2>2
  <2>. QED
    BY <1>1, <2>3, <2>4, <2>5
<1>6. c(4) \in Int
  BY <1>2
<1>. HIDE DEF I, c, L, k5, k6, k7, w1
<1>7. L(8) = L(4) + I * k /\ k \in Int
  BY <1>1, <1>3, <1>4, <1>5, <1>6
<1>. HIDE DEF k
<1>8. L(4) \in Int
  BY <1>1, <1>4
<1>9. (L(4) + I * k) % I = L(4) % I
  BY <1>1, <1>7, <1>8, ModShift
<1>10. L(4) % I = L(4)
  BY <1>1, <1>4, ModSmall
<1>11. L(8) % I = L(4)
  BY <1>7, <1>9, <1>10
<1>. QED
  BY <1>11 DEF L, I

-----------------------------------------------------------------------------
(* A store changes the cells of its span, and they hold the digits of the  *)
(* value.                                                                  *)
LEMMA StoreCells ==
  ASSUME NEW m \in Memories, NEW n \in 1 .. 8, NEW a \in Nat, a + n <= WordMod, NEW v \in Int
  PROVE  /\ Store(m, a, n, v) \in Memories
         /\ \A k \in 0 .. n - 1 :
              CellAt(Store(m, a, n, v), a + k) = (v \div Width(k)) % Width(1)
         /\ \A x : x \notin a .. a + n - 1 => CellAt(Store(m, a, n, v), x) = CellAt(m, x)
<1>. DEFINE at == [k \in 0 .. n - 1 |-> (a + k) % WordMod]
            cells == {at[k] : k \in 0 .. n - 1}
            digit(k) == (v \div Width(k)) % Width(1)
            new(x) == (v \div Width(CHOOSE k \in 0 .. n - 1 : at[k] = x)) % Width(1)
            kept(x) == IF x \in cells THEN new(x) ELSE m[x]
            D == {y \in DOMAIN m \cup cells : kept(y) # 0}
<1>0. WordMod \in Nat \ {0}
  BY Widths
<1>1. \A k \in 0 .. n - 1 : at[k] = a + k
  <2>1. ASSUME NEW k \in 0 .. n - 1 PROVE at[k] = a + k
    <3>1. a + k \in 0 .. WordMod - 1
      BY <1>0
    <3>2. (a + k) % WordMod = a + k
      BY <1>0, <3>1, ModSmall
    <3>. QED
      BY <3>2
  <2>. QED
    BY <2>1
<1>. HIDE DEF at
<1>2. cells = a .. a + n - 1
  <2>1. cells \subseteq a .. a + n - 1
    BY <1>1
  <2>2. ASSUME NEW x \in a .. a + n - 1 PROVE x \in cells
    <3>1. x - a \in 0 .. n - 1 /\ a + (x - a) = x
      OBVIOUS
    <3>2. at[x - a] = x
      BY <1>1, <3>1
    <3>. QED
      BY <3>1, <3>2
  <2>. QED
    BY <2>1, <2>2
<1>3. \A k \in 0 .. n - 1 : new(a + k) = digit(k)
  <2>1. ASSUME NEW k \in 0 .. n - 1 PROVE new(a + k) = digit(k)
    <3>1. (CHOOSE j \in 0 .. n - 1 : at[j] = a + k) = k
      BY <1>1
    <3>. QED
      BY <3>1
  <2>. QED
    BY <2>1
<1>4. \A k \in 0 .. n - 1 : digit(k) \in 0 .. Width(1) - 1
  <2>1. ASSUME NEW k \in 0 .. n - 1 PROVE digit(k) \in 0 .. Width(1) - 1
    <3>1. Width(k) \in Nat \ {0} /\ Width(1) \in Nat \ {0}
      BY Widths, k \in 0 .. 8
    <3>2. v \div Width(k) \in Int
      BY <3>1, DivMod
    <3>. QED
      BY <3>1, <3>2, DivMod
  <2>. QED
    BY <2>1
<1>5. PICK E \in SUBSET Word : m \in [E -> 0 .. Width(1) - 1]
  BY DEF Memories
<1>6. \A x \in cells : new(x) \in 0 .. Width(1) - 1 /\ x \in Word
  <2>. HIDE DEF new, digit, cells
  <2>1. ASSUME NEW x \in cells PROVE new(x) \in 0 .. Width(1) - 1 /\ x \in Word
    <3>1. x \in a .. a + n - 1
      BY <1>2
    <3>2. x - a \in 0 .. n - 1 /\ a + (x - a) = x
      BY <3>1
    <3>3. x \in Word
      BY <3>1, <1>0 DEF Word
    <3>. QED
      BY <1>3, <1>4, <3>2, <3>3
  <2>. QED
    BY <2>1
<1>. DEFINE s == [x \in D |-> kept(x)]
<1>7. Store(m, a, n, v) = s
  BY DEF Store, at
<1>8. s \in Memories
  <2>. HIDE DEF new, cells
  <2>1. \A x \in D : x \in Word /\ kept(x) \in 0 .. Width(1) - 1
    BY <1>5, <1>6
  <2>. HIDE DEF D, kept
  <2>2. D \in SUBSET Word /\ s \in [D -> 0 .. Width(1) - 1]
    BY <2>1
  <2>. QED
    BY <2>2 DEF Memories
<1>9. ASSUME NEW k \in 0 .. n - 1 PROVE CellAt(s, a + k) = digit(k)
  <2>. HIDE DEF new, digit, cells
  <2>1. a + k \in cells
    BY <1>2
  <2>2. kept(a + k) = digit(k)
    BY <1>3, <2>1
  <2>. QED
    BY <2>1, <2>2 DEF CellAt
<1>10. ASSUME NEW x, x \notin a .. a + n - 1 PROVE CellAt(s, x) = CellAt(m, x)
  <2>. HIDE DEF new, digit, cells
  <2>1. x \notin cells
    BY <1>2, <1>10
  <2>. QED
    BY <2>1 DEF CellAt
<1>. HIDE DEF s, digit
<1>. QED
  BY <1>7, <1>8, <1>9, <1>10 DEF digit

(* What was stored is loaded, to the width of the span.                    *)
LEMMA LoadStored ==
  ASSUME NEW m \in Memories, NEW n \in 1 .. 8, NEW a \in Nat, a + n <= WordMod, NEW v \in Int
  PROVE  Load(Store(m, a, n, v), a, n) = v % Width(n)
<1>. DEFINE s == Store(m, a, n, v)
<1>1. s \in Memories
  BY StoreCells
<1>2. ASSUME NEW k \in 0 .. n - 1
      PROVE  CellAt(s, (a + k) % WordMod) = (v \div Width(k)) % Width(1)
  <2>1. WordMod \in Nat \ {0} /\ a + k \in 0 .. WordMod - 1
    BY Widths
  <2>2. (a + k) % WordMod = a + k
    BY <2>1, ModSmall
  <2>3. CellAt(s, a + k) = (v \div Width(k)) % Width(1)
    BY StoreCells
  <2>. QED
    BY <2>2, <2>3
<1>. HIDE DEF s
<1>3. n \in 0 .. 8
  OBVIOUS
<1>4. Load(s, a, n) = v % Width(n)
  BY <1>1, <1>2, <1>3, LoadDigits
<1>. QED
  BY <1>4 DEF s

(* A span whose cells are kept holds what it held.                         *)
LEMMA LoadKept ==
  ASSUME NEW m \in Memories, NEW p \in Memories, NEW n \in 1 .. 8,
         NEW a \in Nat, a + n <= WordMod,
         \A x \in a .. a + n - 1 : CellAt(p, x) = CellAt(m, x)
  PROVE  Load(p, a, n) = Load(m, a, n)
<1>1. ASSUME NEW k \in 0 .. n - 1
      PROVE  CellAt(p, (a + k) % WordMod) = CellAt(m, (a + k) % WordMod)
  <2>1. WordMod \in Nat \ {0} /\ a + k \in 0 .. WordMod - 1 /\ a + k \in a .. a + n - 1
    BY Widths
  <2>2. (a + k) % WordMod = a + k
    BY <2>1, ModSmall
  <2>. QED
    BY <2>1, <2>2
<1>2. n \in 0 .. 8
  OBVIOUS
<1>. QED
  BY <1>1, <1>2, LoadSame

-----------------------------------------------------------------------------
(* The variables.                                                          *)

(* A variable lies in the memory, outside the stack.                       *)
LEMMA VariableCells ==
  ASSUME NEW v \in DOMAIN Vars
  PROVE  /\ Size(Vars[v].type) \in {1, 4}
         /\ Location(v) \in Nat /\ Location(v) + Size(Vars[v].type) <= WordMod
         /\ \A x \in Location(v) .. Location(v) + Size(Vars[v].type) - 1 :
              x \in Cells(v) /\ x \in Word /\ (x < StackLimit \/ x >= StackTop)
<1>. DEFINE L == Location(v)
            n == Size(Vars[v].type)
<1>1. n \in {1, 4}
  BY DEF Size
<1>2. Cells(v) \subseteq Word \ (StackLimit .. StackTop - 1)
  BY VarsAssumption
<1>3. \A k \in 0 .. n - 1 : L + k \in Cells(v)
  BY DEF Cells
<1>4. Vars[v].at.disp \in Int
  BY VarsAssumption
<1>5. L \in Int
  <2>1. SymbolAddress[Vars[v].at.base] \in Int \/ Vars[v].at.base = "rbp"
    <3>1. Vars[v].at.base \in {"rbp"} \cup (DOMAIN SymbolAddress \ Registers)
      BY VarsAssumption
    <3>. QED
      BY <3>1, SymbolAssumption DEF Word
  <2>2. StackTop \in Int
    BY StackAssumption
  <2>. QED
    BY <1>4, <2>1, <2>2 DEF Location
<1>. HIDE DEF L, n
<1>6. L + 0 \in Word /\ L + (n - 1) \in Word
  BY <1>1, <1>2, <1>3
<1>7. WordMod \in Nat
  BY Widths
<1>8. L \in Nat /\ L + n <= WordMod
  BY <1>1, <1>5, <1>6, <1>7 DEF Word
<1>9. ASSUME NEW x \in L .. L + n - 1
      PROVE  x \in Cells(v) /\ x \in Word /\ (x < StackLimit \/ x >= StackTop)
  <2>1. x - L \in 0 .. n - 1 /\ L + (x - L) = x /\ x \in Nat
    BY <1>1, <1>8
  <2>2. x \in Cells(v)
    BY <1>3, <2>1
  <2>3. StackLimit \in Nat /\ StackTop \in Nat
    BY StackAssumption
  <2>4. x \in Word /\ x \notin StackLimit .. StackTop - 1
    BY <1>2, <2>2
  <2>5. x < StackLimit \/ x >= StackTop
    BY <2>1, <2>3, <2>4
  <2>. QED
    BY <2>2, <2>4, <2>5
<1>10. L = Location(v) /\ n = Size(Vars[v].type)
  BY DEF L, n
<1>. QED
  BY <1>1, <1>8, <1>9, <1>10

(* Two variables have no cell in common.                                   *)
LEMMA VariablesApart ==
  ASSUME NEW v \in DOMAIN Vars, NEW w \in DOMAIN Vars, NEW x,
         x \in Cells(v), x \in Cells(w)
  PROVE  v = w
<1>1. v # w => Cells(v) \cap Cells(w) = {}
  BY VarsAssumption
<1>. QED
  BY <1>1

(* Filled has in each cell of a variable a digit of its value.             *)
LEMMA FilledCells ==
  ASSUME NEW env \in [DOMAIN Vars -> Int]
  PROVE  /\ Filled(env) \in Memories
         /\ \A v \in DOMAIN Vars : \A k \in 0 .. Size(Vars[v].type) - 1 :
              CellAt(Filled(env), Location(v) + k) = (env[v] \div Width(k)) % Width(1)
<1>. DEFINE digit(v, k) == (env[v] \div Width(k)) % Width(1)
            cell(v, k) == <<Location(v) + k, digit(v, k)>>
            K(v) == 0 .. Size(Vars[v].type) - 1
            all == UNION {{cell(v, k) : k \in K(v)} : v \in DOMAIN Vars}
            cells == {c \in all : c[2] # 0}
            D == {c[1] : c \in cells}
            f == [a \in D |-> (CHOOSE c \in cells : c[1] = a)[2]]
<1>1. Filled(env) = f
  BY DEF Filled
<1>2. ASSUME NEW v \in DOMAIN Vars, NEW k \in K(v)
      PROVE  digit(v, k) \in 0 .. Width(1) - 1
  <2>1. k \in 0 .. 8 /\ env[v] \in Int
    BY VariableCells
  <2>2. Width(k) \in Nat \ {0} /\ Width(1) \in Nat \ {0}
    BY <2>1, Widths
  <2>3. env[v] \div Width(k) \in Int
    BY <2>1, <2>2, DivMod
  <2>. QED
    BY <2>2, <2>3, DivMod
<1>3. ASSUME NEW v \in DOMAIN Vars, NEW k \in K(v)
      PROVE  Location(v) + k \in Word /\ Location(v) + k \in Cells(v)
  <2>1. Location(v) + k \in Location(v) .. Location(v) + Size(Vars[v].type) - 1
    BY VariableCells
  <2>. QED
    BY <2>1, VariableCells
<1>4. ASSUME NEW c \in cells, NEW d \in cells, c[1] = d[1] PROVE c = d
  <2>1. PICK v \in DOMAIN Vars : \E k \in K(v) : c = cell(v, k)
    BY <1>4
  <2>2. PICK k \in K(v) : c = cell(v, k)
    BY <2>1
  <2>3. PICK w \in DOMAIN Vars : \E j \in K(w) : d = cell(w, j)
    BY <1>4
  <2>4. PICK j \in K(w) : d = cell(w, j)
    BY <2>3
  <2>5. c[1] = Location(v) + k /\ d[1] = Location(w) + j
    BY <2>2, <2>4
  <2>6. v = w
    BY <1>3, <1>4, <2>5, VariablesApart
  <2>7. k = j
    <3>1. Location(v) + k = Location(v) + j
      BY <1>4, <2>5, <2>6
    <3>2. Location(v) \in Nat /\ k \in Int /\ j \in Int
      BY VariableCells
    <3>. HIDE DEF cells, K
    <3>. QED
      BY <3>1, <3>2
  <2>. QED
    BY <2>2, <2>4, <2>6, <2>7
<1>. HIDE DEF digit
<1>5. f \in Memories
  <2>1. ASSUME NEW a \in D PROVE a \in Word /\ f[a] \in 0 .. Width(1) - 1
    <3>1. PICK c \in cells : c[1] = a
      BY <2>1
    <3>2. (CHOOSE d \in cells : d[1] = a) \in cells
      BY <3>1
    <3>3. ASSUME NEW d \in cells PROVE d[1] \in Word /\ d[2] \in 0 .. Width(1) - 1
      <4>1. PICK v \in DOMAIN Vars : \E k \in K(v) : d = cell(v, k)
        BY <3>3
      <4>2. PICK k \in K(v) : d = cell(v, k)
        BY <4>1
      <4>3. d[1] = Location(v) + k /\ d[2] = digit(v, k)
        BY <4>2
      <4>. HIDE DEF cells, K
      <4>. QED
        BY <1>2, <1>3, <4>3
    <3>. HIDE DEF cells
    <3>. QED
      BY <3>1, <3>2, <3>3
  <2>. HIDE DEF D
  <2>2. D \in SUBSET Word
    BY <2>1
  <2>3. f = [a \in D |-> f[a]]
    OBVIOUS
  <2>. HIDE DEF f
  <2>4. f \in [D -> 0 .. Width(1) - 1]
    BY <2>1, <2>3
  <2>. QED
    BY <2>2, <2>4 DEF Memories
<1>6. ASSUME NEW v \in DOMAIN Vars, NEW k \in K(v)
      PROVE  CellAt(f, Location(v) + k) = digit(v, k)
  <2>. DEFINE a == Location(v) + k
              c == cell(v, k)
  <2>1. c \in all /\ c[1] = a /\ c[2] = digit(v, k)
    OBVIOUS
  <2>2. CASE digit(v, k) # 0
    <3>1. c \in cells
      BY <2>1, <2>2
    <3>2. a \in D
      BY <2>1, <3>1
    <3>3. (CHOOSE d \in cells : d[1] = a) = c
      <4>. HIDE DEF cells, c, a
      <4>. QED
        BY <1>4, <2>1, <3>1
    <3>. QED
      BY <2>1, <3>2, <3>3 DEF CellAt
  <2>3. CASE digit(v, k) = 0
    <3>1. a \notin D
      <4>1. ASSUME a \in D PROVE FALSE
        <5>1. PICK d \in cells : d[1] = a
          BY <4>1
        <5>2. PICK w \in DOMAIN Vars : \E j \in K(w) : d = cell(w, j)
          BY <5>1
        <5>3. PICK j \in K(w) : d = cell(w, j)
          BY <5>2
        <5>4. Location(w) + j = Location(v) + k /\ d[2] = digit(w, j) /\ d[2] # 0
          BY <5>1, <5>3
        <5>5. v = w
          BY <1>3, <5>4, VariablesApart
        <5>6. k = j
          BY <5>4, <5>5, VariableCells
        <5>. QED
          BY <2>3, <5>4, <5>5, <5>6
      <4>. QED
        BY <4>1
    <3>. QED
      BY <2>3, <3>1 DEF CellAt
  <2>. QED
    BY <2>2, <2>3
<1>. HIDE DEF f
<1>. QED
  BY <1>1, <1>5, <1>6 DEF digit

(* A variable of Filled holds its value, cut to its size.                  *)
LEMMA FilledLoad ==
  ASSUME NEW env \in [DOMAIN Vars -> Int], NEW v \in DOMAIN Vars
  PROVE  Load(Filled(env), Location(v), Size(Vars[v].type))
           = env[v] % Width(Size(Vars[v].type))
<1>. DEFINE m == Filled(env)
            L == Location(v)
            n == Size(Vars[v].type)
            x == env[v]
<1>1. L \in Nat /\ n \in 0 .. 8 /\ L + n <= WordMod /\ x \in Int
  BY VariableCells
<1>2. m \in Memories
  BY FilledCells
<1>3. ASSUME NEW k \in 0 .. n - 1
      PROVE  CellAt(m, (L + k) % WordMod) = (x \div Width(k)) % Width(1)
  <2>1. CellAt(m, L + k) = (x \div Width(k)) % Width(1)
    BY FilledCells
  <2>. HIDE DEF m, L, n, x
  <2>2. WordMod \in Nat \ {0} /\ L + k \in 0 .. WordMod - 1
    BY <1>1, Widths
  <2>3. (L + k) % WordMod = L + k
    BY <2>2, ModSmall
  <2>. QED
    BY <2>1, <2>3
<1>. HIDE DEF m, L, n, x
<1>4. Load(m, L, n) = x % Width(n)
  BY <1>1, <1>2, <1>3, LoadDigits
<1>. QED
  BY <1>4 DEF m, L, n, x

-----------------------------------------------------------------------------
(* Ints, and the words that stand for them.                                *)

Ints == ValuesOf("int")

(* The int of a word, as C sees it.                                        *)
LEMMA IntRange ==
  /\ IntMod \in Nat \ {0} /\ WordMod \in Nat \ {0} /\ WordMod = IntMod * IntMod
  /\ Ints \subseteq Int /\ 0 \in Ints /\ 1 \in Ints
  /\ \A v : v \in Ints <=> v \in Int /\ (IntMod \div 2) - IntMod <= v /\ v < IntMod \div 2
  /\ IntMod \div 2 \in Nat /\ 2 * (IntMod \div 2) <= IntMod
  /\ IntMod < 2 * (IntMod \div 2) + 2 /\ IntMod >= 16
  /\ 16 * IntMod <= WordMod
<1>. DEFINE I == IntMod
            h == IntMod \div 2
<1>1. I \in Nat \ {0} /\ I >= 16 /\ WordMod = I * I
  BY Widths
<1>2. h \in Int /\ (I % 2) \in 0 .. 1 /\ I = 2 * h + (I % 2)
  <2>. HIDE DEF I
  <2>1. /\ I \div 2 \in Int /\ I % 2 \in 0 .. 2 - 1
        /\ I = 2 * (I \div 2) + (I % 2)
    BY <1>1, DivMod
  <2>. QED
    BY <2>1 DEF I
<1>3. Ints = (h - I) .. (h - 1)
  BY DEF Ints, ValuesOf
<1>4. 16 * I <= I * I /\ I * I \in Nat \ {0}
  <2>. HIDE DEF I
  <2>1. (I - 16) * I \in Nat
    BY <1>1, ProductNat
  <2>2. (I - 16) * I = (I * I) - (16 * I)
    BY <1>1
  <2>3. I * I \in Nat
    BY <1>1, ProductNat
  <2>. QED
    BY <1>1, <2>1, <2>2, <2>3
<1>5. h \in Nat /\ 2 * h <= I /\ I < 2 * h + 2 /\ h >= 7
  <2>. DEFINE r == I % 2
  <2>. HIDE DEF I, h, r
  <2>1. r \in 0 .. 1 /\ I = 2 * h + r
    BY <1>2 DEF r
  <2>. QED
    BY <1>1, <1>2, <2>1
<1>. HIDE DEF I, h
<1>6. \A v : v \in Ints <=> v \in Int /\ h - I <= v /\ v < h
  BY <1>1, <1>3, <1>5
<1>7. 0 \in Ints /\ 1 \in Ints /\ Ints \subseteq Int
  BY <1>1, <1>5, <1>6
<1>. QED
  BY <1>1, <1>4, <1>5, <1>6, <1>7 DEF I, h

(* Cutting a number to a word first makes no difference to its int or its  *)
(* char.                                                                   *)
LEMMA CutWord ==
  ASSUME NEW v \in Int
  PROVE  /\ v % WordMod \in Word /\ v % IntMod \in 0 .. IntMod - 1
         /\ (v % WordMod) % IntMod = v % IntMod
         /\ (v % IntMod) % Width(1) = v % Width(1)
<1>1. /\ IntMod \in Nat \ {0} /\ WordMod \in Nat \ {0} /\ WordMod = IntMod * IntMod
      /\ IntMod = Width(1) * Width(3) /\ Width(1) \in Nat \ {0} /\ Width(3) \in Nat \ {0}
  BY Widths
<1>2. v % WordMod \in Word /\ v % IntMod \in 0 .. IntMod - 1
  BY <1>1, DivMod DEF Word
<1>3. (v % (IntMod * IntMod)) % IntMod = v % IntMod
  BY <1>1, ModMod
<1>4. (v % (Width(1) * Width(3))) % Width(1) = v % Width(1)
  BY <1>1, ModMod
<1>. QED
  BY <1>1, <1>2, <1>3, <1>4

(* A number less than the divisor away from 0 is a multiple only as 0.     *)
LEMMA ModZero ==
  ASSUME NEW d \in Nat \ {0}, NEW v \in Int, -d < v, v < d
  PROVE  v % d = 0 <=> v = 0
<1>1. CASE v >= 0
  BY <1>1, ModSmall
<1>2. CASE v < 0
  <2>1. v = d * (-1) + (v + d) /\ v + d \in 0 .. d - 1
    BY <1>2
  <2>2. v % d = v + d
    BY <2>1, -1 \in Int, DivUnique
  <2>. QED
    BY <1>2, <2>2
<1>. QED
  BY <1>1, <1>2

(* Ints are told from 0 by their 4 cells, and by the 8 of their word.      *)
LEMMA IntZero ==
  ASSUME NEW v \in Ints
  PROVE  (v % IntMod = 0 <=> v = 0) /\ (v % WordMod = 0 <=> v = 0)
<1>1. v \in Int /\ -IntMod < v /\ v < IntMod /\ -WordMod < v /\ v < WordMod
  BY IntRange
<1>. QED
  BY <1>1, IntRange, ModZero

(* The int of the lower cells of a number.                                 *)
LEMMA SignedInt ==
  ASSUME NEW r \in 0 .. IntMod - 1
  PROVE  Signed(r, 4) \in Ints /\ Signed(r, 4) % IntMod = r
<1>. DEFINE I == IntMod
            h == IntMod \div 2
            s == Signed(r, 4)
<1>1. s = IF r < h THEN r ELSE r - I
  BY DEF Signed, IntMod
<1>2. I \in Nat \ {0} /\ h \in Nat /\ 2 * h <= I
  BY IntRange
<1>3. \A v : v \in Ints <=> v \in Int /\ h - I <= v /\ v < h
  BY IntRange
<1>4. r \in 0 .. I - 1
  OBVIOUS
<1>. HIDE DEF I, h, s
<1>5. s \in Ints
  BY <1>1, <1>2, <1>3, <1>4
<1>6. s % I = r
  <2>1. CASE r < h
    BY <1>1, <1>2, <1>4, <2>1, ModSmall
  <2>2. CASE ~ (r < h)
    <3>1. s = I * (-1) + r
      BY <1>1, <1>2, <1>4, <2>2
    <3>2. s \in Int
      BY <1>1, <1>2, <1>4
    <3>. QED
      BY <1>2, <1>4, <3>1, <3>2, -1 \in Int, DivUnique
  <2>. QED
    BY <2>1, <2>2
<1>. QED
  BY <1>5, <1>6 DEF I, s

(* An int is the one int with its lower cells.                             *)
LEMMA SignedBack ==
  ASSUME NEW v \in Ints
  PROVE  Signed(v % IntMod, 4) = v
<1>. DEFINE I == IntMod
            h == IntMod \div 2
            r == v % I
            s == Signed(r, 4)
<1>1. s = IF r < h THEN r ELSE r - I
  BY DEF Signed, IntMod
<1>2. I \in Nat \ {0} /\ h \in Nat /\ 2 * h <= I /\ I < 2 * h + 2
  BY IntRange
<1>3. v \in Int /\ h - I <= v /\ v < h
  BY IntRange
<1>4. v >= 0 => r = v
  <2>. HIDE DEF I, h
  <2>. QED
    BY <1>2, <1>3, ModSmall
<1>5. v < 0 => r = v + I
  <2>1. ASSUME v < 0 PROVE r = v + I
    <3>. HIDE DEF I, h
    <3>1. v = I * (-1) + (v + I) /\ v + I \in 0 .. I - 1
      BY <1>2, <1>3, <2>1
    <3>. QED
      BY <1>2, <1>3, <3>1, -1 \in Int, DivUnique
  <2>. QED
    BY <2>1
<1>. HIDE DEF I, h, s, r
<1>6. s = v
  BY <1>1, <1>2, <1>3, <1>4, <1>5
<1>. QED
  BY <1>6 DEF s, r, I

(* What C makes of a number that need not be an int.                       *)
LEMMA ToIntRule ==
  ASSUME NEW v \in Int
  PROVE  ToInt(v) \in Ints /\ ToInt(v) % IntMod = v % IntMod
<1>1. v % IntMod \in 0 .. IntMod - 1
  BY CutWord
<1>. QED
  BY <1>1, SignedInt DEF ToInt

(* A register keeps its upper cells when its lowest is written.            *)
LEMMA UpperKept ==
  ASSUME NEW x \in Word, NEW v \in 0 .. Width(1) - 1,
         NEW upper \in {0, x - (x % Width(1))}
  PROVE  /\ upper + v \in Word
         /\ upper + v < Width(1) => upper + v = v
         /\ (upper + v) % Width(1) = v
<1>. DEFINE W == Width(1)
            p == Width(7)
            q == x \div W
<1>1. W \in Nat \ {0} /\ p \in Nat \ {0} /\ WordMod = p * W
  BY Widths, 7 + 1 = 8
<1>2. x \in Int /\ q \in Int /\ x % W \in 0 .. W - 1 /\ x = W * q + (x % W)
  <2>1. x \in Int
    BY Widths DEF Word
  <2>. QED
    BY <1>1, <2>1, DivMod
<1>3. x >= 0 /\ x < p * W
  BY <1>1, Widths DEF Word
<1>4. q \in 0 .. p - 1
  <2>. DEFINE r == x % W
  <2>. HIDE DEF q, W, p, r
  <2>1. r \in 0 .. W - 1 /\ x = W * q + r
    BY <1>2 DEF r
  <2>2. CASE q < 0
    <3>1. W * q <= W * (-1)
      BY <1>1, <1>2, <2>2
    <3>2. W * (-1) = -W
      BY <1>1
    <3>. DEFINE z == W * q
    <3>3. z \in Int
      BY <1>1, <1>2
    <3>. HIDE DEF z
    <3>4. z <= -W /\ x = z + r
      BY <2>1, <3>1, <3>2 DEF z
    <3>. QED
      BY <1>1, <1>3, <2>1, <3>3, <3>4
  <2>3. CASE q >= p
    <3>1. W * q >= W * p
      BY <1>1, <1>2, <2>3
    <3>2. W * p = p * W
      BY <1>1
    <3>. DEFINE z == W * q
                y == p * W
    <3>3. z \in Int /\ y \in Int
      BY <1>1, <1>2
    <3>. HIDE DEF z, y
    <3>4. z >= y /\ x = z + r /\ x < y
      BY <1>3, <2>1, <3>1, <3>2 DEF z, y
    <3>. QED
      BY <1>1, <2>1, <3>3, <3>4
  <2>. QED
    BY <1>1, <1>2, <2>2, <2>3
<1>5. upper = 0 \/ upper = W * q
  BY <1>1, <1>2
<1>6. PICK k \in 0 .. p - 1 : upper = W * k
  <2>1. 0 = W * 0 /\ 0 \in 0 .. p - 1
    BY <1>1
  <2>. QED
    BY <1>4, <1>5, <2>1
<1>. HIDE DEF W, p, q
<1>7. W * k \in Nat /\ W * k <= W * (p - 1) /\ W * (p - 1) = (p * W) - W
  BY <1>1
<1>8. v \in 0 .. W - 1
  BY DEF W
<1>. DEFINE z == W * k
            y == p * W
<1>9. y \in Nat
  BY <1>1
<1>10. (z + v) % W = v
  <2>1. z + v \in Int /\ k \in Int
    BY <1>1, <1>6, <1>7, <1>8
  <2>. QED
    BY <1>1, <1>8, <2>1, DivUnique
<1>11. z # 0 => z >= W
  <2>1. k = 0 => z = 0
    BY <1>1
  <2>2. k >= 1 => W * k >= W * 1
    BY <1>1
  <2>. QED
    BY <1>1, <2>1, <2>2
<1>. HIDE DEF z, y
<1>12. z \in Nat /\ z <= y - W
  BY <1>7 DEF z, y
<1>13. upper = z
  BY <1>6 DEF z
<1>14. z + v \in 0 .. y - 1 /\ (z + v < W => z + v = v)
  BY <1>1, <1>8, <1>9, <1>11, <1>12
<1>. QED
  BY <1>1, <1>10, <1>13, <1>14 DEF Word, W, y

-----------------------------------------------------------------------------
(* A word w stands for the int v: they have the same lower cells, and when *)
(* exact they are 0 together.                                              *)
Stands(w, v, exact) ==
  w \in Word /\ w % IntMod = v % IntMod /\ (exact => (w = 0 <=> v = 0))

(* The word of an immediate.                                               *)
LEMMA ImmediateStands ==
  ASSUME NEW v \in Ints PROVE Stands(v % WordMod, v, TRUE)
<1>1. v \in Int
  BY IntRange
<1>. QED
  BY <1>1, CutWord, IntZero DEF Stands

(* A word below the width of an int that is the int's remainder.           *)
LEMMA LowerStands ==
  ASSUME NEW v \in Ints PROVE Stands(v % IntMod, v, TRUE)
<1>1. v \in Int /\ IntMod \in Nat \ {0} /\ WordMod \in Nat /\ 16 * IntMod <= WordMod
  BY IntRange
<1>2. v % IntMod \in 0 .. IntMod - 1
  BY <1>1, CutWord
<1>. DEFINE r == v % IntMod
<1>3. r % IntMod = r
  BY <1>1, <1>2, ModSmall
<1>4. r = 0 <=> v = 0
  BY IntZero
<1>. HIDE DEF r
<1>5. r \in Word
  BY <1>1, <1>2 DEF r, Word
<1>6. Stands(r, v, TRUE)
  BY <1>3, <1>4, <1>5 DEF Stands, r
<1>. QED
  BY <1>6 DEF r

(* 0 and 1 stand for themselves: what SET leaves.                          *)
LEMMA TruthStands ==
  ASSUME NEW b \in BOOLEAN
  PROVE  Truth(b) \in Ints /\ Stands(Truth(b), Truth(b), TRUE)
<1>1. Truth(b) \in {0, 1} /\ {0, 1} \subseteq Ints
  BY IntRange DEF Truth
<1>2. Truth(b) \in Word
  BY <1>1, IntRange DEF Word
<1>. QED
  BY <1>1, <1>2 DEF Stands

(* The two operands of an operator, in 4 cells each.                       *)
LEMMA Lower ==
  ASSUME NEW v \in Ints
  PROVE  \E k \in Int : v % IntMod \in 0 .. IntMod - 1 /\ v = IntMod * k + (v % IntMod)
<1>1. v \in Int /\ IntMod \in Nat \ {0}
  BY IntRange
<1>. QED
  BY <1>1, DivMod

(* ADD of the words of two ints leaves a word of their sum.                *)
LEMMA SumStands ==
  ASSUME NEW a \in Ints, NEW b \in Ints
  PROVE  Stands(((a % IntMod) + (b % IntMod)) % WordMod, ToInt(a + b),
                ToInt(a + b) = 0 => a = 0 \/ b = 0)
<1>. DEFINE I == IntMod
            r == a % I
            s == b % I
            v == ToInt(a + b)
            w == (r + s) % WordMod
<1>1. /\ I \in Nat \ {0} /\ WordMod \in Nat \ {0} /\ 16 * I <= WordMod
      /\ a \in Int /\ b \in Int
  BY IntRange
<1>2. PICK j \in Int : r \in 0 .. I - 1 /\ a = I * j + r
  BY Lower
<1>3. PICK k \in Int : s \in 0 .. I - 1 /\ b = I * k + s
  BY Lower
<1>4. (r = 0 <=> a = 0) /\ (s = 0 <=> b = 0)
  BY IntZero
<1>5. v \in Ints /\ v % I = (a + b) % I
  BY <1>1, ToIntRule
<1>6. v % I = 0 <=> v = 0
  BY <1>5, IntZero
<1>. HIDE DEF I, r, s, v, w
<1>7. r + s \in 0 .. WordMod - 1
  BY <1>1, <1>2, <1>3
<1>8. w = r + s
  BY <1>1, <1>7, ModSmall DEF w
<1>9. (a + b) % I = (r + s) % I
  <2>. DEFINE x == I * j
              y == I * k
              z == I * (j + k)
  <2>1. z = x + y /\ x \in Int /\ y \in Int
    BY <1>1, <1>2, <1>3
  <2>. HIDE DEF x, y, z
  <2>2. a + b = (r + s) + z
    BY <1>2, <1>3, <2>1 DEF x, y
  <2>3. ((r + s) + (I * (j + k))) % I = (r + s) % I
    BY <1>1, <1>7, ModShift, r + s \in Int, j + k \in Int
  <2>. QED
    BY <2>2, <2>3 DEF z
<1>10. r = 0 => (r + s) % I = s
  BY <1>1, <1>2, <1>3, ModSmall
<1>11. s = 0 => (r + s) % I = r
  BY <1>1, <1>2, <1>3, ModSmall
<1>12. (v = 0 => a = 0 \/ b = 0) => (w = 0 <=> v = 0)
  BY <1>2, <1>3, <1>4, <1>5, <1>6, <1>8, <1>9, <1>10, <1>11
<1>13. Stands(w, v, v = 0 => a = 0 \/ b = 0)
  BY <1>5, <1>7, <1>8, <1>9, <1>12 DEF Stands, Word, I
<1>. QED
  BY <1>13 DEF w, v, r, s, I

(* SUB leaves a word of their difference.                                  *)
LEMMA DifferenceStands ==
  ASSUME NEW a \in Ints, NEW b \in Ints
  PROVE  Stands(((a % IntMod) - (b % IntMod)) % WordMod, ToInt(a - b), TRUE)
<1>. DEFINE I == IntMod
            r == a % I
            s == b % I
            v == ToInt(a - b)
            w == (r - s) % WordMod
<1>1. /\ I \in Nat \ {0} /\ WordMod \in Nat \ {0} /\ 16 * I <= WordMod
      /\ a \in Int /\ b \in Int
  BY IntRange
<1>2. PICK j \in Int : r \in 0 .. I - 1 /\ a = I * j + r
  BY Lower
<1>3. PICK k \in Int : s \in 0 .. I - 1 /\ b = I * k + s
  BY Lower
<1>5. v \in Ints /\ v % I = (a - b) % I
  BY <1>1, ToIntRule
<1>6. v % I = 0 <=> v = 0
  BY <1>5, IntZero
<1>7. r - s \in Int
  BY <1>2, <1>3
<1>8. w \in Word /\ w % I = (r - s) % I
  BY <1>7, CutWord
<1>. HIDE DEF I, r, s, v
<1>9. (a - b) % I = (r - s) % I
  <2>. DEFINE x == I * j
              y == I * k
              z == I * (j - k)
  <2>1. z = x - y /\ x \in Int /\ y \in Int
    BY <1>1, <1>2, <1>3
  <2>. HIDE DEF x, y, z
  <2>2. a - b = (r - s) + z
    BY <1>2, <1>3, <2>1 DEF x, y
  <2>3. ((r - s) + (I * (j - k))) % I = (r - s) % I
    BY <1>1, <1>7, ModShift, j - k \in Int
  <2>. QED
    BY <2>2, <2>3 DEF z
<1>10. -I < r - s /\ r - s < I /\ -WordMod < r - s /\ r - s < WordMod
  BY <1>1, <1>2, <1>3
<1>11. (r - s) % I = 0 <=> r - s = 0
  BY <1>1, <1>7, <1>10, ModZero
<1>12. w = 0 <=> r - s = 0
  BY <1>1, <1>7, <1>10, ModZero
<1>. HIDE DEF w
<1>13. Stands(w, v, TRUE)
  BY <1>5, <1>6, <1>8, <1>9, <1>11, <1>12 DEF Stands, I
<1>. QED
  BY <1>13 DEF w, v, r, s, I

(* IMUL leaves a word of their product.                                    *)
LEMMA ProductStands ==
  ASSUME NEW a \in Ints, NEW b \in Ints
  PROVE  Stands(((a % IntMod) * (b % IntMod)) % WordMod, ToInt(a * b),
                ToInt(a * b) = 0 => a = 0 \/ b = 0)
<1>. DEFINE I == IntMod
            r == a % I
            s == b % I
            v == ToInt(a * b)
            p == r * s
            w == p % WordMod
<1>1. /\ I \in Nat \ {0} /\ WordMod \in Nat \ {0} /\ WordMod = I * I
      /\ a \in Int /\ b \in Int /\ a * b \in Int
  BY IntRange
<1>2. r \in 0 .. I - 1
  BY <1>1, CutWord
<1>3. s \in 0 .. I - 1
  BY <1>1, CutWord
<1>4. (r = 0 <=> a = 0) /\ (s = 0 <=> b = 0)
  BY IntZero
<1>5. v \in Ints /\ v % I = (a * b) % I
  BY <1>1, ToIntRule
<1>6. v % I = 0 <=> v = 0
  BY <1>5, IntZero
<1>7. p % I = (a * b) % I
  BY <1>1, ModMul
<1>. HIDE DEF I, r, s, v, w
<1>8. p \in Nat /\ p <= (I - 1) * (I - 1) /\ (p = 0 <=> r = 0 \/ s = 0)
  <2>1. p \in Nat
    BY <1>2, <1>3, ProductNat
  <2>2. r * s <= (I - 1) * s /\ (I - 1) * s <= (I - 1) * (I - 1)
    BY <1>1, <1>2, <1>3
  <2>3. p <= (I - 1) * (I - 1)
    <3>1. r * s \in Int /\ (I - 1) * s \in Int /\ (I - 1) * (I - 1) \in Int
      BY <1>1, <1>2, <1>3
    <3>. QED
      BY <2>2, <3>1
  <2>4. p = 0 <=> r = 0 \/ s = 0
    BY <1>2, <1>3
  <2>. QED
    BY <2>1, <2>3, <2>4
<1>9. (I - 1) * (I - 1) = (I * I) - 2 * I + 1 /\ I * I \in Nat
  BY <1>1
<1>. HIDE DEF p
<1>10. p \in 0 .. WordMod - 1
  <2>. DEFINE q == (I - 1) * (I - 1)
              y == I * I
  <2>1. q = y - 2 * I + 1 /\ y \in Nat /\ p <= q /\ WordMod = y
    BY <1>1, <1>8, <1>9
  <2>. HIDE DEF q, y
  <2>. QED
    BY <1>1, <1>8, <2>1
<1>11. w = p
  BY <1>1, <1>10, ModSmall DEF w
<1>12. p = 0 => p % I = 0
  BY <1>1, ModSmall
<1>13. (v = 0 => a = 0 \/ b = 0) => (w = 0 <=> v = 0)
  BY <1>4, <1>5, <1>6, <1>7, <1>8, <1>11, <1>12
<1>14. Stands(w, v, v = 0 => a = 0 \/ b = 0)
  BY <1>5, <1>7, <1>10, <1>11, <1>13 DEF Stands, Word, I
<1>. QED
  BY <1>14 DEF w, v, p, r, s, I

(* NEG leaves a word of the opposite, exact if the operand was.            *)
LEMMA NegationStands ==
  ASSUME NEW w \in Word, NEW v \in Ints, NEW exact \in BOOLEAN, Stands(w, v, exact)
  PROVE  Stands((-w) % WordMod, ToInt(-v), exact)
<1>. DEFINE I == IntMod
            z == (-w) % WordMod
            n == ToInt(-v)
<1>1. /\ I \in Nat \ {0} /\ WordMod \in Nat \ {0} /\ v \in Int /\ -v \in Int
      /\ w \in Int /\ -w \in Int /\ -WordMod < -w /\ -w < WordMod
  BY IntRange DEF Word
<1>2. z \in Word /\ z % I = (-w) % I
  BY <1>1, CutWord
<1>3. z = 0 <=> w = 0
  BY <1>1, ModZero
<1>4. n \in Ints /\ n % I = (-v) % I
  BY <1>1, ToIntRule
<1>5. (-w) % I = (-v) % I
  <2>1. w % I = v % I
    BY DEF Stands
  <2>2. v \div I \in Int /\ v % I \in 0 .. I - 1 /\ v = I * (v \div I) + (v % I)
    BY <1>1, DivMod
  <2>3. w \div I \in Int /\ w % I \in 0 .. I - 1 /\ w = I * (w \div I) + (w % I)
    BY <1>1, DivMod
  <2>. DEFINE j == w \div I
              k == v \div I
              r == v % I
  <2>4. j \in Int /\ k \in Int /\ r \in Int /\ v = I * k + r /\ w = I * j + r
    BY <1>1, <2>1, <2>2, <2>3
  <2>. HIDE DEF I, j, k, r
  <2>. DEFINE x == I * j
              y == I * k
              d == I * (k - j)
  <2>5. d = y - x /\ x \in Int /\ y \in Int
    BY <1>1, <2>4
  <2>. HIDE DEF x, y, d
  <2>6. -w = (-v) + d
    BY <2>4, <2>5, <1>1 DEF x, y
  <2>7. ((-v) + (I * (k - j))) % I = (-v) % I
    BY <1>1, <2>4, ModShift, k - j \in Int
  <2>. QED
    BY <2>6, <2>7 DEF d
<1>6. n = 0 <=> v = 0
  <2>1. n = 0 <=> (-v) % I = 0
    <3>1. n % I = 0 <=> n = 0
      BY <1>4, IntZero
    <3>. HIDE DEF n, I
    <3>. QED
      BY <1>4, <3>1
  <2>2. -I < -v /\ -v < I
    BY IntRange
  <2>3. (-v) % I = 0 <=> -v = 0
    BY <1>1, <2>2, ModZero
  <2>4. -v = 0 <=> v = 0
    BY <1>1
  <2>. HIDE DEF n, I
  <2>. QED
    BY <2>1, <2>3, <2>4
<1>7. exact => (w = 0 <=> v = 0)
  BY DEF Stands
<1>8. z % I = n % I
  <2>. HIDE DEF z, n, I
  <2>. QED
    BY <1>2, <1>4, <1>5
<1>9. exact => (z = 0 <=> n = 0)
  <2>. HIDE DEF z, n
  <2>. QED
    BY <1>3, <1>6, <1>7
<1>. QED
  BY <1>2, <1>8, <1>9 DEF Stands

(* A quotient and a remainder, of operands that are not negative.          *)
LEMMA QuotientStands ==
  ASSUME NEW a \in Ints, NEW b \in Ints, a >= 0, b > 0
  PROVE  /\ a % IntMod = a /\ b % IntMod = b
         /\ a \div b \in Ints /\ a % b \in Ints
         /\ Stands(a \div b, a \div b, TRUE)
         /\ a - ((a \div b) * b) = a % b
         /\ Stands(a % b, a % b, TRUE)
<1>. DEFINE h == IntMod \div 2
            q == a \div b
            r == a % b
<1>1. /\ IntMod \in Nat \ {0} /\ h \in Nat /\ 2 * h <= IntMod
      /\ a \in Int /\ b \in Int /\ a < h /\ b < h
      /\ WordMod \in Nat /\ 16 * IntMod <= WordMod
      /\ \A v : v \in Ints <=> v \in Int /\ h - IntMod <= v /\ v < h
  BY IntRange
<1>2. a \in 0 .. IntMod - 1 /\ b \in 0 .. IntMod - 1
  <2>. HIDE DEF h
  <2>. QED
    BY <1>1
<1>3. a % IntMod = a /\ b % IntMod = b
  BY <1>1, <1>2, ModSmall
<1>4. q \in Int /\ r \in 0 .. b - 1 /\ a = b * q + r
  BY <1>1, DivMod, b \in Nat \ {0}
<1>. HIDE DEF h, q, r
<1>5. q \in 0 .. a
  <2>1. q >= 0
    <3>1. CASE q < 0
      <4>1. b * q <= b * (-1)
        BY <1>1, <1>4, <3>1
      <4>2. b * (-1) = -b
        BY <1>1
      <4>. DEFINE z == b * q
      <4>3. z \in Int
        BY <1>1, <1>4
      <4>. HIDE DEF z
      <4>. QED
        BY <1>1, <1>4, <4>1, <4>2, <4>3 DEF z
    <3>. QED
      BY <1>4, <3>1
  <2>2. b * q >= 1 * q
    BY <1>1, <1>4, <2>1
  <2>. DEFINE z == b * q
  <2>3. z \in Int /\ z >= q
    BY <1>1, <1>4, <2>2
  <2>. HIDE DEF z
  <2>4. a = z + r
    BY <1>4 DEF z
  <2>. QED
    BY <1>1, <1>4, <2>1, <2>3, <2>4
<1>6. r \in 0 .. b - 1 /\ r \in Nat
  BY <1>1, <1>4
<1>7. q \in Ints /\ r \in Ints
  BY <1>1, <1>5, <1>6
<1>8. q \in Word /\ r \in Word
  BY <1>1, <1>5, <1>6 DEF Word
<1>9. Stands(q, q, TRUE) /\ Stands(r, r, TRUE)
  BY <1>8 DEF Stands
<1>10. a - (q * b) = r
  <2>. DEFINE z == b * q
  <2>1. q * b = z /\ z \in Int
    BY <1>1, <1>4
  <2>. HIDE DEF z
  <2>2. a = z + r
    BY <1>4 DEF z
  <2>. QED
    BY <1>6, <2>1, <2>2
<1>. QED
  BY <1>3, <1>7, <1>9, <1>10 DEF q, r

-----------------------------------------------------------------------------
(* The recursive function InC.                                             *)

Outs == [val : Ints, ok : BOOLEAN, exact : BOOLEAN]

(* A char is an int.                                                       *)
LEMMA CharsAreInts ==
  /\ Width(1) \in Nat \ {0} /\ 2 * Width(1) <= IntMod \div 2
  /\ ValuesOf("char") = 0 .. Width(1) - 1 /\ ValuesOf("char") \subseteq Ints
  /\ \A type \in IntTypes : ValuesOf(type) \subseteq Ints
<1>. DEFINE W == Width(1)
            I == IntMod
            p == Width(3)
            h == I \div 2
<1>1. W \in Nat \ {0} /\ p \in Nat \ {0} /\ I = W * p /\ W >= 2
  BY Widths
<1>2. p >= 8
  <2>. DEFINE q == Width(2)
  <2>1. q = W * W /\ p = q * W
    BY Widths, 1 + 1 = 2, 2 + 1 = 3
  <2>. HIDE DEF p, q, W
  <2>2. W * W >= 2 * W /\ 2 * W >= 4
    BY <1>1
  <2>3. q \in Nat /\ q >= 4
    BY <1>1, <2>1, <2>2
  <2>4. q * W >= 4 * W /\ 4 * W >= 8
    BY <1>1, <2>3
  <2>5. q * W \in Nat
    BY <1>1, <2>3
  <2>. QED
    BY <1>1, <2>1, <2>4, <2>5
<1>3. I >= 8 * W
  <2>. HIDE DEF I, W, p
  <2>1. W * p >= W * 8
    BY <1>1, <1>2
  <2>. DEFINE z == W * p
  <2>2. z \in Int
    BY <1>1
  <2>3. W * 8 = 8 * W
    BY <1>1
  <2>. HIDE DEF z
  <2>. QED
    BY <1>1, <2>1, <2>2, <2>3 DEF z
<1>4. I \in Nat \ {0} /\ h \in Nat /\ 2 * h <= I /\ I < 2 * h + 2
  BY IntRange
<1>5. \A v : v \in Ints <=> v \in Int /\ h - I <= v /\ v < h
  BY IntRange
<1>6. ValuesOf("char") = 0 .. W - 1
  BY DEF ValuesOf
<1>. HIDE DEF I, W, p, h
<1>7. 2 * W <= h
  BY <1>1, <1>3, <1>4
<1>8. ValuesOf("char") \subseteq Ints
  BY <1>1, <1>4, <1>5, <1>6, <1>7
<1>9. \A type \in IntTypes : ValuesOf(type) \subseteq Ints
  BY <1>8 DEF IntTypes, Ints
<1>. QED
  BY <1>1, <1>6, <1>7, <1>8, <1>9 DEF I, h, W

(* The variables begin with ints of their types.                           *)
LEMMA EnvTyped ==
  ASSUME NEW env \in Envs
  PROVE  /\ env \in [DOMAIN Vars -> Int]
         /\ \A v \in DOMAIN Vars : env[v] \in Ints /\ env[v] \in ValuesOf(Vars[v].type)
                                   /\ Vars[v].type \in IntTypes
<1>1. /\ env \in [DOMAIN Vars -> ValuesOf("int") \cup ValuesOf("char")]
      /\ \A v \in DOMAIN Vars : env[v] \in ValuesOf(Vars[v].type)
  BY EnvsAssumption
<1>2. ValuesOf("int") \cup ValuesOf("char") \subseteq Int
  BY CharsAreInts, IntRange DEF Ints
<1>3. \A v \in DOMAIN Vars : Vars[v].type \in IntTypes
  BY VarsAssumption
<1>. QED
  BY <1>1, <1>2, <1>3, CharsAreInts

(* C's value of a binary operator is an int.                               *)
LEMMA BinaryTyped ==
  ASSUME NEW kind \in Binary, NEW a \in Ints, NEW b \in Ints
  PROVE  BinaryValue(kind, a, b) \in Ints
<1>1. a \in Int /\ b \in Int /\ 0 \in Ints
  BY IntRange
<1>2. ToInt(a + b) \in Ints /\ ToInt(a - b) \in Ints
  BY <1>1, ToIntRule
<1>3. ToInt(a * b) \in Ints
  BY <1>1, a * b \in Int, ToIntRule
<1>4. \A c \in BOOLEAN : Truth(c) \in Ints
  BY TruthStands
<1>5. b > 0 => a \div b \in Ints /\ a % b \in Ints
  <2>1. ASSUME b > 0 PROVE a \div b \in Ints /\ a % b \in Ints
    <3>1. CASE a >= 0
      BY <2>1, <3>1, QuotientStands
    <3>2. CASE a < 0
      <4>. DEFINE h == IntMod \div 2
                  q == a \div b
                  r == a % b
      <4>1. /\ IntMod \in Nat \ {0} /\ h \in Nat /\ 2 * h <= IntMod
            /\ h - IntMod <= a /\ b < h
            /\ \A v : v \in Ints <=> v \in Int /\ h - IntMod <= v /\ v < h
        BY IntRange
      <4>2. q \in Int /\ r \in 0 .. b - 1 /\ a = b * q + r
        BY <1>1, <2>1, DivMod, b \in Nat \ {0}
      <4>. HIDE DEF h, q, r
      <4>3. q < 0
        <5>1. CASE q >= 0
          <6>1. b * q >= b * 0
            BY <1>1, <2>1, <4>2, <5>1
          <6>2. b * 0 = 0
            BY <1>1
          <6>. DEFINE z == b * q
          <6>3. z \in Int
            BY <1>1, <4>2
          <6>. HIDE DEF z
          <6>. QED
            BY <1>1, <3>2, <4>2, <6>1, <6>2, <6>3 DEF z
        <5>. QED
          BY <4>2, <5>1
      <4>4. q >= a
        <5>1. CASE q < a
          <6>1. q <= a - 1 /\ q <= -1
            BY <1>1, <3>2, <4>2, <5>1
          <6>2. b * q <= 1 * q
            <7>1. (b - 1) * (-q) \in Nat
              BY <1>1, <2>1, <4>2, <6>1, b - 1 \in Nat, -q \in Nat, ProductNat
            <7>2. (b - 1) * (-q) = q - (b * q)
              BY <1>1, <4>2
            <7>. DEFINE z == b * q
                        y == (b - 1) * (-q)
            <7>3. z \in Int /\ y \in Nat /\ y = q - z
              BY <1>1, <4>2, <7>1, <7>2
            <7>. HIDE DEF z, y
            <7>4. z <= q
              BY <4>2, <7>3
            <7>. QED
              BY <4>2, <7>4 DEF z
          <6>. DEFINE z == b * q
          <6>3. b = 1 \/ b >= 2
            BY <1>1, <2>1
          <6>4. CASE b = 1
            <7>1. r = 0 /\ b * q = q
              BY <4>2, <6>4
            <7>. QED
              BY <1>1, <4>2, <5>1, <7>1
          <6>5. CASE b >= 2
            <7>1. (b - 1) * (-(q + 1)) \in Nat
              BY <1>1, <2>1, <4>2, <6>1, b - 1 \in Nat, -(q + 1) \in Nat, ProductNat
            <7>2. (b - 1) * (-(q + 1)) = q + 1 - b - (b * q)
              BY <1>1, <4>2
            <7>. DEFINE y == (b - 1) * (-(q + 1))
            <7>3. z \in Int /\ y \in Nat /\ y = q + 1 - b - z /\ a = z + r
              <8>1. b * q \in Int
                BY <1>1, <4>2
              <8>. QED
                BY <4>2, <7>1, <7>2, <8>1
            <7>. HIDE DEF z, y
            <7>4. a <= q
              BY <1>1, <4>2, <7>3
            <7>. QED
              BY <1>1, <4>2, <5>1, <7>4
          <6>. QED
            BY <6>3, <6>4, <6>5
        <5>. QED
          BY <1>1, <4>2, <5>1
      <4>5. q \in Ints
        BY <1>1, <3>2, <4>1, <4>2, <4>3, <4>4
      <4>6. r \in Ints
        BY <1>1, <2>1, <4>1, <4>2
      <4>. QED
        BY <4>5, <4>6 DEF q, r
    <3>. QED
      BY <1>1, <3>1, <3>2
  <2>. QED
    BY <2>1
<1>6. /\ Truth(a = b) \in Ints /\ Truth(a # b) \in Ints /\ Truth(a > b) \in Ints
      /\ Truth(a >= b) \in Ints /\ Truth(a < b) \in Ints /\ Truth(a <= b) \in Ints
      /\ Truth(a # 0 /\ b # 0) \in Ints /\ Truth(a # 0 \/ b # 0) \in Ints
  BY <1>1, IntRange DEF Truth
<1>7. (IF b > 0 THEN a \div b ELSE 0) \in Ints /\ (IF b > 0 THEN a % b ELSE 0) \in Ints
  BY <1>1, <1>5
<1>. DEFINE Sum == ToInt(a + b)
            Difference == ToInt(a - b)
            Product == ToInt(a * b)
            Q == IF b > 0 THEN a \div b ELSE 0
            R == IF b > 0 THEN a % b ELSE 0
<1>8. BinaryValue(kind, a, b) \in
        {Sum, Difference, Product, Q, R, Truth(a = b), Truth(a # b), Truth(a > b),
         Truth(a >= b), Truth(a < b), Truth(a <= b),
         Truth(a # 0 /\ b # 0), Truth(a # 0 \/ b # 0)}
  <2>1. kind \in {"Plus", "Minus", "Prod", "Div", "Mod", "==", "!=", ">", ">=", "<", "<=",
                  "And", "Or"}
    BY DEF Binary, Arith, Compars, Gates
  <2>. HIDE DEF Sum, Difference, Product, Q, R
  <2>. QED
    BY <2>1 DEF BinaryValue, Sum, Difference, Product, Q, R
<1>9. Sum \in Ints /\ Difference \in Ints /\ Product \in Ints /\ Q \in Ints /\ R \in Ints
  BY <1>2, <1>3, <1>7
<1>. HIDE DEF Sum, Difference, Product, Q, R
<1>. QED
  BY <1>6, <1>8, <1>9

-----------------------------------------------------------------------------
Kinds == Literal \cup {"LValue", "FunctionCall"} \cup Unary \cup Binary

(* The nodes of the tree, one kind at a time.                              *)
LEMMA ExprShape ==
  ASSUME NEW e \in Expr
  PROVE  /\ e.kind \in Kinds
         /\ e.kind \in Literal => e.val \in Ints
         /\ e.kind = "LValue" => e.id \in DOMAIN Vars
         /\ e.kind = "FunctionCall" =>
              e.type \in IntTypes /\ e.val \in ValuesOf(e.type) /\ e.val \in Ints
         /\ e.kind \in Unary => e.sub \in Expr /\ Depth[e.sub] < Depth[e]
         /\ e.kind \in Binary => /\ e.left \in Expr /\ Depth[e.left] < Depth[e]
                                 /\ e.right \in Expr /\ Depth[e.right] < Depth[e]
         /\ Depth[e] \in Nat
<1>1. \/ e.kind \in Literal /\ e.val \in ValuesOf("int")
      \/ e.kind = "LValue" /\ e.id \in DOMAIN Vars
      \/ e.kind = "FunctionCall" /\ e.type \in IntTypes /\ e.val \in ValuesOf(e.type)
      \/ e.kind \in Unary /\ e.sub \in Expr /\ Depth[e.sub] < Depth[e]
      \/ /\ e.kind \in Binary /\ {e.left, e.right} \subseteq Expr
         /\ Depth[e.left] < Depth[e] /\ Depth[e.right] < Depth[e]
  BY ExprAssumption
<1>2. Depth[e] \in Nat
  BY StackAssumption
<1>3. \A type \in IntTypes : ValuesOf(type) \subseteq Ints
  BY CharsAreInts
<1>. QED
  BY <1>1, <1>2, <1>3
  DEF Kinds, Literal, Unary, Binary, Arith, Compars, Gates, Ints

(* C's results are closed under the unary operators.                       *)
LEMMA UnaryTyped ==
  ASSUME NEW kind \in Unary, NEW s \in Outs
  PROVE  UnaryInC(kind, s) \in Outs
<1>1. s.val \in Ints /\ s.ok \in BOOLEAN /\ s.exact \in BOOLEAN
  BY DEF Outs
<1>2. ToInt(-s.val) \in Ints
  BY <1>1, IntRange, ToIntRule
<1>3. Truth(s.val = 0) \in Ints
  BY IntRange DEF Truth
<1>4. [s EXCEPT !.val = ToInt(-@)] \in Outs
  BY <1>2 DEF Outs
<1>5. Out(Truth(s.val = 0), s.ok /\ s.exact, TRUE) \in Outs
  BY <1>1, <1>3 DEF Out, Outs
<1>. QED
  BY <1>4, <1>5 DEF UnaryInC, Unary

(* C's results are closed under the binary operators.                      *)
LEMMA BinaryInCTyped ==
  ASSUME NEW kind \in Binary, NEW a \in Outs, NEW b \in Outs
  PROVE  BinaryInC(kind, a, b) \in Outs
<1>. DEFINE v == BinaryValue(kind, a.val, b.val)
            ok == a.ok /\ b.ok /\ (kind \in {"Div", "Mod"} => a.val >= 0 /\ b.val > 0)
            exact == kind \in {"Plus", "Prod"} /\ v = 0 => a.val = 0 \/ b.val = 0
<1>1. a.val \in Ints /\ a.ok \in BOOLEAN /\ b.val \in Ints /\ b.ok \in BOOLEAN
  BY DEF Outs
<1>2. v \in Ints
  BY <1>1, BinaryTyped
<1>3. ok \in BOOLEAN
  BY <1>1
<1>4. exact \in BOOLEAN
  OBVIOUS
<1>5. BinaryInC(kind, a, b) = Out(v, ok, exact)
  BY DEF BinaryInC
<1>. HIDE DEF v, ok, exact
<1>. QED
  BY <1>2, <1>3, <1>4, <1>5 DEF Out, Outs

(* The rule, for each kind of node.                                        *)
LEMMA RuleIs ==
  ASSUME NEW e, NEW env, NEW g
  PROVE  /\ e.kind \in Literal => InCRule(g, e, env) = Out(e.val, TRUE, TRUE)
         /\ e.kind = "LValue" => InCRule(g, e, env) = Out(env[e.id], TRUE, TRUE)
         /\ e.kind = "FunctionCall" => InCRule(g, e, env) = Out(e.val, TRUE, FALSE)
         /\ e.kind \in Unary => InCRule(g, e, env) = UnaryInC(e.kind, g[e.sub][env])
         /\ e.kind \in Binary =>
              InCRule(g, e, env) = BinaryInC(e.kind, g[e.left][env], g[e.right][env])
BY DEF InCRule, Literal, Unary, Binary, Arith, Compars, Gates

(* A value of C's, if those of the operands are.                           *)
LEMMA RuleTyped ==
  ASSUME NEW e \in Expr, NEW env \in Envs, NEW g,
         \A d \in Expr : Depth[d] < Depth[e] => g[d][env] \in Outs
  PROVE  InCRule(g, e, env) \in Outs
<1>1. ASSUME NEW v \in Ints, NEW ok \in BOOLEAN, NEW exact \in BOOLEAN
      PROVE  Out(v, ok, exact) \in Outs
  BY DEF Out, Outs
<1>2. CASE e.kind \in Literal
  <2>1. Out(e.val, TRUE, TRUE) \in Outs
    BY <1>1, <1>2, ExprShape
  <2>. QED
    BY <1>2, <2>1, RuleIs
<1>3. CASE e.kind = "LValue"
  <2>1. env[e.id] \in Ints
    BY <1>3, ExprShape, EnvTyped
  <2>2. Out(env[e.id], TRUE, TRUE) \in Outs
    BY <1>1, <2>1
  <2>. QED
    BY <1>3, <2>2, RuleIs
<1>4. CASE e.kind = "FunctionCall"
  <2>1. Out(e.val, TRUE, FALSE) \in Outs
    BY <1>1, <1>4, ExprShape
  <2>. QED
    BY <1>4, <2>1, RuleIs
<1>5. CASE e.kind \in Unary
  <2>1. g[e.sub][env] \in Outs
    BY <1>5, ExprShape
  <2>2. UnaryInC(e.kind, g[e.sub][env]) \in Outs
    BY <1>5, <2>1, UnaryTyped
  <2>. QED
    BY <1>5, <2>2, RuleIs
<1>6. CASE e.kind \in Binary
  <2>1. g[e.left][env] \in Outs /\ g[e.right][env] \in Outs
    BY <1>6, ExprShape
  <2>2. BinaryInC(e.kind, g[e.left][env], g[e.right][env]) \in Outs
    BY <1>6, <2>1, BinaryInCTyped
  <2>. QED
    BY <1>6, <2>2, RuleIs
<1>. QED
  BY <1>2, <1>3, <1>4, <1>5, <1>6, ExprShape DEF Kinds

(* InC is what its definition says.                                        *)
THEOREM InCIs ==
  /\ \A e \in Expr, env \in Envs : InC[e][env] = InCRule(InC, e, env)
  /\ \A e \in Expr, env \in Envs : InC[e][env] \in Outs
<1>. DEFINE V == [Envs -> Outs]
            R == {p \in Expr \X Expr : Depth[p[1]] < Depth[p[2]]}
            Rule(g, e) == [env \in Envs |-> InCRule(g, e, env)]
            F == [g \in [Expr -> V] |-> [e \in Expr |-> Rule(g, e)]]
<1>1. ASSUME NEW g, NEW e \in Expr, \A d \in Expr : Depth[d] < Depth[e] => g[d] \in V
      PROVE  Rule(g, e) \in V
  <2>1. \A env \in Envs : InCRule(g, e, env) \in Outs
    BY <1>1, RuleTyped
  <2>. QED
    BY <2>1
<1>2. F \in [[Expr -> V] -> [Expr -> V]]
  <2>1. ASSUME NEW g \in [Expr -> V], NEW e \in Expr PROVE Rule(g, e) \in V
    BY <1>1
  <2>. HIDE DEF V, Rule
  <2>. QED
    BY <2>1
<1>3. IsWellFoundedOn(R, Expr)
  <2>1. \A e \in Expr : Depth[e] \in Nat
    BY ExprShape
  <2>2. ASSUME NEW f \in [Nat -> Expr], \A n \in Nat : <<f[n + 1], f[n]>> \in R
        PROVE  FALSE
    <3>. DEFINE d == [n \in Nat |-> Depth[f[n]]]
    <3>1. d \in [Nat -> Nat]
      BY <2>1
    <3>2. ASSUME NEW n \in Nat PROVE d[n + 1] < d[n]
      <4>1. <<f[n + 1], f[n]>> \in R
        BY <2>2
      <4>2. Depth[f[n + 1]] < Depth[f[n]]
        BY <4>1
      <4>. QED
        BY <4>2
    <3>. HIDE DEF d
    <3>3. \A n \in Nat : <<d[n + 1], d[n]>> \in OpToRel(<, Nat)
      BY <3>1, <3>2 DEF OpToRel
    <3>4. IsWellFoundedOn(OpToRel(<, Nat), Nat)
      BY NatLessThanWellFounded
    <3>. QED
      BY <3>1, <3>3, <3>4 DEF IsWellFoundedOn
  <2>. HIDE DEF R
  <2>. QED
    BY <2>2 DEF IsWellFoundedOn
<1>4. ASSUME NEW g, NEW h, NEW e \in Expr,
             \A d \in Expr : Depth[d] < Depth[e] => g[d] = h[d]
      PROVE  Rule(g, e) = Rule(h, e)
  <2>1. ASSUME NEW env \in Envs PROVE InCRule(g, e, env) = InCRule(h, e, env)
    <3>1. e.kind \in Unary => g[e.sub] = h[e.sub]
      BY <1>4, ExprShape
    <3>2. e.kind \in Binary => g[e.left] = h[e.left] /\ g[e.right] = h[e.right]
      BY <1>4, ExprShape
    <3>3. e.kind \in Kinds
      BY ExprShape
    <3>. DEFINE G == InCRule(g, e, env)
                H == InCRule(h, e, env)
    <3>4. /\ e.kind \in Literal => G = Out(e.val, TRUE, TRUE)
          /\ e.kind = "LValue" => G = Out(env[e.id], TRUE, TRUE)
          /\ e.kind = "FunctionCall" => G = Out(e.val, TRUE, FALSE)
          /\ e.kind \in Unary => G = UnaryInC(e.kind, g[e.sub][env])
          /\ e.kind \in Binary => G = BinaryInC(e.kind, g[e.left][env], g[e.right][env])
      BY RuleIs
    <3>5. /\ e.kind \in Literal => H = Out(e.val, TRUE, TRUE)
          /\ e.kind = "LValue" => H = Out(env[e.id], TRUE, TRUE)
          /\ e.kind = "FunctionCall" => H = Out(e.val, TRUE, FALSE)
          /\ e.kind \in Unary => H = UnaryInC(e.kind, h[e.sub][env])
          /\ e.kind \in Binary => H = BinaryInC(e.kind, h[e.left][env], h[e.right][env])
      BY RuleIs
    <3>. HIDE DEF G, H
    <3>6. G = H
      BY <3>1, <3>2, <3>3, <3>4, <3>5 DEF Kinds
    <3>. QED
      BY <3>6 DEF G, H
  <2>. QED
    BY <2>1
<1>5. Determined(F, R, Expr, V)
  <2>1. ASSUME NEW g \in [Expr -> V], NEW h \in [Expr -> V], NEW e \in Expr,
               \A d \in Expr : <<d, e>> \in R => g[d] = h[d]
        PROVE  F[g][e] = F[h][e]
    <3>1. \A d \in Expr : Depth[d] < Depth[e] => g[d] = h[d]
      BY <2>1
    <3>2. Rule(g, e) = Rule(h, e)
      BY <1>4, <3>1
    <3>. HIDE DEF Rule, V
    <3>. QED
      BY <3>2
  <2>. HIDE DEF F, R, V
  <2>. QED
    BY <2>1 DEF Determined
<1>6. V # {}
  <2>1. Out(0, TRUE, TRUE) \in Outs
    BY IntRange DEF Out, Outs
  <2>2. [env \in Envs |-> Out(0, TRUE, TRUE)] \in V
    BY <2>1
  <2>. QED
    BY <2>2
<1>7. \E g \in [Expr -> V] : g = F[g]
  <2>. HIDE DEF F, R, V
  <2>1. WellDefined(F, R, Expr, V)
    BY <1>2, <1>3, <1>5, <1>6 DEF WellDefined
  <2>. QED
    BY <2>1, RecursiveFunction
<1>8. PICK f \in [Expr -> V] : f = [e \in Expr |-> Rule(f, e)]
  <2>. HIDE DEF V, Rule
  <2>. QED
    BY <1>7
<1>9. InC = [e \in Expr |-> Rule(InC, e)]
  BY <1>8 DEF InC
<1>10. \A e \in Expr : InC[e] \in V
  <2>. DEFINE T == {e \in Expr : InC[e] \in V}
  <2>1. ASSUME NEW e \in Expr, \A d \in Expr : <<d, e>> \in R => d \in T PROVE e \in T
    <3>1. InC[e] = Rule(InC, e)
      <4>. HIDE DEF Rule
      <4>. QED
        BY <1>9
    <3>2. \A d \in Expr : Depth[d] < Depth[e] => InC[d] \in V
      BY <2>1
    <3>3. Rule(InC, e) \in V
      BY <1>1, <3>2
    <3>. HIDE DEF Rule, V
    <3>. QED
      BY <3>1, <3>3
  <2>. HIDE DEF T, R
  <2>2. Expr \subseteq T
    BY <1>3, <2>1, WellFoundedCover
  <2>. QED
    BY <2>2 DEF T
<1>11. ASSUME NEW e \in Expr, NEW env \in Envs
       PROVE  InC[e][env] = InCRule(InC, e, env) /\ InC[e][env] \in Outs
  <2>1. InC[e] = Rule(InC, e)
    <3>. HIDE DEF Rule
    <3>. QED
      BY <1>9
  <2>2. InC[e] \in V
    BY <1>10
  <2>3. Rule(InC, e)[env] = InCRule(InC, e, env)
    OBVIOUS
  <2>4. InC[e][env] \in Outs
    BY <2>2
  <2>. QED
    BY <2>1, <2>3, <2>4
<1>. QED
  BY <1>11

-----------------------------------------------------------------------------
(* States of the machine.  loose: the code is not held to C any more.      *)

FlagSet == {Unspecified} \cup [known : {TRUE}, z : BOOLEAN, l : BOOLEAN]

States == [reg : [Registers -> Word], mem : Memories, flags : FlagSet,
           goto : {Onward, Trapped, To("else")}, loose : BOOLEAN]

AddressIn(s, o) ==
  ((IF o.base \in Registers THEN s.reg[o.base] ELSE SymbolAddress[o.base])
    + o.disp + (IF o.index \in Registers THEN s.reg[o.index] ELSE 0)) % WordMod

ValueIn(s, o) ==
  CASE o.kind = "reg" -> s.reg[o.reg] % Width(o.size)
    [] o.kind = "imm" -> o.imm % WordMod
    [] o.kind = "sym" -> SymbolAddress[o.sym]
    [] o.kind = "mem" -> Load(s.mem, AddressIn(s, o), o.size)

DividesIn(s, o) ==
  s.reg["rdx"] = 0 /\ {s.reg["rax"], ValueIn(s, o)} \subseteq 0 .. WordMod \div 2 - 1

Uppers(s, o) == IF o.size = 1 THEN {0, s.reg[o.reg] - (s.reg[o.reg] % Width(1))} ELSE {0}

MetIn(s, cc) == cc = "always" \/ Holds(cc, s.flags.z, s.flags.l)

(* What the instruction i makes of the state s.                            *)
Pushes(o, s, t) ==
  LET top == (s.reg["rsp"] - 8) % WordMod
  IN  /\ t.mem = Store(s.mem, top, 8, ValueIn(s, o))
      /\ t.reg = [s.reg EXCEPT !["rsp"] = top]
      /\ t.flags = s.flags
Pops(d, s, t) ==
  /\ t.reg = [[s.reg EXCEPT !["rsp"] = (@ + 8) % WordMod]
                EXCEPT ![d.reg] = Load(s.mem, s.reg["rsp"], 8)]
  /\ t.mem = s.mem /\ t.flags = s.flags
Moves(d, o, s, t) ==
  LET v == ValueIn(s, o) % Width(d.size) IN
  /\ t.flags = s.flags
  /\ IF d.kind = "reg"
     THEN /\ \E upper \in Uppers(s, d) : t.reg = [s.reg EXCEPT ![d.reg] = upper + v]
          /\ t.mem = s.mem
     ELSE t.mem = Store(s.mem, AddressIn(s, d), d.size, v) /\ t.reg = s.reg
ComputesIn(d, v, s, t) ==
  t.reg = [s.reg EXCEPT ![d.reg] = v % WordMod] /\ t.flags = Unspecified /\ t.mem = s.mem
DividesBy(o, s, t) ==
  LET a == s.reg["rax"]
      b == ValueIn(s, o)
      quotient == IF b = 0 THEN 0 ELSE a \div b
  IN  /\ \/ /\ t.reg = [s.reg EXCEPT !["rax"] = quotient, !["rdx"] = a - quotient * b]
            /\ t.goto = Onward
         \/ b = 0 /\ t.goto = Trapped /\ t.reg = s.reg
      /\ t.flags = Unspecified /\ t.mem = s.mem
Compares(d, o, s, t) ==
  LET v == ValueIn(s, d)
      w == ValueIn(s, o) % Width(d.size)
  IN  /\ t.flags = Flags(v = w, Signed(v, d.size) < Signed(w, d.size))
      /\ t.reg = s.reg /\ t.mem = s.mem
Meets(d, o, s, t) ==
  LET v == BitAnd(ValueIn(s, d), ValueIn(s, o))
  IN  /\ t.reg = [s.reg EXCEPT ![d.reg] = @ - (@ % Width(d.size)) + v]
      /\ t.flags = IF d.size = 1 THEN Unspecified ELSE Flags(v = 0, Signed(v, 8) < 0)
      /\ t.mem = s.mem
Joins(d, o, s, t) ==
  LET v == ValueIn(s, d) + ValueIn(s, o) - BitAnd(ValueIn(s, d), ValueIn(s, o))
  IN  /\ t.reg = [s.reg EXCEPT ![d.reg] = v]
      /\ t.flags = Flags(v = 0, Signed(v, 8) < 0)
      /\ t.mem = s.mem
Sets(cc, d, s, t) ==
  /\ \E upper \in Uppers(s, d) :
       t.reg = [s.reg EXCEPT ![d.reg] = upper + (IF MetIn(s, cc) THEN 1 ELSE 0)]
  /\ t.mem = s.mem /\ t.flags = s.flags
Jumps(cc, label, s, t) ==
  /\ t.goto = IF MetIn(s, cc) THEN To(label) ELSE Onward
  /\ t.reg = s.reg /\ t.mem = s.mem /\ t.flags = s.flags

Does(i, s, t) ==
  /\ s.goto # Trapped
  /\ t = [reg |-> t.reg, mem |-> t.mem, flags |-> t.flags, goto |-> t.goto,
          loose |-> t.loose]
  /\ t.loose \in BOOLEAN /\ (s.loose => t.loose)
  /\ i[1] \notin {"IDIV", "JUMP"} => t.goto = Onward
  /\ i[1] = "MOV" /\ i[2] = al /\ t.reg["rax"] >= Width(1) => t.loose
  /\ i[1] = "PUSH" => Pushes(i[2], s, t)
  /\ i[1] = "POP" => Pops(i[2], s, t)
  /\ i[1] = "MOV" => Moves(i[2], i[3], s, t)
  /\ i[1] = "ADD" => ComputesIn(i[2], ValueIn(s, i[2]) + ValueIn(s, i[3]), s, t)
  /\ i[1] = "SUB" => ComputesIn(i[2], ValueIn(s, i[2]) - ValueIn(s, i[3]), s, t)
  /\ i[1] = "IMUL" => ComputesIn(i[2], ValueIn(s, i[2]) * ValueIn(s, i[3]), s, t)
  /\ i[1] = "NEG" => ComputesIn(i[2], -ValueIn(s, i[2]), s, t)
  /\ i[1] = "IDIV" => DividesBy(i[2], s, t)
  /\ i[1] = "CMP" => Compares(i[2], i[3], s, t)
  /\ i[1] = "SET" => Sets(i[2], i[3], s, t)
  /\ i[1] = "JUMP" => Jumps(i[2], i[3], s, t)
  /\ i[1] = "AND" => Meets(i[2], i[3], s, t)
  /\ i[1] = "OR" => Joins(i[2], i[3], s, t)

(* The state of Expressions.                                               *)
Current ==
  [reg |-> reg, mem |-> mem, flags |-> flags, goto |-> goto,
   loose |-> dirty \/ ~InC[stmt.expr][stmt.env].ok]

(* Execute changes the state of Expressions as Does says of its            *)
(* instruction.                                                            *)
LEMMA ExecuteDoes ==
  ASSUME Execute, dirty \in BOOLEAN
  PROVE  Does(Head(todo), Current, Current')
<1>. DEFINE i == Head(todo)
            s == Current
            t == Current'
<1>1. /\ s.reg = reg /\ s.mem = mem /\ s.flags = flags /\ s.goto = goto
      /\ t.reg = reg' /\ t.mem = mem' /\ t.flags = flags' /\ t.goto = goto'
      /\ t = [reg |-> t.reg, mem |-> t.mem, flags |-> t.flags, goto |-> t.goto,
              loose |-> t.loose]
      /\ t.loose \in BOOLEAN
  BY DEF Current
<1>2. (s.loose => t.loose) /\ (i[1] = "MOV" /\ i[2] = al /\ t.reg["rax"] >= Width(1) => t.loose)
  BY DEF Execute, Current
<1>3. s.goto # Trapped
  BY <1>1 DEF Execute, Stopped, Trapped
<1>4. \A o : AddressIn(s, o) = Address(o)
  BY <1>1 DEF AddressIn, Address
<1>5. \A o : ValueIn(s, o) = Value(o)
  BY <1>1, <1>4 DEF ValueIn, Value
<1>6. Evaluates(i)
  BY DEF Execute
<1>7. \A cc : MetIn(s, cc) = Met(cc)
  BY <1>1 DEF MetIn, Met
<1>. HIDE DEF i, s, t
<1>8. /\ i[1] \notin {"IDIV", "JUMP"} => t.goto = Onward
      /\ i[1] = "PUSH" => Pushes(i[2], s, t)
      /\ i[1] = "POP" => Pops(i[2], s, t)
  BY <1>1, <1>5, <1>6
  DEF Evaluates, DoPush, DoPop, Falls, Pushes, Pops, DoMov, Computes, DoCmp, DoSet, DoAnd, DoOr
<1>9. i[1] = "MOV" => Moves(i[2], i[3], s, t)
  BY <1>1, <1>4, <1>5, <1>6 DEF Evaluates, DoMov, Falls, Moves, SetReg, Uppers
<1>10. /\ i[1] = "ADD" => ComputesIn(i[2], ValueIn(s, i[2]) + ValueIn(s, i[3]), s, t)
       /\ i[1] = "SUB" => ComputesIn(i[2], ValueIn(s, i[2]) - ValueIn(s, i[3]), s, t)
       /\ i[1] = "IMUL" => ComputesIn(i[2], ValueIn(s, i[2]) * ValueIn(s, i[3]), s, t)
       /\ i[1] = "NEG" => ComputesIn(i[2], -ValueIn(s, i[2]), s, t)
  BY <1>1, <1>5, <1>6 DEF Evaluates, Computes, Falls, ComputesIn
<1>11. i[1] = "IDIV" => DividesBy(i[2], s, t)
  BY <1>1, <1>5, <1>6 DEF Evaluates, DoIdiv, Falls, DividesBy
<1>12. i[1] = "CMP" => Compares(i[2], i[3], s, t)
  BY <1>1, <1>5, <1>6 DEF Evaluates, DoCmp, Falls, Compares
<1>13. i[1] = "SET" => Sets(i[2], i[3], s, t)
  BY <1>1, <1>6, <1>7 DEF Evaluates, DoSet, Falls, Sets, SetReg, Uppers
<1>14. i[1] = "JUMP" => Jumps(i[2], i[3], s, t)
  BY <1>1, <1>6, <1>7 DEF Evaluates, DoJump, Jumps
<1>15. i[1] = "AND" => Meets(i[2], i[3], s, t)
  BY <1>1, <1>5, <1>6 DEF Evaluates, DoAnd, Falls, Meets
<1>16. i[1] = "OR" => Joins(i[2], i[3], s, t)
  BY <1>1, <1>5, <1>6 DEF Evaluates, DoOr, Falls, Joins
<1>17. Does(i, s, t)
  BY <1>1, <1>2, <1>3, <1>8, <1>9, <1>10, <1>11, <1>12, <1>13, <1>14, <1>15, <1>16 DEF Does
<1>. QED
  BY <1>17 DEF i, s, t

-----------------------------------------------------------------------------
(* What each instruction does to a state.                                  *)

(* Words are the numbers below WordMod, each its own remainder.            *)
LEMMA WordIs ==
  /\ WordMod \in Nat \ {0} /\ Width(8) = WordMod /\ 0 \in Word
  /\ \A x \in Word : x \in Nat /\ x < WordMod /\ x % WordMod = x
<1>1. WordMod \in Nat \ {0} /\ Width(8) = WordMod
  BY Widths
<1>2. ASSUME NEW x \in Word PROVE x \in Nat /\ x < WordMod /\ x % WordMod = x
  <2>1. x \in 0 .. WordMod - 1
    BY DEF Word
  <2>2. x % WordMod = x
    BY <1>1, <2>1, ModSmall
  <2>. QED
    BY <1>1, <2>1, <2>2
<1>3. 0 \in Word
  BY <1>1 DEF Word
<1>. QED
  BY <1>1, <1>2, <1>3

(* The parts of a state, and the words in its registers.                   *)
LEMMA StateParts ==
  ASSUME NEW s \in States
  PROVE  /\ s.reg \in [Registers -> Word] /\ s.mem \in Memories /\ s.flags \in FlagSet
         /\ s.loose \in BOOLEAN
         /\ \A r \in Registers : s.reg[r] \in Word /\ s.reg[r] \in Nat
                                 /\ s.reg[r] % Width(8) = s.reg[r]
<1>1. /\ s.reg \in [Registers -> Word] /\ s.mem \in Memories /\ s.flags \in FlagSet
      /\ s.loose \in BOOLEAN
  BY DEF States
<1>2. ASSUME NEW r \in Registers
      PROVE  s.reg[r] \in Word /\ s.reg[r] \in Nat /\ s.reg[r] % Width(8) = s.reg[r]
  <2>. DEFINE x == s.reg[r]
  <2>1. x \in Word
    BY <1>1
  <2>. HIDE DEF x
  <2>2. x \in Nat /\ x \in 0 .. WordMod - 1 /\ WordMod \in Nat \ {0}
    BY <2>1, Widths DEF Word
  <2>3. x % WordMod = x
    BY <2>2, ModSmall
  <2>. QED
    BY <2>1, <2>2, <2>3 DEF x, WordMod
<1>. QED
  BY <1>1, <1>2

(* t is s with another value in a register.                                *)
Writes(s, t, r, v) ==
  /\ t \in States /\ t.goto = Onward /\ (s.loose => t.loose)
  /\ t.mem = s.mem /\ t.reg = [s.reg EXCEPT ![r] = v]

(* An instruction that only changes one register writes it.                *)
LEMMA WritesIf ==
  ASSUME NEW s \in States, NEW i, NEW t, Does(i, s, t), NEW r \in Registers, NEW v \in Word,
         t.reg = [s.reg EXCEPT ![r] = v], t.mem = s.mem, t.flags \in FlagSet,
         t.goto = Onward
  PROVE  Writes(s, t, r, v)
<1>1. t = [reg |-> t.reg, mem |-> t.mem, flags |-> t.flags, goto |-> t.goto,
           loose |-> t.loose] /\ t.loose \in BOOLEAN /\ (s.loose => t.loose)
  BY DEF Does
<1>2. t.reg \in [Registers -> Word] /\ t.mem \in Memories
  BY StateParts
<1>3. t \in States
  BY <1>1, <1>2 DEF States
<1>. QED
  BY <1>1, <1>3 DEF Writes

(* A word more on the stack.                                               *)
LEMMA PushDoes ==
  ASSUME NEW s \in States, NEW o, NEW t, Does(Push(o), s, t), ValueIn(s, o) \in Word,
         s.reg["rsp"] \in 8 .. StackTop
  PROVE  /\ t \in States /\ t.goto = Onward /\ (s.loose => t.loose)
         /\ t.reg = [s.reg EXCEPT !["rsp"] = s.reg["rsp"] - 8]
         /\ Load(t.mem, s.reg["rsp"] - 8, 8) = ValueIn(s, o)
         /\ \A x : x \notin s.reg["rsp"] - 8 .. s.reg["rsp"] - 1 =>
                     CellAt(t.mem, x) = CellAt(s.mem, x)
<1>. DEFINE p == s.reg["rsp"] - 8
            v == ValueIn(s, o)
<1>1. StackTop + 8 \in Word /\ StackTop \in Nat /\ WordMod \in Nat \ {0}
  BY StackAssumption, Widths
<1>2. p \in 0 .. WordMod - 1 /\ p + 8 <= WordMod /\ p \in Nat /\ p \in Word
  BY <1>1 DEF Word
<1>3. p % WordMod = p
  BY <1>1, <1>2, ModSmall
<1>4. /\ t.mem = Store(s.mem, p, 8, v) /\ t.reg = [s.reg EXCEPT !["rsp"] = p]
      /\ t.flags = s.flags /\ t.goto = Onward /\ t.loose \in BOOLEAN
      /\ (s.loose => t.loose)
      /\ t = [reg |-> t.reg, mem |-> t.mem, flags |-> t.flags, goto |-> t.goto,
              loose |-> t.loose]
  BY <1>3 DEF Does, Push, Pushes
<1>5. v \in Int /\ v \in 0 .. WordMod - 1 /\ s.mem \in Memories
  BY <1>1, StateParts DEF Word
<1>6. v % Width(8) = v
  BY <1>1, <1>5, ModSmall DEF WordMod
<1>7. t.reg \in [Registers -> Word]
  BY <1>2, <1>4, StateParts
<1>. HIDE DEF p, v
<1>8. t.mem \in Memories
  BY <1>2, <1>4, <1>5, StoreCells, 8 \in 1 .. 8
<1>9. t \in States
  BY <1>4, <1>7, <1>8, StateParts DEF States
<1>10. Load(t.mem, p, 8) = v
  BY <1>2, <1>4, <1>5, <1>6, LoadStored, 8 \in 1 .. 8
<1>11. \A x : x \notin p .. p + 8 - 1 => CellAt(t.mem, x) = CellAt(s.mem, x)
  BY <1>2, <1>4, <1>5, StoreCells, 8 \in 1 .. 8
<1>12. s.reg["rsp"] - 1 = p + 8 - 1
  BY <1>1 DEF p
<1>. QED
  BY <1>4, <1>9, <1>10, <1>11, <1>12 DEF p, v

(* A word less.                                                            *)
LEMMA PopDoes ==
  ASSUME NEW s \in States, NEW r \in {"rax", "rsi"}, NEW t, Does(Pop(Reg(r, 8)), s, t),
         s.reg["rsp"] \in 0 .. StackTop - 8
  PROVE  /\ t \in States /\ t.goto = Onward /\ (s.loose => t.loose) /\ t.mem = s.mem
         /\ t.reg["rsp"] = s.reg["rsp"] + 8 /\ t.reg["rbp"] = s.reg["rbp"]
         /\ t.reg[r] = Load(s.mem, s.reg["rsp"], 8)
<1>. DEFINE p == s.reg["rsp"] + 8
            v == Load(s.mem, s.reg["rsp"], 8)
<1>1. StackTop + 8 \in Word /\ StackTop \in Nat /\ WordMod \in Nat \ {0}
  BY StackAssumption, Widths
<1>2. p \in 0 .. WordMod - 1 /\ p \in Word
  BY <1>1 DEF Word
<1>3. p % WordMod = p
  BY <1>1, <1>2, ModSmall
<1>4. /\ t.reg = [[s.reg EXCEPT !["rsp"] = p] EXCEPT ![r] = v]
      /\ t.mem = s.mem /\ t.flags = s.flags /\ t.goto = Onward /\ t.loose \in BOOLEAN
      /\ (s.loose => t.loose)
      /\ t = [reg |-> t.reg, mem |-> t.mem, flags |-> t.flags, goto |-> t.goto,
              loose |-> t.loose]
  BY <1>3 DEF Does, Pop, Pops, Reg
<1>5. v \in Word
  <2>. DEFINE m == s.mem
              x == s.reg["rsp"]
  <2>1. m \in Memories /\ x \in Nat
    BY StateParts DEF Registers
  <2>. HIDE DEF m, x
  <2>2. \A n \in 0 .. 8 : Load(m, x, n) \in 0 .. Width(n) - 1
    BY <2>1, LoadBelow
  <2>3. v \in 0 .. Width(8) - 1
    BY <2>2, 8 \in 0 .. 8 DEF m, x
  <2>. QED
    BY <2>3 DEF Word, WordMod
<1>. HIDE DEF p, v
<1>6. r \in Registers /\ "rsp" \in Registers /\ "rbp" \in Registers
  BY DEF Registers
<1>7. t.reg \in [Registers -> Word]
  BY <1>2, <1>4, <1>5, <1>6, StateParts
<1>8. t \in States
  BY <1>4, <1>7, StateParts DEF States
<1>9. t.reg["rsp"] = p /\ t.reg["rbp"] = s.reg["rbp"] /\ t.reg[r] = v
  BY <1>4, <1>6, StateParts
<1>. QED
  BY <1>4, <1>8, <1>9 DEF p, v

(* MOV of 0 writes 0 and leaves the flags.                                 *)
LEMMA MoveZero ==
  ASSUME NEW s \in States, NEW r \in Registers, NEW t, Does(Mov(Reg(r, 8), Imm(0)), s, t)
  PROVE  Writes(s, t, r, 0) /\ t.flags = s.flags
<1>1. WordMod \in Nat \ {0} /\ 0 % WordMod = 0 /\ 0 \in Word /\ Width(8) = WordMod
  BY WordIs
<1>2. ValueIn(s, Imm(0)) = 0
  BY <1>1 DEF ValueIn, Imm
<1>3. t.reg = [s.reg EXCEPT ![r] = 0] /\ t.mem = s.mem /\ t.flags = s.flags
  BY <1>1, <1>2 DEF Does, Mov, Moves, Reg, Uppers
<1>4. t.goto = Onward
  BY DEF Does, Mov
<1>. QED
  BY <1>1, <1>3, <1>4, StateParts, WritesIf

(* MOV of a symbol writes its address: the format handed to printf.        *)
LEMMA MoveSymbol ==
  ASSUME NEW s \in States, NEW f \in DOMAIN SymbolAddress, NEW t,
         Does(Mov(rdi, Sym(f)), s, t)
  PROVE  Writes(s, t, "rdi", SymbolAddress[f])
<1>. DEFINE a == SymbolAddress[f]
<1>1. a \in Word
  BY SymbolAssumption
<1>2. a % Width(8) = a
  BY <1>1, WordIs
<1>3. ValueIn(s, Sym(f)) = a
  BY DEF ValueIn, Sym
<1>. HIDE DEF a
<1>4. a \in Nat
  BY <1>1, Widths DEF Word
<1>5. t.reg = [s.reg EXCEPT !["rdi"] = a] /\ t.mem = s.mem /\ t.flags = s.flags
  BY <1>2, <1>3, <1>4 DEF Does, Mov, Moves, Reg, Uppers, rdi
<1>6. t.goto = Onward
  BY DEF Does, Mov
<1>7. Writes(s, t, "rdi", a)
  BY <1>1, <1>5, <1>6, StateParts, WritesIf, "rdi" \in Registers DEF Registers
<1>. QED
  BY <1>7 DEF a

(* Four cells of a word near the top of the stack.                         *)
LEMMA MoveTop ==
  ASSUME NEW s \in States, NEW r \in {"rax", "rbx"}, NEW d \in {0, 8}, NEW t,
         Does(Mov(Reg(r, 4), At("rsp", d, 4)), s, t), s.reg["rsp"] + d <= StackTop
  PROVE  /\ Writes(s, t, r, Load(s.mem, s.reg["rsp"] + d, 4))
         /\ Load(s.mem, s.reg["rsp"] + d, 4) \in 0 .. IntMod - 1
         /\ Load(s.mem, s.reg["rsp"] + d, 4) = Load(s.mem, s.reg["rsp"] + d, 8) % IntMod
<1>. DEFINE p == s.reg["rsp"] + d
            v == Load(s.mem, p, 4)
<1>1. StackTop + 8 \in Word /\ StackTop \in Nat /\ WordMod \in Nat \ {0}
  BY StackAssumption, Widths
<1>2. p \in 0 .. WordMod - 1 /\ p \in Nat
  BY <1>1, StateParts, "rsp" \in Registers DEF Word, Registers
<1>3. p % WordMod = p
  BY <1>1, <1>2, ModSmall
<1>4. AddressIn(s, At("rsp", d, 4)) = p
  <2>1. "rsp" \in Registers /\ "none" \notin Registers
    BY DEF Registers
  <2>2. AddressIn(s, At("rsp", d, 4)) = (s.reg["rsp"] + d + 0) % WordMod
    BY <2>1 DEF AddressIn, At
  <2>3. s.reg["rsp"] + d + 0 = p
    BY <2>1, StateParts
  <2>. QED
    BY <1>3, <2>2, <2>3
<1>5. ValueIn(s, At("rsp", d, 4)) = v
  BY <1>4 DEF ValueIn, At
<1>6. v \in 0 .. Width(4) - 1
  <2>1. \A n \in 0 .. 8 : Load(s.mem, p, n) \in 0 .. Width(n) - 1
    BY <1>2, StateParts, LoadBelow
  <2>. QED
    BY <2>1, 4 \in 0 .. 8
<1>7. v = Load(s.mem, p, 8) % IntMod
  BY <1>2, StateParts, LoadLower
<1>. HIDE DEF p, v
<1>8. v % Width(4) = v /\ v \in Nat
  BY <1>6, Widths, ModSmall, 4 \in 0 .. 8
<1>9. t.reg = [s.reg EXCEPT ![r] = v] /\ t.mem = s.mem /\ t.flags = s.flags
  BY <1>5, <1>8 DEF Does, Mov, Moves, Reg, Uppers
<1>10. t.goto = Onward
  BY DEF Does, Mov
<1>11. v \in Word
  BY <1>6, IntRange DEF Word, IntMod
<1>12. r \in Registers
  BY DEF Registers
<1>13. Writes(s, t, r, v)
  BY <1>9, <1>10, <1>11, <1>12, StateParts, WritesIf
<1>. QED
  BY <1>6, <1>7, <1>13 DEF v, p, IntMod

-----------------------------------------------------------------------------
(* The operand of a variable is its place in memory.                       *)
LEMMA PlaceIs ==
  ASSUME NEW s \in States, NEW v \in DOMAIN Vars, s.reg["rbp"] = StackTop + 8
  PROVE  /\ AddressIn(s, Place(v)) = Location(v)
         /\ Place(v).kind = "mem" /\ Place(v).size = Size(Vars[v].type)
<1>. DEFINE at == Vars[v].at
            o == Place(v)
<1>1. at \in [kind : {"mem"}, disp : Int, index : {"none"}, size : {8},
              base : {"rbp"} \cup (DOMAIN SymbolAddress \ Registers)]
  BY VarsAssumption
<1>2. /\ o.kind = "mem" /\ o.disp = at.disp /\ o.index = "none" /\ o.base = at.base
      /\ o.size = Size(Vars[v].type)
  BY <1>1 DEF Place
<1>3. "rbp" \in Registers /\ "none" \notin Registers
  BY DEF Registers
<1>4. Location(v) \in Word
  <2>1. Location(v) \in Location(v) .. Location(v) + Size(Vars[v].type) - 1
    BY VariableCells
  <2>. QED
    BY <2>1, VariableCells
<1>5. at.disp \in Int /\ at.base \in {"rbp"} \cup (DOMAIN SymbolAddress \ Registers)
  BY <1>1
<1>. DEFINE b == IF at.base = "rbp" THEN StackTop + 8 ELSE SymbolAddress[at.base]
            d == at.disp
<1>6. b \in Int
  <2>1. at.base # "rbp" => SymbolAddress[at.base] \in Word
    BY <1>5, SymbolAssumption
  <2>. QED
    BY <2>1, WordIs, StackAssumption
<1>7. Location(v) = b + d
  BY DEF Location
<1>8. AddressIn(s, o) = (b + d + 0) % WordMod
  <2>1. (IF at.base \in Registers THEN s.reg[at.base] ELSE SymbolAddress[at.base]) = b
    BY <1>3, <1>5
  <2>. HIDE DEF o, at, b
  <2>. QED
    BY <1>2, <1>3, <2>1 DEF AddressIn
<1>. HIDE DEF b, d, o, at
<1>9. b + d + 0 = Location(v)
  BY <1>5, <1>6, <1>7 DEF d
<1>. QED
  BY <1>2, <1>4, <1>8, <1>9, WordIs DEF o

(* A variable is read into rax.                                            *)
LEMMA ReadDoes ==
  ASSUME NEW s \in States, NEW v \in DOMAIN Vars, NEW t,
         Does(Mov(Acc(Vars[v].type), Place(v)), s, t), s.reg["rbp"] = StackTop + 8
  PROVE  /\ Writes(s, t, "rax", t.reg["rax"]) /\ t.reg["rax"] \in Word
         /\ ~t.loose =>
              t.reg["rax"] = Load(s.mem, Location(v), Size(Vars[v].type))
<1>. DEFINE n == Size(Vars[v].type)
            x == Load(s.mem, Location(v), n)
            a == Acc(Vars[v].type)
            W == Width(n)
<1>1. Vars[v].type \in IntTypes
  BY VarsAssumption
<1>2. a.kind = "reg" /\ a.reg = "rax" /\ a.size = n /\ n \in {1, 4} /\ (n = 1 => a = al)
  BY <1>1 DEF Acc, Size, eax, al, Reg, IntTypes
<1>3. x \in 0 .. W - 1 /\ W \in Nat \ {0} /\ x < W
  <2>1. \A k \in 0 .. 8 : Load(s.mem, Location(v), k) \in 0 .. Width(k) - 1
    BY StateParts, VariableCells, LoadBelow
  <2>2. n \in 0 .. 8
    BY <1>2
  <2>3. x \in 0 .. W - 1 /\ W \in Nat \ {0}
    BY <2>1, <2>2, Widths
  <2>. HIDE DEF x, W
  <2>. QED
    BY <2>3
<1>4. ValueIn(s, Place(v)) = x
  <2>1. /\ Place(v).kind = "mem" /\ AddressIn(s, Place(v)) = Location(v)
        /\ Place(v).size = n
    BY PlaceIs
  <2>. QED
    BY <2>1 DEF ValueIn
<1>5. x % W = x
  <2>. HIDE DEF x, W
  <2>. QED
    BY <1>3, ModSmall
<1>. HIDE DEF x, W
<1>6. /\ \E upper \in Uppers(s, a) : t.reg = [s.reg EXCEPT !["rax"] = upper + x]
      /\ t.mem = s.mem /\ t.flags = s.flags /\ t.goto = Onward
      /\ (n = 1 /\ t.reg["rax"] >= Width(1) => t.loose)
  <2>. HIDE DEF a, n
  <2>1. Moves(a, Place(v), s, t) /\ t.goto = Onward
    BY DEF Does, Mov, a
  <2>2. n = 1 /\ t.reg["rax"] >= Width(1) => t.loose
    BY <1>2 DEF Does, Mov, a
  <2>. QED
    BY <1>2, <1>4, <1>5, <2>1, <2>2 DEF Moves, W
<1>7. PICK upper \in Uppers(s, a) : t.reg = [s.reg EXCEPT !["rax"] = upper + x]
  BY <1>6
<1>8. "rax" \in Registers
  BY DEF Registers
<1>9. t.reg["rax"] = upper + x
  BY <1>7, <1>8, StateParts
<1>10. upper + x \in Word /\ (n = 4 \/ upper + x < Width(1) => upper + x = x)
  <2>1. CASE n = 4
    <3>1. upper = 0
      BY <1>2, <1>7, <2>1 DEF Uppers
    <3>2. x \in Word /\ x \in Int
      BY <1>3, <2>1, IntRange DEF W, Word, IntMod
    <3>. QED
      BY <3>1, <3>2
  <2>2. CASE n = 1
    <3>1. upper \in {0, s.reg["rax"] - (s.reg["rax"] % Width(1))}
      BY <1>2, <1>7, <2>2 DEF Uppers
    <3>2. x \in 0 .. Width(1) - 1
      BY <1>3, <2>2 DEF W
    <3>3. s.reg["rax"] \in Word
      BY <1>8, StateParts
    <3>. QED
      BY <2>2, <3>1, <3>2, <3>3, UpperKept
  <2>. QED
    BY <1>2, <2>1, <2>2
<1>11. Writes(s, t, "rax", upper + x)
  BY <1>6, <1>7, <1>8, <1>10, StateParts, WritesIf
<1>12. ~t.loose => t.reg["rax"] = x
  <2>1. t.reg["rax"] \in Nat /\ Width(1) \in Nat
    BY <1>9, <1>10, WordIs, Widths
  <2>. QED
    BY <1>2, <1>6, <1>9, <1>10, <2>1
<1>. QED
  BY <1>9, <1>10, <1>11, <1>12 DEF x, n

(* A variable is written.                                                  *)
LEMMA WriteDoes ==
  ASSUME NEW s \in States, NEW v \in DOMAIN Vars, NEW o, NEW t,
         Does(Mov(Place(v), o), s, t), s.reg["rbp"] = StackTop + 8, ValueIn(s, o) \in Int
  PROVE  /\ t \in States /\ t.goto = Onward /\ (s.loose => t.loose) /\ t.reg = s.reg
         /\ Load(t.mem, Location(v), Size(Vars[v].type))
              = ValueIn(s, o) % Width(Size(Vars[v].type))
         /\ \A x : x \notin Cells(v) => CellAt(t.mem, x) = CellAt(s.mem, x)
<1>. DEFINE n == Size(Vars[v].type)
            L == Location(v)
            w == ValueIn(s, o)
            W == Width(n)
<1>1. n \in 1 .. 8 /\ L \in Nat /\ L + n <= WordMod /\ n \in 0 .. 8
  BY VariableCells
<1>2. \A x : x \in L .. L + n - 1 => x \in Cells(v)
  BY VariableCells
<1>3. W \in Nat \ {0}
  BY <1>1, Widths
<1>4. w % W \in 0 .. W - 1 /\ (w % W) % W = w % W /\ w % W \in Int
  <2>1. w % W \in 0 .. W - 1
    BY <1>3, DivMod
  <2>. HIDE DEF W, w
  <2>. QED
    BY <1>3, <2>1, ModSmall
<1>5. t.mem = Store(s.mem, L, n, w % W) /\ t.reg = s.reg /\ t.flags = s.flags
  <2>1. /\ Place(v).kind = "mem" /\ AddressIn(s, Place(v)) = L
        /\ Place(v).size = n
    BY PlaceIs
  <2>2. Moves(Place(v), o, s, t)
    BY DEF Does, Mov
  <2>. HIDE DEF n, L
  <2>. QED
    BY <2>1, <2>2 DEF Moves
<1>6. /\ t = [reg |-> t.reg, mem |-> t.mem, flags |-> t.flags, goto |-> t.goto,
              loose |-> t.loose] /\ t.loose \in BOOLEAN /\ (s.loose => t.loose)
      /\ t.goto = Onward
  BY DEF Does, Mov
<1>. DEFINE u == w % W
<1>. HIDE DEF n, L, w, W, u
<1>7. /\ t.mem \in Memories
      /\ \A x : x \notin L .. L + n - 1 => CellAt(t.mem, x) = CellAt(s.mem, x)
  <2>1. t.mem = Store(s.mem, L, n, u) /\ u \in Int /\ s.mem \in Memories
    BY <1>4, <1>5, StateParts DEF u
  <2>. QED
    BY <1>1, <2>1, StoreCells
<1>8. Load(t.mem, L, n) = w % W
  <2>1. t.mem = Store(s.mem, L, n, u) /\ u \in Int /\ s.mem \in Memories
    BY <1>4, <1>5, StateParts DEF u
  <2>2. Load(t.mem, L, n) = u % Width(n)
    BY <1>1, <2>1, LoadStored
  <2>. QED
    BY <1>4, <2>2 DEF u, W
<1>9. t \in States
  BY <1>5, <1>6, <1>7, StateParts DEF States
<1>10. \A x : x \notin Cells(v) => CellAt(t.mem, x) = CellAt(s.mem, x)
  BY <1>2, <1>7
<1>. QED
  BY <1>5, <1>6, <1>8, <1>9, <1>10 DEF n, L, w, W

(* The value of a register, by the size of the operand.                    *)
LEMMA RegisterValue ==
  ASSUME NEW s \in States, NEW r \in Registers
  PROVE  /\ ValueIn(s, Reg(r, 8)) = s.reg[r]
         /\ ValueIn(s, Reg(r, 4)) = s.reg[r] % IntMod
         /\ ValueIn(s, Reg(r, 1)) = s.reg[r] % Width(1)
BY StateParts DEF ValueIn, Reg, IntMod

(* An instruction that computes v writes the word of v.                    *)
LEMMA ComputeDoes ==
  ASSUME NEW s \in States, NEW i, NEW t, Does(i, s, t), NEW r \in Registers, NEW v \in Int,
         i[1] \notin {"IDIV", "JUMP"}, ComputesIn(Reg(r, 8), v, s, t)
  PROVE  Writes(s, t, r, v % WordMod)
<1>1. t.reg = [s.reg EXCEPT ![r] = v % WordMod] /\ t.flags = Unspecified /\ t.mem = s.mem
  BY DEF ComputesIn, Reg
<1>2. t.goto = Onward
  BY DEF Does
<1>3. v % WordMod \in Word
  BY CutWord
<1>. QED
  BY <1>1, <1>2, <1>3, WritesIf DEF FlagSet

(* ADD, SUB, IMUL and NEG, as the code of expressions uses them.           *)
LEMMA ArithmeticDoes ==
  ASSUME NEW s \in States, NEW t
  PROVE  /\ Does(Add(rax, rbx), s, t) =>
              Writes(s, t, "rax", (s.reg["rax"] + s.reg["rbx"]) % WordMod)
         /\ Does(Sub(rax, rbx), s, t) =>
              Writes(s, t, "rax", (s.reg["rax"] - s.reg["rbx"]) % WordMod)
         /\ Does(Imul(rax, rbx), s, t) =>
              Writes(s, t, "rax", (s.reg["rax"] * s.reg["rbx"]) % WordMod)
         /\ Does(Neg(rax), s, t) => Writes(s, t, "rax", (-s.reg["rax"]) % WordMod)
<1>. DEFINE a == s.reg["rax"]
            b == s.reg["rbx"]
<1>1. "rax" \in Registers /\ "rbx" \in Registers
  BY DEF Registers
<1>2. ValueIn(s, rax) = a /\ ValueIn(s, rbx) = b
  BY <1>1, RegisterValue DEF rax, rbx
<1>3. a \in Nat /\ b \in Nat
  BY <1>1, StateParts
<1>. HIDE DEF a, b
<1>4. a + b \in Int /\ a - b \in Int /\ a * b \in Int /\ -a \in Int
  BY <1>3
<1>5. ASSUME Does(Add(rax, rbx), s, t) PROVE Writes(s, t, "rax", (a + b) % WordMod)
  <2>1. ComputesIn(rax, a + b, s, t) /\ Add(rax, rbx)[1] = "ADD"
    BY <1>2, <1>5 DEF Does, Add
  <2>. QED
    BY <1>1, <1>4, <1>5, <2>1, ComputeDoes DEF rax
<1>6. ASSUME Does(Sub(rax, rbx), s, t) PROVE Writes(s, t, "rax", (a - b) % WordMod)
  <2>1. ComputesIn(rax, a - b, s, t) /\ Sub(rax, rbx)[1] = "SUB"
    BY <1>2, <1>6 DEF Does, Sub
  <2>. QED
    BY <1>1, <1>4, <1>6, <2>1, ComputeDoes DEF rax
<1>7. ASSUME Does(Imul(rax, rbx), s, t) PROVE Writes(s, t, "rax", (a * b) % WordMod)
  <2>1. ComputesIn(rax, a * b, s, t) /\ Imul(rax, rbx)[1] = "IMUL"
    BY <1>2, <1>7 DEF Does, Imul
  <2>. QED
    BY <1>1, <1>4, <1>7, <2>1, ComputeDoes DEF rax
<1>8. ASSUME Does(Neg(rax), s, t) PROVE Writes(s, t, "rax", (-a) % WordMod)
  <2>1. ComputesIn(rax, -a, s, t) /\ Neg(rax)[1] = "NEG"
    BY <1>2, <1>8 DEF Does, Neg
  <2>. QED
    BY <1>1, <1>4, <1>8, <2>1, ComputeDoes DEF rax
<1>. QED
  BY <1>5, <1>6, <1>7, <1>8 DEF a, b

(* Two words less.                                                         *)
LEMMA DropDoes ==
  ASSUME NEW s \in States, NEW t, Does(Add(rsp, Imm(16)), s, t),
         s.reg["rsp"] \in 0 .. StackTop - 16
  PROVE  Writes(s, t, "rsp", s.reg["rsp"] + 16)
<1>. DEFINE p == s.reg["rsp"] + 16
<1>1. "rsp" \in Registers
  BY DEF Registers
<1>2. StackTop + 8 \in Word /\ StackTop \in Nat /\ WordMod \in Nat \ {0}
  BY StackAssumption, Widths
<1>3. 16 \in Word
  BY IntRange DEF Word
<1>4. ValueIn(s, Imm(16)) = 16
  BY <1>3, WordIs DEF ValueIn, Imm
<1>5. ValueIn(s, rsp) = s.reg["rsp"]
  BY <1>1, RegisterValue DEF rsp
<1>6. ComputesIn(rsp, p, s, t) /\ Add(rsp, Imm(16))[1] = "ADD"
  BY <1>4, <1>5 DEF Does, Add
<1>7. p \in Word
  BY <1>2 DEF Word
<1>. HIDE DEF p
<1>8. p % WordMod = p /\ p \in Int
  BY <1>7, WordIs
<1>9. Writes(s, t, "rsp", p % WordMod)
  BY <1>1, <1>6, <1>8, ComputeDoes DEF rsp
<1>. QED
  BY <1>8, <1>9 DEF p

-----------------------------------------------------------------------------
(* A quotient and a remainder are no longer than the dividend.             *)
LEMMA QuotientBounds ==
  ASSUME NEW a \in Nat, NEW b \in Nat \ {0}
  PROVE  a \div b \in 0 .. a /\ a - ((a \div b) * b) \in 0 .. b - 1
<1>. DEFINE q == a \div b
            r == a % b
<1>1. q \in Int /\ r \in 0 .. b - 1 /\ a = b * q + r
  BY DivMod
<1>. HIDE DEF q, r
<1>2. q \in 0 .. a
  <2>1. q >= 0
    <3>1. CASE q < 0
      <4>1. b * q <= b * (-1)
        BY <1>1, <3>1
      <4>2. b * (-1) = -b
        OBVIOUS
      <4>. DEFINE z == b * q
      <4>3. z \in Int
        BY <1>1
      <4>. HIDE DEF z
      <4>. QED
        BY <1>1, <4>1, <4>2, <4>3 DEF z
    <3>. QED
      BY <1>1, <3>1
  <2>2. b * q >= 1 * q
    BY <1>1, <2>1
  <2>. DEFINE z == b * q
  <2>3. z \in Int /\ z >= q
    BY <1>1, <2>2
  <2>. HIDE DEF z
  <2>4. a = z + r
    BY <1>1 DEF z
  <2>. QED
    BY <1>1, <2>1, <2>3, <2>4
<1>3. a - (q * b) = r
  <2>. DEFINE z == b * q
  <2>1. q * b = z /\ z \in Int
    BY <1>1
  <2>. HIDE DEF z
  <2>2. a = z + r
    BY <1>1 DEF z
  <2>. QED
    BY <1>1, <2>1, <2>2
<1>. QED
  BY <1>1, <1>2, <1>3 DEF q

(* IDIV by rbx leaves quotient and remainder, or traps on 0.               *)
LEMMA DivideDoes ==
  ASSUME NEW s \in States, NEW t, Does(Idiv(rbx), s, t)
  PROVE  /\ t \in States /\ (s.loose => t.loose) /\ t.mem = s.mem
         /\ t.reg["rsp"] = s.reg["rsp"] /\ t.reg["rbp"] = s.reg["rbp"]
         /\ t.goto = Onward \/ (t.goto = Trapped /\ s.reg["rbx"] = 0)
         /\ s.reg["rbx"] # 0 =>
              /\ t.reg["rax"] = s.reg["rax"] \div s.reg["rbx"]
              /\ t.reg["rdx"] = s.reg["rax"]
                                  - ((s.reg["rax"] \div s.reg["rbx"]) * s.reg["rbx"])
<1>. DEFINE a == s.reg["rax"]
            b == s.reg["rbx"]
            q == IF b = 0 THEN 0 ELSE a \div b
            r == a - (q * b)
<1>1. {"rax", "rbx", "rdx", "rsp", "rbp"} \subseteq Registers
  BY DEF Registers
<1>2. ValueIn(s, rbx) = b
  BY <1>1, RegisterValue DEF rbx
<1>3. a \in Word /\ b \in Word /\ a \in Nat /\ b \in Nat
  BY <1>1, StateParts
<1>4. q \in Word /\ r \in Word
  <2>1. CASE b = 0
    <3>1. q = 0 /\ r = a
      BY <1>3, <2>1
    <3>. QED
      BY <1>3, <3>1, WordIs
  <2>2. CASE b # 0
    <3>1. a \div b \in 0 .. a /\ a - ((a \div b) * b) \in 0 .. b - 1
      BY <1>3, <2>2, QuotientBounds
    <3>2. q = a \div b
      BY <2>2
    <3>3. q \in 0 .. a /\ r \in 0 .. b - 1
      BY <3>1, <3>2
    <3>. HIDE DEF a, b, q, r
    <3>4. a < WordMod /\ b < WordMod /\ WordMod \in Nat
      BY <1>3, WordIs
    <3>. QED
      BY <1>3, <3>3, <3>4 DEF Word
  <2>. QED
    BY <2>1, <2>2
<1>5. /\ \/ t.reg = [s.reg EXCEPT !["rax"] = q, !["rdx"] = r] /\ t.goto = Onward
         \/ b = 0 /\ t.goto = Trapped /\ t.reg = s.reg
      /\ t.flags = Unspecified /\ t.mem = s.mem
  <2>1. DividesBy(rbx, s, t)
    BY DEF Does, Idiv
  <2>. QED
    BY <1>2, <2>1 DEF DividesBy
<1>6. b # 0 => q = a \div b /\ r = a - ((a \div b) * b)
  OBVIOUS
<1>. HIDE DEF a, b, q, r
<1>7. t.reg \in [Registers -> Word] /\ t.mem \in Memories
  BY <1>1, <1>4, <1>5, StateParts
<1>8. /\ t = [reg |-> t.reg, mem |-> t.mem, flags |-> t.flags, goto |-> t.goto,
              loose |-> t.loose] /\ t.loose \in BOOLEAN /\ (s.loose => t.loose)
  BY DEF Does
<1>9. t \in States
  BY <1>5, <1>7, <1>8 DEF States, FlagSet
<1>10. t.reg["rsp"] = s.reg["rsp"] /\ t.reg["rbp"] = s.reg["rbp"]
  BY <1>1, <1>5, StateParts
<1>11. b # 0 => t.reg["rax"] = q /\ t.reg["rdx"] = r
  BY <1>1, <1>5, StateParts
<1>. QED
  BY <1>5, <1>6, <1>8, <1>9, <1>10, <1>11 DEF a, b

(* Flags that are known are what they were made of.                        *)
LEMMA FlagsAre ==
  ASSUME NEW z \in BOOLEAN, NEW l \in BOOLEAN
  PROVE  /\ Flags(z, l) \in FlagSet /\ Flags(z, l).known
         /\ Flags(z, l).z = z /\ Flags(z, l).l = l
<1>2. Flags(z, l) \in FlagSet
  BY DEF FlagSet, Flags
<1>3. Flags(z, l).known = TRUE /\ Flags(z, l).z = z /\ Flags(z, l).l = l
  BY DEF Flags
<1>. QED
  BY <1>2, <1>3

(* t is s with what a comparison has left.                                 *)
Tested(s, t, z, l) ==
  /\ t \in States /\ t.goto = Onward /\ (s.loose => t.loose)
  /\ t.mem = s.mem /\ t.reg = s.reg
  /\ t.flags.known /\ t.flags.z = z /\ t.flags.l = l

(* An instruction that only changes the flags leaves them as Tested says.  *)
LEMMA TestedIf ==
  ASSUME NEW s \in States, NEW i, NEW t, Does(i, s, t), i[1] \notin {"IDIV", "JUMP"},
         NEW z \in BOOLEAN, NEW l \in BOOLEAN,
         t.flags = Flags(z, l), t.reg = s.reg, t.mem = s.mem
  PROVE  Tested(s, t, z, l)
<1>1. /\ t = [reg |-> t.reg, mem |-> t.mem, flags |-> t.flags, goto |-> t.goto,
              loose |-> t.loose] /\ t.loose \in BOOLEAN /\ (s.loose => t.loose)
      /\ t.goto = Onward
  BY DEF Does
<1>2. t \in States
  BY <1>1, StateParts, FlagsAre DEF States
<1>. QED
  BY <1>1, <1>2, FlagsAre DEF Tested

(* CMP with 0 tells whether the register is 0.                             *)
LEMMA CompareZero ==
  ASSUME NEW s \in States, NEW r \in Registers, NEW t, Does(Cmp(Reg(r, 8), Imm(0)), s, t)
  PROVE  \E l \in BOOLEAN : Tested(s, t, s.reg[r] = 0, l)
<1>1. ValueIn(s, Reg(r, 8)) = s.reg[r]
  BY RegisterValue
<1>2. ValueIn(s, Imm(0)) = 0
  BY WordIs DEF ValueIn, Imm
<1>3. 0 % Width(8) = 0
  BY WordIs
<1>. DEFINE z == s.reg[r] = 0
            l == Signed(s.reg[r], 8) < Signed(0, 8)
<1>4. t.flags = Flags(z, l) /\ t.reg = s.reg /\ t.mem = s.mem
  <2>1. Compares(Reg(r, 8), Imm(0), s, t)
    BY DEF Does, Cmp
  <2>2. Reg(r, 8).size = 8
    BY DEF Reg
  <2>. QED
    BY <1>1, <1>2, <1>3, <2>1, <2>2 DEF Compares
<1>5. z \in BOOLEAN /\ l \in BOOLEAN
  OBVIOUS
<1>. HIDE DEF z, l
<1>6. Cmp(Reg(r, 8), Imm(0))[1] = "CMP"
  BY DEF Cmp
<1>7. Tested(s, t, z, l)
  BY <1>4, <1>5, <1>6, TestedIf
<1>. QED
  BY <1>5, <1>7 DEF z

(* CMP of eax and ebx compares them as ints.                               *)
LEMMA CompareInts ==
  ASSUME NEW s \in States, NEW t, Does(Cmp(eax, ebx), s, t),
         s.reg["rax"] \in 0 .. IntMod - 1, s.reg["rbx"] \in 0 .. IntMod - 1
  PROVE  Tested(s, t, s.reg["rax"] = s.reg["rbx"],
                Signed(s.reg["rax"], 4) < Signed(s.reg["rbx"], 4))
<1>. DEFINE a == s.reg["rax"]
            b == s.reg["rbx"]
            z == a = b
            l == Signed(a, 4) < Signed(b, 4)
<1>1. a % IntMod = a /\ b % IntMod = b /\ (b % IntMod) % IntMod = b
  BY IntRange, ModSmall
<1>2. ValueIn(s, eax) = a /\ ValueIn(s, ebx) = b /\ eax.size = 4
  BY <1>1, RegisterValue, {"rax", "rbx"} \subseteq Registers DEF eax, ebx, Registers, Reg
<1>3. Compares(eax, ebx, s, t) /\ Cmp(eax, ebx)[1] = "CMP"
  BY DEF Does, Cmp
<1>. HIDE DEF a, b
<1>4. t.flags = Flags(z, l) /\ t.reg = s.reg /\ t.mem = s.mem
  BY <1>1, <1>2, <1>3 DEF Compares, IntMod
<1>5. z \in BOOLEAN /\ l \in BOOLEAN
  OBVIOUS
<1>. HIDE DEF z, l
<1>6. Tested(s, t, z, l)
  BY <1>3, <1>4, <1>5, TestedIf
<1>. QED
  BY <1>6 DEF z, l, a, b

(* SET writes the truth value of its condition to a register that is 0.    *)
LEMMA SetDoes ==
  ASSUME NEW s \in States, NEW r \in {"rax", "rbx"}, NEW cc, cc # "always", NEW t,
         Does(Set(cc, Reg(r, 1)), s, t), s.reg[r] = 0
  PROVE  /\ Writes(s, t, r, Truth(Holds(cc, s.flags.z, s.flags.l)))
         /\ t.flags = s.flags
<1>. DEFINE v == Truth(Holds(cc, s.flags.z, s.flags.l))
<1>1. v \in {0, 1} /\ v = (IF MetIn(s, cc) THEN 1 ELSE 0)
  BY DEF Truth, MetIn
<1>2. Uppers(s, Reg(r, 1)) = {0}
  <2>1. 0 % Width(1) = 0
    BY Widths, ModSmall
  <2>2. 0 - (0 % Width(1)) = 0
    BY <2>1
  <2>. QED
    BY <2>2 DEF Uppers, Reg
<1>3. Sets(cc, Reg(r, 1), s, t) /\ t.goto = Onward
  BY DEF Does, Set
<1>. HIDE DEF v
<1>4. /\ t.reg = [s.reg EXCEPT ![r] = 0 + v]
      /\ t.mem = s.mem /\ t.flags = s.flags
  BY <1>1, <1>2, <1>3 DEF Sets, Reg
<1>5. 0 + v = v /\ v \in Word
  BY <1>1, IntRange DEF Word
<1>6. r \in Registers
  BY DEF Registers
<1>7. Writes(s, t, r, v)
  BY <1>3, <1>4, <1>5, <1>6, StateParts, WritesIf
<1>. QED
  BY <1>4, <1>7 DEF v

(* JUMP eq goes to else when the last comparison was equal.                *)
LEMMA JumpDoes ==
  ASSUME NEW s \in States, NEW t, Does(Jump("eq", "else"), s, t), s.flags.z \in BOOLEAN
  PROVE  /\ t \in States /\ (s.loose => t.loose) /\ t.mem = s.mem /\ t.reg = s.reg
         /\ t.goto = IF s.flags.z THEN To("else") ELSE Onward
<1>1. Jumps("eq", "else", s, t)
  BY DEF Does, Jump
<1>2. MetIn(s, "eq") = s.flags.z
  <2>. DEFINE z == s.flags.z
              l == s.flags.l
  <2>1. MetIn(s, "eq") = ("eq" = "always" \/ Holds("eq", z, l))
    BY DEF MetIn
  <2>2. z \in BOOLEAN
    OBVIOUS
  <2>. HIDE DEF z, l
  <2>3. Holds("eq", z, l) = z
    BY <2>2 DEF Holds
  <2>4. MetIn(s, "eq") = z
    BY <2>1, <2>2, <2>3
  <2>. QED
    BY <2>4 DEF z
<1>3. /\ t.goto = (IF s.flags.z THEN To("else") ELSE Onward)
      /\ t.reg = s.reg /\ t.mem = s.mem /\ t.flags = s.flags
  BY <1>1, <1>2 DEF Jumps
<1>4. /\ t = [reg |-> t.reg, mem |-> t.mem, flags |-> t.flags, goto |-> t.goto,
              loose |-> t.loose] /\ t.loose \in BOOLEAN /\ (s.loose => t.loose)
  BY DEF Does
<1>5. t \in States
  BY <1>3, <1>4, StateParts DEF States
<1>. QED
  BY <1>3, <1>4, <1>5

(* AND of two truth values, and OR of two ints.                            *)
LEMMA MeetDoes ==
  ASSUME NEW s \in States, NEW t, Does(And(rax, rbx), s, t),
         s.reg["rax"] \in {0, 1}, s.reg["rbx"] \in {0, 1}
  PROVE  /\ \E v \in Word : Writes(s, t, "rax", v)
         /\ t.flags.known
         /\ t.flags.z = ~(s.reg["rax"] = 1 /\ s.reg["rbx"] = 1)
<1>. DEFINE a == s.reg["rax"]
            b == s.reg["rbx"]
            v == BitAnd(a, b)
            z == v = 0
            l == Signed(v, 8) < 0
<1>0. "rax" \in Registers /\ "rbx" \in Registers
  BY DEF Registers
<1>1. ValueIn(s, rax) = a /\ ValueIn(s, rbx) = b
  BY <1>0, RegisterValue DEF rax, rbx
<1>2. Meets(rax, rbx, s, t) /\ t.goto = Onward
  BY DEF Does, And
<1>3. v \in {0, 1} /\ (v = 1 <=> a = 1 /\ b = 1)
  BY BitAndTruth
<1>4. (a % Width(8)) = a /\ a - a = 0
  BY <1>0, StateParts
<1>. HIDE DEF a, b, v
<1>5. t.reg = [s.reg EXCEPT !["rax"] = a - (a % Width(8)) + v]
  BY <1>1, <1>2 DEF Meets, rax, Reg, a, v
<1>6. a - (a % Width(8)) + v = v
  BY <1>3, <1>4
<1>7. t.flags = Flags(z, l) /\ t.mem = s.mem
  BY <1>1, <1>2 DEF Meets, rax, Reg, v
<1>8. z \in BOOLEAN /\ l \in BOOLEAN
  OBVIOUS
<1>9. v \in Word
  BY <1>3, IntRange DEF Word
<1>10. z = ~(a = 1 /\ b = 1)
  BY <1>3
<1>. HIDE DEF z, l
<1>11. Writes(s, t, "rax", v)
  BY <1>0, <1>2, <1>5, <1>6, <1>7, <1>8, <1>9, FlagsAre, WritesIf
<1>. QED
  BY <1>7, <1>8, <1>9, <1>10, <1>11, FlagsAre DEF a, b

(* OR of two ints: its flags tell whether both are 0.                      *)
LEMMA JoinDoes ==
  ASSUME NEW s \in States, NEW t, Does(Or(rax, rbx), s, t),
         s.reg["rax"] \in 0 .. IntMod - 1, s.reg["rbx"] \in 0 .. IntMod - 1
  PROVE  /\ \E v \in Word : Writes(s, t, "rax", v)
         /\ t.flags.known
         /\ t.flags.z = ~(s.reg["rax"] # 0 \/ s.reg["rbx"] # 0)
<1>. DEFINE a == s.reg["rax"]
            b == s.reg["rbx"]
            c == BitAnd(a, b)
            v == a + b - c
            z == v = 0
            l == Signed(v, 8) < 0
<1>0. "rax" \in Registers /\ "rbx" \in Registers
  BY DEF Registers
<1>1. ValueIn(s, rax) = a /\ ValueIn(s, rbx) = b
  BY <1>0, RegisterValue DEF rax, rbx
<1>2. Joins(rax, rbx, s, t) /\ t.goto = Onward
  BY DEF Does, Or
<1>3. a \in Nat /\ b \in Nat /\ a < IntMod /\ b < IntMod
  BY IntRange
<1>4. c \in Nat /\ c <= a /\ c <= b
  BY <1>3, BitAndBounds
<1>. HIDE DEF a, b, c
<1>5. v \in Nat /\ v < 2 * IntMod /\ (v = 0 <=> a = 0 /\ b = 0)
  BY <1>3, <1>4, IntRange
<1>6. v \in Word
  BY <1>5, IntRange DEF Word
<1>7. t.reg = [s.reg EXCEPT !["rax"] = v] /\ t.flags = Flags(z, l) /\ t.mem = s.mem
  BY <1>1, <1>2 DEF Joins, rax, Reg, c
<1>8. z \in BOOLEAN /\ l \in BOOLEAN
  OBVIOUS
<1>10. z = ~(a # 0 \/ b # 0)
  BY <1>5
<1>. HIDE DEF z, l, v
<1>11. Writes(s, t, "rax", v)
  BY <1>0, <1>2, <1>6, <1>7, <1>8, FlagsAre, WritesIf
<1>. QED
  BY <1>6, <1>7, <1>8, <1>10, <1>11, FlagsAre DEF a, b

-----------------------------------------------------------------------------
(* Code, item by item.                                                     *)

(* Between two items of the code of a statement: the stack pointer is in   *)
(* the stack, and what is outside it is as it was.                         *)
Calm(env, s) ==
  /\ s \in States
  /\ s.reg["rsp"] \in StackLimit .. StackTop /\ s.reg["rbp"] = StackTop + 8
  /\ \A x : x \notin StackLimit .. StackTop - 1 =>
              CellAt(s.mem, x) = CellAt(Filled(env), x)
  /\ s.goto = Trapped => s.loose

(* The states t that have d less in the stack pointer than s, and differ   *)
(* in the memory only below that of s.                                     *)
After(s, d) ==
  {t \in States :
     /\ t.reg["rsp"] = s.reg["rsp"] - d /\ t.reg["rbp"] = s.reg["rbp"]
     /\ \A x : x \notin StackLimit .. s.reg["rsp"] - 1 =>
                 CellAt(t.mem, x) = CellAt(s.mem, x)
     /\ (t.goto = Trapped => t.loose) /\ (s.loose => t.loose)}

(* What the code of the expression e does: it leaves a word that stands    *)
(* for its value on the stack.                                             *)
Yields(env, e, s, t) ==
  /\ t \in After(s, 8) /\ t.goto = Onward
  /\ ~t.loose => Stands(Load(t.mem, t.reg["rsp"], 8), InC[e][env].val, InC[e][env].exact)

(* What must hold before an item is executed.                              *)
Fits(env, e, s) ==
  /\ e \in Expr /\ s.goto = Onward
  /\ s.reg["rsp"] - 8 * (Depth[e] + 1) >= StackLimit
  /\ ~s.loose => InC[e][env].ok

Safe(env, x, s) ==
  /\ Calm(env, s)
  /\ x[1] = "NODE" => Fits(env, x[2], s)
  /\ x[1] \in {"SET", "JUMP"} => x[2] = "always" \/ s.flags.known
  /\ x[1] = "IDIV" => DividesIn(s, x[2])

Post(env, x, s, t) == IF x[1] = "NODE" THEN Yields(env, x[2], s, t) ELSE Does(x, s, t)

Step(env, A, x, B) ==
  \A s \in A : Safe(env, x, s) /\ \A t : Post(env, x, s, t) => t \in B

(* The code c leads from the states A to the states B.                     *)
Chain(env, A, c, B) ==
  \E K \in [1 .. Len(c) + 1 -> SUBSET States] :
    /\ A \subseteq K[1] /\ K[Len(c) + 1] \subseteq B
    /\ \A i \in 1 .. Len(c) : Step(env, K[i], c[i], K[i + 1])

Coded(c) == \E S : c \in Seq(S)

(* The code an action writes is a sequence.                                *)
LEMMA CodedTuples ==
  /\ Coded(<<>>)
  /\ \A a : Coded(<<a>>)
  /\ \A a, b : Coded(<<a, b>>)
  /\ \A a, b, c : Coded(<<a, b, c>>)
  /\ \A a, b, c, d : Coded(<<a, b, c, d>>)
  /\ \A a, b, c, d, e : Coded(<<a, b, c, d, e>>)
  /\ \A a, b, c, d, e, f : Coded(<<a, b, c, d, e, f>>)
  /\ \A a, b, c, d, e, f, g : Coded(<<a, b, c, d, e, f, g>>)
<1>1. <<>> \in Seq({})
  OBVIOUS
<1>2. \A a : <<a>> \in Seq({a})
  OBVIOUS
<1>3. \A a, b : <<a, b>> \in Seq({a, b})
  OBVIOUS
<1>4. \A a, b, c : <<a, b, c>> \in Seq({a, b, c})
  OBVIOUS
<1>5. \A a, b, c, d : <<a, b, c, d>> \in Seq({a, b, c, d})
  OBVIOUS
<1>6. \A a, b, c, d, e : <<a, b, c, d, e>> \in Seq({a, b, c, d, e})
  OBVIOUS
<1>7. \A a, b, c, d, e, f : <<a, b, c, d, e, f>> \in Seq({a, b, c, d, e, f})
  OBVIOUS
<1>8. \A a, b, c, d, e, f, g : <<a, b, c, d, e, f, g>> \in Seq({a, b, c, d, e, f, g})
  OBVIOUS
<1>. QED
  BY <1>1, <1>2, <1>3, <1>4, <1>5, <1>6, <1>7, <1>8, Zenon DEF Coded

(* Code joined to code is code.                                            *)
LEMMA CodedJoin ==
  ASSUME NEW c, NEW d, Coded(c), Coded(d) PROVE Coded(c \o d)
<1>1. PICK S : c \in Seq(S)
  BY DEF Coded
<1>2. PICK T : d \in Seq(T)
  BY DEF Coded
<1>3. c \in Seq(S \cup T) /\ d \in Seq(S \cup T)
  BY <1>1, <1>2
<1>4. c \o d \in Seq(S \cup T)
  BY <1>3
<1>. QED
  BY <1>4 DEF Coded

(* Code that is not empty has a first item, and the rest is code.          *)
LEMMA CodedTail ==
  ASSUME NEW c, Coded(c), c # <<>>
  PROVE  Coded(Tail(c)) /\ Len(c) \in Nat /\ Len(c) >= 1 /\ Head(c) = c[1]
<1>1. PICK S : c \in Seq(S)
  BY DEF Coded
<1>2. Tail(c) \in Seq(S) /\ Len(c) \in Nat /\ Len(c) >= 1 /\ Head(c) = c[1]
  BY <1>1
<1>. QED
  BY <1>2 DEF Coded

(* A chain begins with a step, and goes on with the rest of the code.      *)
LEMMA ChainStart ==
  ASSUME NEW env, NEW A, NEW B, NEW c, Coded(c), c # <<>>, Chain(env, A, c, B)
  PROVE  \E M \in SUBSET States : Step(env, A, Head(c), M) /\ Chain(env, M, Tail(c), B)
<1>1. PICK S : c \in Seq(S)
  BY DEF Coded
<1>. DEFINE n == Len(c)
<1>2. PICK K \in [1 .. n + 1 -> SUBSET States] :
        /\ A \subseteq K[1] /\ K[n + 1] \subseteq B
        /\ \A i \in 1 .. n : Step(env, K[i], c[i], K[i + 1])
  BY DEF Chain
<1>3. /\ n \in Nat /\ n >= 1 /\ Len(Tail(c)) = n - 1 /\ Head(c) = c[1]
      /\ \A i \in 1 .. n - 1 : Tail(c)[i] = c[i + 1]
  BY <1>1
<1>. HIDE DEF n
<1>4. Step(env, K[1], c[1], K[2])
  BY <1>2, <1>3, 1 \in 1 .. n, 1 + 1 = 2
<1>5. Step(env, A, c[1], K[2])
  BY <1>2, <1>4, Zenon DEF Step
<1>. DEFINE L == [i \in 1 .. n |-> K[i + 1]]
<1>6. L \in [1 .. n -> SUBSET States] /\ L[1] = K[2] /\ L[n] = K[n + 1]
  BY <1>2, <1>3
<1>7. ASSUME NEW i \in 1 .. n - 1 PROVE Step(env, L[i], Tail(c)[i], L[i + 1])
  <2>1. i + 1 \in 1 .. n /\ i \in 1 .. n /\ L[i] = K[i + 1] /\ L[i + 1] = K[(i + 1) + 1]
    BY <1>3
  <2>2. Step(env, K[i + 1], c[i + 1], K[(i + 1) + 1])
    BY <1>2, <2>1
  <2>. QED
    BY <1>3, <2>1, <2>2
<1>8. Chain(env, K[2], Tail(c), B)
  <2>1. Len(Tail(c)) + 1 = n
    BY <1>3
  <2>2. L \in [1 .. Len(Tail(c)) + 1 -> SUBSET States]
    BY <1>6, <2>1
  <2>3. K[2] \subseteq L[1] /\ L[Len(Tail(c)) + 1] \subseteq B
    BY <1>2, <1>6, <2>1
  <2>4. \A i \in 1 .. Len(Tail(c)) : Step(env, L[i], Tail(c)[i], L[i + 1])
    BY <1>3, <1>7
  <2>. HIDE DEF L
  <2>. QED
    BY <2>2, <2>3, <2>4 DEF Chain
<1>9. K[2] \in SUBSET States
  BY <1>2, <1>3, 2 \in 1 .. n + 1
<1>. QED
  BY <1>3, <1>5, <1>8, <1>9

(* A chain of no code has arrived.                                         *)
LEMMA ChainOver ==
  ASSUME NEW env, NEW A, NEW B, Chain(env, A, <<>>, B) PROVE A \subseteq B
<1>1. Len(<<>>) = 0 /\ 0 + 1 = 1
  OBVIOUS
<1>. QED
  BY <1>1 DEF Chain

(* Chains are joined where one ends in the states the other starts from.   *)
LEMMA ChainJoin ==
  ASSUME NEW env, NEW A, NEW B, NEW C, NEW c, NEW d, Coded(c), Coded(d),
         Chain(env, A, c, B), Chain(env, B, d, C)
  PROVE  Chain(env, A, c \o d, C)
<1>1. PICK S : c \in Seq(S)
  BY DEF Coded
<1>2. PICK T : d \in Seq(T)
  BY DEF Coded
<1>. DEFINE n == Len(c)
            m == Len(d)
<1>3. PICK K \in [1 .. n + 1 -> SUBSET States] :
        /\ A \subseteq K[1] /\ K[n + 1] \subseteq B
        /\ \A i \in 1 .. n : Step(env, K[i], c[i], K[i + 1])
  BY DEF Chain
<1>4. PICK L \in [1 .. m + 1 -> SUBSET States] :
        /\ B \subseteq L[1] /\ L[m + 1] \subseteq C
        /\ \A i \in 1 .. m : Step(env, L[i], d[i], L[i + 1])
  BY DEF Chain
<1>5. n \in Nat /\ m \in Nat
  BY <1>1, <1>2
<1>. DEFINE cd == c \o d
<1>6. /\ Len(cd) = n + m
      /\ \A i \in 1 .. n + m : cd[i] = IF i <= n THEN c[i] ELSE d[i - n]
  <2>1. c \in Seq(S \cup T) /\ d \in Seq(S \cup T)
    BY <1>1, <1>2
  <2>. QED
    BY <2>1
<1>. HIDE DEF n, m, cd
<1>. DEFINE M == [i \in 1 .. (n + m) + 1 |-> IF i <= n THEN K[i] ELSE L[i - n]]
<1>7. M \in [1 .. (n + m) + 1 -> SUBSET States]
  <2>1. ASSUME NEW i \in 1 .. (n + m) + 1
        PROVE  (IF i <= n THEN K[i] ELSE L[i - n]) \in SUBSET States
    <3>1. CASE i <= n
      <4>1. i \in 1 .. n + 1
        BY <1>5, <3>1
      <4>. QED
        BY <1>3, <3>1, <4>1
    <3>2. CASE ~ (i <= n)
      <4>1. i - n \in 1 .. m + 1
        BY <1>5, <3>2
      <4>. QED
        BY <1>4, <3>2, <4>1
    <3>. QED
      BY <3>1, <3>2
  <2>. QED
    BY <2>1
<1>8. \A i \in 1 .. (n + m) + 1 : M[i] = IF i <= n THEN K[i] ELSE L[i - n]
  OBVIOUS
<1>12. ASSUME NEW p \in 1 .. (n + m) + 1, NEW q, ~ (p <= n), q = p - n PROVE M[p] = L[q]
  BY <1>8, <1>12
<1>9. A \subseteq M[1] /\ M[(n + m) + 1] \subseteq C
  <2>1. M[(n + m) + 1] = L[m + 1]
    <3>1. (n + m) + 1 \in 1 .. (n + m) + 1 /\ ~ ((n + m) + 1 <= n) /\ (n + m) + 1 - n = m + 1
      BY <1>5
    <3>. HIDE DEF M
    <3>. DEFINE p == (n + m) + 1
                q == m + 1
    <3>2. p \in 1 .. (n + m) + 1 /\ ~ (p <= n) /\ q = p - n
      BY <1>5
    <3>. HIDE DEF p, q
    <3>3. M[p] = L[q]
      BY <1>12, <3>2
    <3>. QED
      BY <3>3 DEF p, q
  <2>2. CASE n = 0
    <3>1. M[1] = L[1]
      <4>1. 1 \in 1 .. (n + m) + 1 /\ ~ (1 <= n) /\ 1 - n = 1
        BY <1>5, <2>2
      <4>. HIDE DEF M
      <4>. QED
        BY <1>8, <4>1
    <3>2. K[1] \subseteq L[1]
      BY <1>3, <1>4, <2>2, 0 + 1 = 1
    <3>. HIDE DEF M
    <3>. QED
      BY <1>3, <1>4, <2>1, <3>1, <3>2
  <2>3. CASE n # 0
    <3>1. M[1] = K[1]
      <4>1. 1 \in 1 .. (n + m) + 1 /\ 1 <= n
        BY <1>5, <2>3
      <4>. HIDE DEF M
      <4>. QED
        BY <1>8, <4>1
    <3>. HIDE DEF M
    <3>. QED
      BY <1>3, <1>4, <2>1, <3>1
  <2>. QED
    BY <2>2, <2>3
<1>10. ASSUME NEW i \in 1 .. n + m PROVE Step(env, M[i], cd[i], M[i + 1])
  <2>0. i \in 1 .. (n + m) + 1 /\ i + 1 \in 1 .. (n + m) + 1
    BY <1>5
  <2>. HIDE DEF M
  <2>1. CASE i < n
    <3>1. i <= n /\ i + 1 <= n /\ i \in 1 .. n
      BY <1>5, <2>1
    <3>2. M[i] = K[i] /\ M[i + 1] = K[i + 1] /\ cd[i] = c[i]
      BY <1>6, <1>8, <2>0, <3>1
    <3>. QED
      BY <1>3, <3>1, <3>2
  <2>2. CASE i = n
    <3>1. i <= n /\ ~ (i + 1 <= n) /\ i \in 1 .. n /\ i + 1 - n = 1
      BY <1>5, <2>2
    <3>2. M[i] = K[i] /\ cd[i] = c[i]
      BY <1>6, <1>8, <2>0, <3>1
    <3>. DEFINE p == i + 1
    <3>6. p \in 1 .. (n + m) + 1 /\ ~ (p <= n) /\ 1 = p - n
      BY <1>5, <2>0, <2>2
    <3>. HIDE DEF p
    <3>7. M[p] = L[1]
      BY <1>12, <3>6
    <3>5. M[i + 1] = L[1]
      BY <3>7 DEF p
    <3>3. Step(env, K[i], c[i], K[i + 1]) /\ K[i + 1] \subseteq L[1]
      BY <1>3, <1>4, <2>2, <3>1
    <3>4. Step(env, K[i], c[i], L[1])
      BY <3>3, Zenon DEF Step
    <3>. QED
      BY <3>2, <3>4, <3>5
  <2>3. CASE i > n
    <3>1. ~ (i <= n) /\ ~ (i + 1 <= n) /\ i - n \in 1 .. m /\ (i + 1) - n = (i - n) + 1
      BY <1>5, <2>3
    <3>2. M[i] = L[i - n] /\ M[i + 1] = L[(i - n) + 1] /\ cd[i] = d[i - n]
      BY <1>6, <1>8, <2>0, <3>1
    <3>. QED
      BY <1>4, <3>1, <3>2
  <2>4. i < n \/ i = n \/ i > n
    BY <1>5
  <2>. QED
    BY <2>1, <2>2, <2>3, <2>4
<1>. HIDE DEF M
<1>11. Chain(env, A, cd, C)
  BY <1>6, <1>7, <1>9, <1>10 DEF Chain
<1>. QED
  BY <1>11 DEF cd

(* No code leads nowhere else.                                             *)
LEMMA Chain0 ==
  ASSUME NEW env, NEW A \in SUBSET States PROVE Chain(env, A, <<>>, A)
<1>1. Len(<<>>) = 0 /\ 0 + 1 = 1
  OBVIOUS
<1>. DEFINE K == [i \in 1 .. 1 |-> A]
<1>2. K \in [1 .. 1 -> SUBSET States] /\ K[1] = A
  OBVIOUS
<1>. HIDE DEF K
<1>3. \A i \in 1 .. Len(<<>>) : Step(env, K[i], <<>>[i], K[i + 1])
  BY <1>1
<1>4. K \in [1 .. Len(<<>>) + 1 -> SUBSET States]
  BY <1>1, <1>2
<1>5. A \subseteq K[1] /\ K[Len(<<>>) + 1] \subseteq A
  BY <1>1, <1>2
<1>. QED
  BY <1>3, <1>4, <1>5 DEF Chain

(* One item is a chain of one step.                                        *)
LEMMA Chain1 ==
  ASSUME NEW env, NEW A \in SUBSET States, NEW B \in SUBSET States, NEW x,
         Step(env, A, x, B)
  PROVE  Chain(env, A, <<x>>, B)
<1>. DEFINE K == [i \in 1 .. 2 |-> IF i = 1 THEN A ELSE B]
<1>1. Len(<<x>>) = 1 /\ <<x>>[1] = x
  OBVIOUS
<1>2. K \in [1 .. 2 -> SUBSET States] /\ K[1] = A /\ K[2] = B
  OBVIOUS
<1>. HIDE DEF K
<1>3. \A i \in 1 .. 1 : Step(env, K[i], <<x>>[i], K[i + 1])
  BY <1>1, <1>2
<1>. QED
  BY <1>1, <1>2, <1>3 DEF Chain

(* An item may be put before a chain.                                      *)
LEMMA ChainAdd ==
  ASSUME NEW env, NEW A \in SUBSET States, NEW B, NEW C, NEW x, NEW c, Coded(c),
         B \in SUBSET States, Step(env, A, x, B), Chain(env, B, c, C)
  PROVE  Chain(env, A, <<x>> \o c, C)
<1>1. Chain(env, A, <<x>>, B)
  BY Chain1
<1>2. Coded(<<x>>)
  BY CodedTuples
<1>. QED
  BY <1>1, <1>2, ChainJoin

(* A chain may start from fewer states and end in more.                    *)
LEMMA ChainWider ==
  ASSUME NEW env, NEW A, NEW B, NEW C, NEW D, NEW c, Chain(env, B, c, C),
         A \subseteq B, C \subseteq D
  PROVE  Chain(env, A, c, D)
BY Zenon DEF Chain

(* A sequence is its first element and the others.                         *)
LEMMA ChainFirst ==
  ASSUME NEW env, NEW A \in SUBSET States, NEW B \in SUBSET States, NEW C, NEW c, Coded(c),
         c # <<>>, Step(env, A, c[1], B), Chain(env, B, Tail(c), C)
  PROVE  Chain(env, A, c, C)
<1>1. PICK S : c \in Seq(S)
  BY DEF Coded
<1>2. Len(c) \in Nat \ {0} /\ c[1] \in S
  BY <1>1
<1>. DEFINE x == c[1]
            d == Tail(c)
<1>3. /\ d \in Seq(S) /\ Len(d) = Len(c) - 1 /\ x \in S
      /\ \A i \in 1 .. Len(c) - 1 : d[i] = c[i + 1]
  BY <1>1, <1>2
<1>. HIDE DEF x, d
<1>. DEFINE f == <<x>> \o d
<1>4. /\ f \in Seq(S) /\ Len(f) = Len(c)
      /\ \A i \in 1 .. Len(c) : f[i] = IF i = 1 THEN x ELSE d[i - 1]
  <2>1. <<x>> \in Seq(S) /\ Len(<<x>>) = 1 /\ <<x>>[1] = x
    BY <1>3
  <2>. QED
    BY <1>2, <1>3, <2>1
<1>. HIDE DEF f
<1>5. ASSUME NEW i \in 1 .. Len(c) PROVE f[i] = c[i]
  <2>1. CASE i = 1
    BY <1>2, <1>4, <2>1 DEF x
  <2>2. CASE i # 1
    <3>1. i - 1 \in 1 .. Len(c) - 1 /\ (i - 1) + 1 = i
      BY <1>2, <2>2
    <3>. QED
      BY <1>3, <1>4, <2>2, <3>1
  <2>. QED
    BY <2>1, <2>2
<1>6. f = c
  BY <1>1, <1>4, <1>5, SeqEqual
<1>7. Coded(d)
  BY <1>3 DEF Coded
<1>8. Chain(env, A, <<x>> \o d, C)
  BY <1>7, ChainAdd DEF x, d
<1>. QED
  BY <1>6, <1>8 DEF f

(* The tails of the sequences that actions write.                          *)
LEMMA Tails ==
  /\ \A a : Tail(<<a>>) = <<>>
  /\ \A a, b : Tail(<<a, b>>) = <<b>>
  /\ \A a, b, c : Tail(<<a, b, c>>) = <<b, c>>
  /\ \A a, b, c, d : Tail(<<a, b, c, d>>) = <<b, c, d>>
  /\ \A a, b, c, d, e : Tail(<<a, b, c, d, e>>) = <<b, c, d, e>>
  /\ \A a, b, c, d, e, f : Tail(<<a, b, c, d, e, f>>) = <<b, c, d, e, f>>
  /\ \A a, b, c, d, e, f, g : Tail(<<a, b, c, d, e, f, g>>) = <<b, c, d, e, f, g>>
OBVIOUS

(* Two steps are a chain.                                                  *)
LEMMA Chain2 ==
  ASSUME NEW env, NEW A \in SUBSET States, NEW B \in SUBSET States,
         NEW C \in SUBSET States, NEW x, NEW y, Step(env, A, x, B), Step(env, B, y, C)
  PROVE  Chain(env, A, <<x, y>>, C)
<1>1. Chain(env, B, <<y>>, C)
  BY Chain1
<1>2. <<x, y>> # <<>> /\ <<x, y>>[1] = x /\ Tail(<<x, y>>) = <<y>> /\ Coded(<<x, y>>)
  BY Tails, CodedTuples
<1>. DEFINE c == <<x, y>>
<1>. HIDE DEF c
<1>3. Chain(env, A, c, C)
  BY <1>1, <1>2, ChainFirst DEF c
<1>. QED
  BY <1>3 DEF c

(* Three steps are a chain.                                                *)
LEMMA Chain3 ==
  ASSUME NEW env, NEW A \in SUBSET States, NEW B \in SUBSET States,
         NEW C \in SUBSET States, NEW D \in SUBSET States, NEW x, NEW y, NEW z,
         Step(env, A, x, B), Step(env, B, y, C), Step(env, C, z, D)
  PROVE  Chain(env, A, <<x, y, z>>, D)
<1>1. Chain(env, B, <<y, z>>, D)
  BY Chain2
<1>2. /\ <<x, y, z>> # <<>> /\ <<x, y, z>>[1] = x /\ Tail(<<x, y, z>>) = <<y, z>>
      /\ Coded(<<x, y, z>>)
  BY Tails, CodedTuples
<1>. DEFINE c == <<x, y, z>>
<1>. HIDE DEF c
<1>3. Chain(env, A, c, D)
  BY <1>1, <1>2, ChainFirst DEF c
<1>. QED
  BY <1>3 DEF c

(* Four steps are a chain.                                                 *)
LEMMA Chain4 ==
  ASSUME NEW env, NEW A \in SUBSET States, NEW B \in SUBSET States,
         NEW C \in SUBSET States, NEW D \in SUBSET States, NEW E \in SUBSET States,
         NEW x, NEW y, NEW z, NEW w,
         Step(env, A, x, B), Step(env, B, y, C), Step(env, C, z, D), Step(env, D, w, E)
  PROVE  Chain(env, A, <<x, y, z, w>>, E)
<1>1. Chain(env, B, <<y, z, w>>, E)
  BY Chain3
<1>2. /\ <<x, y, z, w>> # <<>> /\ <<x, y, z, w>>[1] = x
      /\ Tail(<<x, y, z, w>>) = <<y, z, w>> /\ Coded(<<x, y, z, w>>)
  BY Tails, CodedTuples
<1>. DEFINE c == <<x, y, z, w>>
<1>. HIDE DEF c
<1>3. Chain(env, A, c, E)
  BY <1>1, <1>2, ChainFirst DEF c
<1>. QED
  BY <1>3 DEF c

(* Five steps are a chain.                                                 *)
LEMMA Chain5 ==
  ASSUME NEW env, NEW A \in SUBSET States, NEW B \in SUBSET States,
         NEW C \in SUBSET States, NEW D \in SUBSET States, NEW E \in SUBSET States,
         NEW F \in SUBSET States, NEW x, NEW y, NEW z, NEW w, NEW v,
         Step(env, A, x, B), Step(env, B, y, C), Step(env, C, z, D), Step(env, D, w, E),
         Step(env, E, v, F)
  PROVE  Chain(env, A, <<x, y, z, w, v>>, F)
<1>1. Chain(env, B, <<y, z, w, v>>, F)
  BY Chain4
<1>2. /\ <<x, y, z, w, v>> # <<>> /\ <<x, y, z, w, v>>[1] = x
      /\ Tail(<<x, y, z, w, v>>) = <<y, z, w, v>> /\ Coded(<<x, y, z, w, v>>)
  BY Tails, CodedTuples
<1>. DEFINE c == <<x, y, z, w, v>>
<1>. HIDE DEF c
<1>3. Chain(env, A, c, F)
  BY <1>1, <1>2, ChainFirst DEF c
<1>. QED
  BY <1>3 DEF c

-----------------------------------------------------------------------------
(* What stays as it was.                                                   *)

(* The bounds of the stack are words, and there is one more word above.    *)
LEMMA StackIs ==
  /\ StackLimit \in Nat /\ StackTop \in Nat /\ StackTop + 8 \in Word
  /\ StackTop + 8 < WordMod /\ WordMod \in Nat
  /\ "rsp" \in Registers /\ "rbp" \in Registers /\ "rax" \in Registers
  /\ "rbx" \in Registers /\ "rdx" \in Registers /\ "rsi" \in Registers
  /\ "rdi" \in Registers
<1>1. StackLimit \in Nat /\ StackTop \in Nat /\ StackTop + 8 \in Word
  BY StackAssumption
<1>2. StackTop + 8 < WordMod /\ WordMod \in Nat
  BY <1>1, WordIs
<1>. QED
  BY <1>1, <1>2 DEF Registers

(* A state after a calm one is calm while its rsp is in the stack.         *)
LEMMA AfterCalm ==
  ASSUME NEW env, NEW s, Calm(env, s), NEW d \in Int,
         s.reg["rsp"] - d \in StackLimit .. StackTop, NEW t \in After(s, d)
  PROVE  /\ Calm(env, t) /\ t \in States
         /\ t.reg["rsp"] = s.reg["rsp"] - d /\ t.reg["rbp"] = StackTop + 8
<1>1. /\ t \in States /\ t.reg["rsp"] = s.reg["rsp"] - d /\ t.reg["rbp"] = s.reg["rbp"]
      /\ \A x : x \notin StackLimit .. s.reg["rsp"] - 1 =>
                  CellAt(t.mem, x) = CellAt(s.mem, x)
      /\ (t.goto = Trapped => t.loose)
  BY DEF After
<1>2. s.reg["rsp"] \in StackLimit .. StackTop /\ s.reg["rbp"] = StackTop + 8
  BY DEF Calm
<1>3. \A x : x \notin StackLimit .. StackTop - 1 => x \notin StackLimit .. s.reg["rsp"] - 1
  BY <1>2, StackIs
<1>4. \A x : x \notin StackLimit .. StackTop - 1 =>
               CellAt(t.mem, x) = CellAt(Filled(env), x)
  BY <1>1, <1>3 DEF Calm
<1>. QED
  BY <1>1, <1>2, <1>4 DEF Calm

(* A step that leaves the memory alone.                                    *)
LEMMA AfterStep ==
  ASSUME NEW s \in States, NEW d, NEW k, NEW t \in After(s, d),
         NEW u \in States, u.mem = t.mem, (t.loose => u.loose),
         (u.goto = Trapped => u.loose),
         u.reg["rsp"] = s.reg["rsp"] - k, u.reg["rbp"] = t.reg["rbp"]
  PROVE  u \in After(s, k)
<1>1. /\ t \in States /\ t.reg["rsp"] = s.reg["rsp"] - d /\ t.reg["rbp"] = s.reg["rbp"]
      /\ \A x : x \notin StackLimit .. s.reg["rsp"] - 1 =>
                  CellAt(t.mem, x) = CellAt(s.mem, x)
      /\ (s.loose => t.loose)
  BY DEF After
<1>. QED
  BY <1>1 DEF After

(* Writing a register other than rsp and rbp keeps the stack as it was.    *)
LEMMA WritesAfter ==
  ASSUME NEW s \in States, NEW d \in Int, NEW t \in After(s, d), NEW u,
         NEW r \in Registers \ {"rsp", "rbp"}, NEW v, Writes(t, u, r, v)
  PROVE  /\ u \in After(s, d) /\ u \in States /\ u.goto = Onward /\ u.mem = t.mem
         /\ (t.loose => u.loose)
         /\ u.reg[r] = v /\ \A q \in Registers \ {r} : u.reg[q] = t.reg[q]
<1>1. /\ u \in States /\ u.goto = Onward /\ (t.loose => u.loose)
      /\ u.mem = t.mem /\ u.reg = [t.reg EXCEPT ![r] = v]
  BY DEF Writes
<1>2. t \in States /\ t.reg \in [Registers -> Word]
  BY StateParts DEF After
<1>3. u.reg[r] = v /\ \A q \in Registers \ {r} : u.reg[q] = t.reg[q]
  BY <1>1, <1>2
<1>4. u.reg["rsp"] = s.reg["rsp"] - d /\ u.reg["rbp"] = t.reg["rbp"]
  BY <1>3, StackIs DEF After
<1>5. u.goto # Trapped
  BY <1>1 DEF Onward, Trapped
<1>6. u \in After(s, d)
  BY <1>1, <1>4, <1>5, AfterStep
<1>. QED
  BY <1>1, <1>3, <1>6

(* A comparison keeps the stack as it was.                                 *)
LEMMA TestedAfter ==
  ASSUME NEW s \in States, NEW d \in Int, NEW t \in After(s, d), NEW u, NEW z, NEW l,
         Tested(t, u, z, l)
  PROVE  /\ u \in After(s, d) /\ u \in States /\ u.goto = Onward /\ u.mem = t.mem
         /\ (t.loose => u.loose) /\ u.reg = t.reg
         /\ u.flags.known /\ u.flags.z = z /\ u.flags.l = l
<1>1. /\ u \in States /\ u.goto = Onward /\ (t.loose => u.loose)
      /\ u.mem = t.mem /\ u.reg = t.reg
      /\ u.flags.known /\ u.flags.z = z /\ u.flags.l = l
  BY DEF Tested
<1>2. t \in States
  BY DEF After
<1>3. u.reg["rsp"] = s.reg["rsp"] - d
  BY <1>1 DEF After
<1>4. u.goto # Trapped
  BY <1>1 DEF Onward, Trapped
<1>5. u \in After(s, d)
  BY <1>1, <1>3, <1>4, AfterStep
<1>. QED
  BY <1>1, <1>5

(* After an expression: its word is on the stack, above it nothing has     *)
(* changed.                                                                *)
LEMMA YieldsAfter ==
  ASSUME NEW env, NEW s \in States, NEW d \in Nat, NEW t \in After(s, d), NEW e, NEW u,
         Yields(env, e, t, u), t.reg["rsp"] \in StackLimit .. StackTop
  PROVE  /\ u \in After(s, d + 8) /\ u.goto = Onward /\ (t.loose => u.loose)
         /\ ~u.loose => Stands(Load(u.mem, u.reg["rsp"], 8), InC[e][env].val,
                               InC[e][env].exact)
         /\ u.reg["rsp"] = t.reg["rsp"] - 8
         /\ Load(u.mem, t.reg["rsp"], 8) = Load(t.mem, t.reg["rsp"], 8)
<1>1. /\ t \in States /\ t.reg["rsp"] = s.reg["rsp"] - d /\ t.reg["rbp"] = s.reg["rbp"]
      /\ \A x : x \notin StackLimit .. s.reg["rsp"] - 1 =>
                  CellAt(t.mem, x) = CellAt(s.mem, x)
      /\ (s.loose => t.loose)
  BY DEF After
<1>2. /\ u \in States /\ u.reg["rsp"] = t.reg["rsp"] - 8 /\ u.reg["rbp"] = t.reg["rbp"]
      /\ \A x : x \notin StackLimit .. t.reg["rsp"] - 1 =>
                  CellAt(u.mem, x) = CellAt(t.mem, x)
      /\ (t.loose => u.loose) /\ (u.goto = Trapped => u.loose)
  BY DEF Yields, After
<1>3. s.reg["rsp"] \in Int /\ t.reg["rsp"] \in Nat /\ t.reg["rsp"] + 8 <= WordMod
  BY <1>1, StateParts, StackIs
<1>4. \A x : x \notin StackLimit .. s.reg["rsp"] - 1 => x \notin StackLimit .. t.reg["rsp"] - 1
  BY <1>1, <1>3, StackIs
<1>5. u.reg["rsp"] = s.reg["rsp"] - (d + 8)
  BY <1>1, <1>2, <1>3
<1>6. \A x : x \notin StackLimit .. s.reg["rsp"] - 1 => CellAt(u.mem, x) = CellAt(s.mem, x)
  BY <1>1, <1>2, <1>4
<1>7. u \in After(s, d + 8)
  BY <1>1, <1>2, <1>5, <1>6 DEF After
<1>8. Load(u.mem, t.reg["rsp"], 8) = Load(t.mem, t.reg["rsp"], 8)
  <2>. DEFINE p == t.reg["rsp"]
  <2>1. p \in Nat /\ p + 8 <= WordMod
    BY <1>3
  <2>2. \A x \in p .. p + 8 - 1 : x \notin StackLimit .. p - 1
    BY <1>3, StackIs
  <2>3. \A x \in p .. p + 8 - 1 : CellAt(u.mem, x) = CellAt(t.mem, x)
    BY <1>2, <2>2
  <2>4. u.mem \in Memories /\ t.mem \in Memories
    BY <1>1, <1>2, StateParts
  <2>. HIDE DEF p
  <2>5. Load(u.mem, p, 8) = Load(t.mem, p, 8)
    BY <2>1, <2>3, <2>4, LoadKept, 8 \in 1 .. 8
  <2>. QED
    BY <2>5 DEF p
<1>. QED
  BY <1>2, <1>7, <1>8 DEF Yields

(* A push, in a state that has room for it.                                *)
LEMMA PushAfter ==
  ASSUME NEW env, NEW s, Calm(env, s), NEW t \in After(s, 0), NEW o, NEW u,
         Does(Push(o), t, u), ValueIn(t, o) \in Word,
         s.reg["rsp"] - 8 >= StackLimit
  PROVE  /\ u \in After(s, 8) /\ u.goto = Onward /\ (t.loose => u.loose)
         /\ Load(u.mem, u.reg["rsp"], 8) = ValueIn(t, o)
<1>. DEFINE p == s.reg["rsp"]
<1>1. /\ t \in States /\ t.reg["rsp"] = p - 0 /\ t.reg["rbp"] = s.reg["rbp"]
      /\ \A x : x \notin StackLimit .. p - 1 => CellAt(t.mem, x) = CellAt(s.mem, x)
      /\ (s.loose => t.loose)
  BY DEF After
<1>2. p \in StackLimit .. StackTop /\ s \in States
  BY DEF Calm
<1>3. t.reg["rsp"] = p /\ p \in 8 .. StackTop
  BY <1>1, <1>2, StackIs
<1>4. /\ u \in States /\ u.goto = Onward /\ (t.loose => u.loose)
      /\ u.reg = [t.reg EXCEPT !["rsp"] = p - 8]
      /\ Load(u.mem, p - 8, 8) = ValueIn(t, o)
      /\ \A x : x \notin p - 8 .. p - 1 => CellAt(u.mem, x) = CellAt(t.mem, x)
  BY <1>1, <1>3, PushDoes
<1>5. u.reg["rsp"] = p - 8 /\ u.reg["rbp"] = s.reg["rbp"]
  BY <1>1, <1>4, StateParts, StackIs
<1>6. \A x : x \notin StackLimit .. p - 1 => x \notin p - 8 .. p - 1
  BY <1>2, StackIs
<1>7. \A x : x \notin StackLimit .. p - 1 => CellAt(u.mem, x) = CellAt(s.mem, x)
  BY <1>1, <1>4, <1>6
<1>8. u.goto # Trapped
  BY <1>4 DEF Onward, Trapped
<1>9. u \in After(s, 8)
  BY <1>1, <1>4, <1>5, <1>7, <1>8 DEF After
<1>. QED
  BY <1>4, <1>5, <1>9

-----------------------------------------------------------------------------
(* The nodes that have no operands.                                        *)

(* The states a node leaves, and those where its value is in a register.   *)
Yielded(env, e, s) == {t \in States : Yields(env, e, s, t)}

ResultIn(r, env, e, s) ==
  {t \in After(s, 0) :
     ~t.loose => Stands(t.reg[r], InC[e][env].val, InC[e][env].exact)}

Restricted == {"NODE", "SET", "JUMP", "IDIV"}

(* A step by an instruction that asks nothing but calm.                    *)
LEMMA StepAfter ==
  ASSUME NEW env, NEW s, Calm(env, s), NEW d \in Int,
         s.reg["rsp"] - d \in StackLimit .. StackTop,
         NEW A \in SUBSET After(s, d), NEW B, NEW x, x[1] \notin Restricted,
         \A t \in A : \A u : Does(x, t, u) => u \in B
  PROVE  Step(env, A, x, B)
<1>1. ASSUME NEW t \in A PROVE Calm(env, t)
  BY AfterCalm
<1>2. ASSUME NEW t \in A PROVE Safe(env, x, t)
  BY <1>1 DEF Safe, Restricted
<1>3. ASSUME NEW t \in A, NEW u, Post(env, x, t, u) PROVE u \in B
  BY <1>3 DEF Post, Restricted
<1>. QED
  BY <1>2, <1>3 DEF Step

(* A calm state comes after itself.                                        *)
LEMMA SelfAfter ==
  ASSUME NEW env, NEW s, Calm(env, s)
  PROVE  /\ s \in After(s, 0) /\ s \in States /\ s.reg["rsp"] - 0 = s.reg["rsp"]
         /\ s.reg["rsp"] \in Nat /\ s.reg["rsp"] <= StackTop
         /\ s.reg["rsp"] \in StackLimit .. StackTop
<1>1. s \in States /\ s.reg["rsp"] \in StackLimit .. StackTop /\ (s.goto = Trapped => s.loose)
  BY DEF Calm
<1>2. s.reg["rsp"] - 0 = s.reg["rsp"] /\ s.reg["rsp"] \in Nat /\ s.reg["rsp"] <= StackTop
  BY <1>1, StackIs
<1>. QED
  BY <1>1, <1>2 DEF After

(* The word of a register is pushed.                                       *)
LEMMA PushResult ==
  ASSUME NEW env, NEW e, NEW s, Calm(env, s), Fits(env, e, s), NEW r \in {"rax", "rdx"}
  PROVE  /\ Step(env, ResultIn(r, env, e, s), Push(Reg(r, 8)), Yielded(env, e, s))
         /\ ResultIn(r, env, e, s) \in SUBSET States
         /\ Yielded(env, e, s) \in SUBSET States
<1>. DEFINE A == ResultIn(r, env, e, s)
            B == Yielded(env, e, s)
            x == Push(Reg(r, 8))
<1>1. s.reg["rsp"] - 8 >= StackLimit
  <2>1. Depth[e] \in Nat /\ s.reg["rsp"] - 8 * (Depth[e] + 1) >= StackLimit
    BY StackAssumption DEF Fits
  <2>. QED
    BY <2>1, SelfAfter, StackIs
<1>2. ASSUME NEW t \in A, NEW u, Does(x, t, u) PROVE u \in B
  <2>1. t \in After(s, 0) /\ t \in States
    BY DEF ResultIn, After
  <2>2. ValueIn(t, Reg(r, 8)) = t.reg[r] /\ t.reg[r] \in Word
    BY <2>1, RegisterValue, StateParts, StackIs
  <2>3. /\ u \in After(s, 8) /\ u.goto = Onward /\ (t.loose => u.loose)
        /\ Load(u.mem, u.reg["rsp"], 8) = t.reg[r]
    BY <1>1, <1>2, <2>1, <2>2, PushAfter
  <2>4. ~t.loose => Stands(t.reg[r], InC[e][env].val, InC[e][env].exact)
    BY DEF ResultIn
  <2>5. Yields(env, e, s, u) /\ u \in States
    BY <2>3, <2>4 DEF Yields, After
  <2>. QED
    BY <2>5 DEF Yielded
<1>3. A \in SUBSET After(s, 0) /\ A \in SUBSET States /\ B \in SUBSET States
  BY DEF ResultIn, After, Yielded
<1>4. x[1] \notin Restricted
  BY DEF Push, Restricted
<1>5. s.reg["rsp"] - 0 \in StackLimit .. StackTop
  BY SelfAfter
<1>6. Step(env, A, x, B)
  <2>. HIDE DEF A, B, x
  <2>. QED
    BY <1>2, <1>3, <1>4, <1>5, StepAfter
<1>. QED
  BY <1>3, <1>6

(* The code of LiteralInstr does what its node does.                       *)
LEMMA LiteralChain ==
  ASSUME NEW env \in Envs, NEW e \in Expr, e.kind \in Literal, NEW s,
         Calm(env, s), Fits(env, e, s)
  PROVE  Chain(env, {s}, <<Push(Imm(e.val))>>, Yielded(env, e, s))
<1>. DEFINE x == Push(Imm(e.val))
            B == Yielded(env, e, s)
<1>1. s.reg["rsp"] - 8 >= StackLimit
  <2>1. Depth[e] \in Nat /\ s.reg["rsp"] - 8 * (Depth[e] + 1) >= StackLimit
    BY StackAssumption DEF Fits
  <2>. QED
    BY <2>1, SelfAfter, StackIs
<1>2. e.val \in Ints
  BY ExprShape
<1>3. InC[e][env] = Out(e.val, TRUE, TRUE)
  BY InCIs, RuleIs
<1>4. InC[e][env].val = e.val /\ InC[e][env].exact = TRUE
  BY <1>3 DEF Out
<1>5. ValueIn(s, Imm(e.val)) = e.val % WordMod
  BY DEF ValueIn, Imm
<1>6. Stands(e.val % WordMod, e.val, TRUE) /\ e.val % WordMod \in Word
  BY <1>2, ImmediateStands DEF Stands
<1>7. ASSUME NEW t \in {s}, NEW u, Does(x, t, u) PROVE u \in B
  <2>1. /\ u \in After(s, 8) /\ u.goto = Onward
        /\ Load(u.mem, u.reg["rsp"], 8) = e.val % WordMod
    BY <1>1, <1>5, <1>6, <1>7, SelfAfter, PushAfter
  <2>2. Yields(env, e, s, u) /\ u \in States
    BY <1>4, <1>6, <2>1 DEF Yields, After
  <2>. QED
    BY <2>2 DEF Yielded
<1>8. {s} \in SUBSET After(s, 0) /\ {s} \in SUBSET States /\ B \in SUBSET States
  BY SelfAfter DEF Yielded
<1>9. x[1] \notin Restricted
  BY DEF Push, Restricted
<1>10. s.reg["rsp"] - 0 \in StackLimit .. StackTop
  BY SelfAfter
<1>11. Step(env, {s}, x, B)
  <2>. HIDE DEF B, x
  <2>. QED
    BY <1>7, <1>8, <1>9, <1>10, StepAfter
<1>. QED
  BY <1>8, <1>11, Chain1

(* The variables have the values the statement began with.                 *)
LEMMA CalmVariables ==
  ASSUME NEW env \in Envs, NEW s, Calm(env, s), NEW v \in DOMAIN Vars
  PROVE  Load(s.mem, Location(v), Size(Vars[v].type)) = env[v] % Width(Size(Vars[v].type))
<1>. DEFINE n == Size(Vars[v].type)
            L == Location(v)
<1>1. n \in 1 .. 8 /\ L \in Nat /\ L + n <= WordMod
  BY VariableCells
<1>2. \A x \in L .. L + n - 1 : x \notin StackLimit .. StackTop - 1
  <2>1. \A x \in L .. L + n - 1 : x < StackLimit \/ x >= StackTop
    BY VariableCells
  <2>. HIDE DEF L, n
  <2>. QED
    BY <1>1, <2>1, StackIs
<1>3. \A x \in L .. L + n - 1 : CellAt(s.mem, x) = CellAt(Filled(env), x)
  BY <1>2 DEF Calm
<1>4. env \in [DOMAIN Vars -> Int]
  BY EnvTyped
<1>5. s.mem \in Memories /\ Filled(env) \in Memories
  BY <1>4, StateParts, FilledCells DEF Calm
<1>6. Load(Filled(env), L, n) = env[v] % Width(n)
  BY <1>4, FilledLoad
<1>. HIDE DEF L, n
<1>7. Load(s.mem, L, n) = Load(Filled(env), L, n)
  BY <1>1, <1>3, <1>5, LoadKept
<1>8. Load(s.mem, L, n) = env[v] % Width(n)
  BY <1>6, <1>7
<1>. QED
  BY <1>8 DEF L, n

(* The value of a variable, cut to its size, stands for it.                *)
LEMMA VariableStands ==
  ASSUME NEW env \in Envs, NEW v \in DOMAIN Vars
  PROVE  Stands(env[v] % Width(Size(Vars[v].type)), env[v], TRUE)
<1>1. env[v] \in Ints /\ env[v] \in ValuesOf(Vars[v].type) /\ Vars[v].type \in IntTypes
  BY EnvTyped
<1>2. CASE Vars[v].type = "int"
  <2>1. Size(Vars[v].type) = 4
    BY <1>2 DEF Size
  <2>2. Stands(env[v] % IntMod, env[v], TRUE)
    BY <1>1, LowerStands
  <2>. QED
    BY <2>1, <2>2 DEF IntMod
<1>3. CASE Vars[v].type = "char"
  <2>1. Size(Vars[v].type) = 1
    BY <1>3 DEF Size
  <2>2. env[v] \in 0 .. Width(1) - 1
    BY <1>1, <1>3, CharsAreInts
  <2>3. env[v] % Width(1) = env[v]
    <3>. DEFINE W == Width(1)
                x == env[v]
    <3>1. W \in Nat \ {0} /\ x \in 0 .. W - 1
      BY <2>2, CharsAreInts
    <3>. HIDE DEF W, x
    <3>2. x % W = x
      BY <3>1, ModSmall
    <3>. QED
      BY <3>2 DEF W, x
  <2>4. env[v] \in Word
    BY <2>2, CharsAreInts, IntRange DEF Word
  <2>5. Stands(env[v], env[v], TRUE)
    BY <2>4 DEF Stands
  <2>. QED
    BY <2>1, <2>3, <2>5
<1>. QED
  BY <1>1, <1>2, <1>3 DEF IntTypes

(* A variable's value is brought into rax.                                 *)
LEMMA ReadStep ==
  ASSUME NEW env \in Envs, NEW e \in Expr, e.kind = "LValue", NEW s, Calm(env, s)
  PROVE  Step(env, {s}, Mov(Acc(Vars[e.id].type), Place(e.id)), ResultIn("rax", env, e, s))
<1>. DEFINE v == e.id
            x == Mov(Acc(Vars[v].type), Place(v))
            B == ResultIn("rax", env, e, s)
<1>1. v \in DOMAIN Vars
  BY ExprShape
<1>2. InC[e][env] = Out(env[v], TRUE, TRUE)
  BY InCIs, RuleIs
<1>3. InC[e][env].val = env[v] /\ InC[e][env].exact = TRUE
  BY <1>2 DEF Out
<1>4. s.reg["rbp"] = StackTop + 8
  BY DEF Calm
<1>5. ASSUME NEW t \in {s}, NEW u, Does(x, t, u) PROVE u \in B
  <2>1. t = s /\ s \in States /\ s \in After(s, 0)
    BY SelfAfter
  <2>2. /\ Writes(s, u, "rax", u.reg["rax"]) /\ u.reg["rax"] \in Word
        /\ ~u.loose => u.reg["rax"] = Load(s.mem, Location(v), Size(Vars[v].type))
    BY <1>1, <1>4, <1>5, <2>1, ReadDoes
  <2>3. u \in After(s, 0)
    BY <2>1, <2>2, WritesAfter, StackIs
  <2>4. ~u.loose => Stands(u.reg["rax"], env[v], TRUE)
    BY <1>1, <2>2, CalmVariables, VariableStands
  <2>. QED
    BY <1>3, <2>3, <2>4 DEF ResultIn
<1>6. {s} \in SUBSET After(s, 0)
  BY SelfAfter
<1>7. x[1] \notin Restricted
  BY DEF Mov, Restricted
<1>8. s.reg["rsp"] - 0 \in StackLimit .. StackTop
  BY SelfAfter
<1>9. Step(env, {s}, x, B)
  <2>. HIDE DEF B, x
  <2>. QED
    BY <1>5, <1>6, <1>7, <1>8, StepAfter
<1>. QED
  BY <1>9

(* The code of PlaceOnTop does what its node does.                         *)
LEMMA PlaceChain ==
  ASSUME NEW env \in Envs, NEW e \in Expr, e.kind = "LValue", NEW s,
         Calm(env, s), Fits(env, e, s)
  PROVE  Chain(env, {s}, <<Mov(Acc(Vars[e.id].type), Place(e.id)), Push(rax)>>,
               Yielded(env, e, s))
<1>. DEFINE x == Mov(Acc(Vars[e.id].type), Place(e.id))
            B == ResultIn("rax", env, e, s)
<1>1. B \in SUBSET States
  BY PushResult
<1>2. Step(env, {s}, x, B)
  BY ReadStep
<1>3. {s} \in SUBSET States
  BY SelfAfter
<1>4. Yielded(env, e, s) \in SUBSET States
  BY DEF Yielded
<1>5. Step(env, B, Push(rax), Yielded(env, e, s))
  BY PushResult DEF rax
<1>. HIDE DEF x, B
<1>6. Chain(env, {s}, <<x, Push(rax)>>, Yielded(env, e, s))
  BY <1>1, <1>2, <1>3, <1>4, <1>5, Chain2
<1>. QED
  BY <1>6 DEF x

-----------------------------------------------------------------------------
(* The operands of a binary operator.                                      *)

(* A node is translated in a state that has room for it.                   *)
LEMMA NodeStep ==
  ASSUME NEW env, NEW s, Calm(env, s), NEW d \in Nat,
         s.reg["rsp"] - d \in StackLimit .. StackTop,
         NEW A \in SUBSET After(s, d), NEW B, NEW e,
         \A t \in A : Fits(env, e, t),
         \A t \in A : \A u : Yields(env, e, t, u) => u \in B
  PROVE  Step(env, A, Node(e), B)
<1>. DEFINE x == Node(e)
<1>1. x[1] = "NODE" /\ x[2] = e
  BY DEF Node
<1>2. ASSUME NEW t \in A PROVE Calm(env, t)
  BY AfterCalm
<1>. HIDE DEF x
<1>3. ASSUME NEW t \in A PROVE Safe(env, x, t)
  BY <1>1, <1>2 DEF Safe
<1>4. ASSUME NEW t \in A, NEW u, Post(env, x, t, u) PROVE u \in B
  BY <1>1, <1>4 DEF Post
<1>5. Step(env, A, x, B)
  BY <1>3, <1>4 DEF Step
<1>. QED
  BY <1>5 DEF x

(* C's values of the operands; the code is held to them when it is held to *)
(* that of the operation.                                                  *)
LEMMA OperandsInC ==
  ASSUME NEW env \in Envs, NEW e \in Expr, e.kind \in Binary
  PROVE  /\ e.left \in Expr /\ e.right \in Expr
         /\ InC[e.left][env] \in Outs /\ InC[e.right][env] \in Outs
         /\ InC[e.left][env].val \in Ints /\ InC[e.right][env].val \in Ints
         /\ InC[e][env].ok =>
              /\ InC[e.left][env].ok /\ InC[e.right][env].ok
              /\ e.kind \in {"Div", "Mod"} =>
                   InC[e.left][env].val >= 0 /\ InC[e.right][env].val > 0
         /\ InC[e][env].val = BinaryValue(e.kind, InC[e.left][env].val, InC[e.right][env].val)
         /\ InC[e][env].exact =
              (e.kind \in {"Plus", "Prod"} /\ InC[e][env].val = 0
                 => InC[e.left][env].val = 0 \/ InC[e.right][env].val = 0)
<1>1. e.left \in Expr /\ e.right \in Expr
  BY ExprShape
<1>. DEFINE a == InC[e.left][env]
            b == InC[e.right][env]
<1>2. InC[e][env] = BinaryInC(e.kind, a, b)
  BY InCIs, RuleIs
<1>3. a \in Outs /\ b \in Outs
  BY <1>1, InCIs
<1>. HIDE DEF a, b
<1>4. a.val \in Ints /\ b.val \in Ints
  BY <1>3 DEF Outs
<1>5. /\ BinaryInC(e.kind, a, b).val = BinaryValue(e.kind, a.val, b.val)
      /\ BinaryInC(e.kind, a, b).ok =
           (a.ok /\ b.ok /\ (e.kind \in {"Div", "Mod"} => a.val >= 0 /\ b.val > 0))
      /\ BinaryInC(e.kind, a, b).exact =
           (e.kind \in {"Plus", "Prod"} /\ BinaryValue(e.kind, a.val, b.val) = 0
              => a.val = 0 \/ b.val = 0)
  BY DEF BinaryInC, Out
<1>. QED
  BY <1>1, <1>2, <1>3, <1>4, <1>5 DEF a, b

(* The values of the operands are in rax and rbx, as ints.                 *)
Operands(env, e, s) ==
  {t \in After(s, 0) :
     /\ t.goto = Onward
     /\ t.reg["rax"] \in 0 .. IntMod - 1 /\ t.reg["rbx"] \in 0 .. IntMod - 1
     /\ ~t.loose => /\ InC[e][env].ok
                    /\ t.reg["rax"] = InC[e.left][env].val % IntMod
                    /\ t.reg["rbx"] = InC[e.right][env].val % IntMod}

(* Those states on the way there.                                          *)
LeftDone(env, e, s) ==
  {t \in After(s, 8) :
     /\ t.goto = Onward
     /\ ~t.loose => Load(t.mem, s.reg["rsp"] - 8, 8) % IntMod = InC[e.left][env].val % IntMod}
RightDone(env, e, s) ==
  {t \in After(s, 16) :
     /\ t.goto = Onward
     /\ ~t.loose =>
          /\ Load(t.mem, s.reg["rsp"] - 8, 8) % IntMod = InC[e.left][env].val % IntMod
          /\ Load(t.mem, s.reg["rsp"] - 16, 8) % IntMod = InC[e.right][env].val % IntMod}
RightRead(env, e, s) ==
  {t \in After(s, 16) :
     /\ t.goto = Onward /\ t.reg["rbx"] \in 0 .. IntMod - 1
     /\ ~t.loose =>
          /\ Load(t.mem, s.reg["rsp"] - 8, 8) % IntMod = InC[e.left][env].val % IntMod
          /\ t.reg["rbx"] = InC[e.right][env].val % IntMod}
LeftRead(env, e, s) ==
  {t \in After(s, 16) :
     /\ t.goto = Onward
     /\ t.reg["rax"] \in 0 .. IntMod - 1 /\ t.reg["rbx"] \in 0 .. IntMod - 1
     /\ ~t.loose => /\ t.reg["rax"] = InC[e.left][env].val % IntMod
                    /\ t.reg["rbx"] = InC[e.right][env].val % IntMod}

(* There is room for both.                                                 *)
LEMMA OperandsRoom ==
  ASSUME NEW env \in Envs, NEW e \in Expr, e.kind \in Binary, NEW s,
         Calm(env, s), Fits(env, e, s)
  PROVE  /\ s.reg["rsp"] \in Nat /\ s.reg["rsp"] <= StackTop
         /\ s.reg["rsp"] - 8 \in StackLimit .. StackTop
         /\ s.reg["rsp"] - 16 \in StackLimit .. StackTop
         /\ s.reg["rsp"] - 8 * (Depth[e.left] + 1) >= StackLimit
         /\ (s.reg["rsp"] - 8) - 8 * (Depth[e.right] + 1) >= StackLimit
<1>1. /\ Depth[e] \in Nat /\ Depth[e.left] \in Nat /\ Depth[e.right] \in Nat
      /\ Depth[e.left] < Depth[e] /\ Depth[e.right] < Depth[e]
  BY ExprShape
<1>2. s.reg["rsp"] - 8 * (Depth[e] + 1) >= StackLimit
  BY DEF Fits
<1>3. s.reg["rsp"] \in Nat /\ s.reg["rsp"] <= StackTop /\ StackLimit \in Nat /\ StackTop \in Nat
  BY SelfAfter, StackIs
<1>. QED
  BY <1>1, <1>2, <1>3

(* The left operand is evaluated.                                          *)
LEMMA LeftStep ==
  ASSUME NEW env \in Envs, NEW e \in Expr, e.kind \in Binary, NEW s,
         Calm(env, s), Fits(env, e, s)
  PROVE  Step(env, {s}, Node(e.left), LeftDone(env, e, s))
<1>1. s \in After(s, 0) /\ s \in States /\ s.reg["rsp"] - 0 \in StackLimit .. StackTop
  BY SelfAfter
<1>2. Fits(env, e.left, s)
  BY OperandsRoom, OperandsInC DEF Fits
<1>3. ASSUME NEW u, Yields(env, e.left, s, u) PROVE u \in LeftDone(env, e, s)
  <2>1. /\ u \in After(s, 0 + 8) /\ u.goto = Onward
        /\ ~u.loose => Stands(Load(u.mem, u.reg["rsp"], 8), InC[e.left][env].val,
                              InC[e.left][env].exact)
        /\ u.reg["rsp"] = s.reg["rsp"] - 8
    BY <1>1, <1>3, SelfAfter, YieldsAfter
  <2>2. u \in After(s, 8)
    BY <2>1
  <2>. QED
    BY <2>1, <2>2 DEF LeftDone, Stands
<1>4. {s} \in SUBSET After(s, 0)
  BY <1>1
<1>. QED
  BY <1>1, <1>2, <1>3, <1>4, NodeStep

(* The right operand is evaluated; the word of the left one is kept.       *)
LEMMA RightStep ==
  ASSUME NEW env \in Envs, NEW e \in Expr, e.kind \in Binary, NEW s,
         Calm(env, s), Fits(env, e, s)
  PROVE  Step(env, LeftDone(env, e, s), Node(e.right), RightDone(env, e, s))
<1>. DEFINE A == LeftDone(env, e, s)
            B == RightDone(env, e, s)
            f == e.right
<1>1. A \in SUBSET After(s, 8)
  BY DEF LeftDone
<1>2. s \in States /\ s.reg["rsp"] \in Nat
  BY SelfAfter
<1>3. ASSUME NEW t \in A PROVE Fits(env, f, t)
  <2>1. t \in After(s, 8) /\ t.goto = Onward
    BY DEF LeftDone
  <2>2. t.reg["rsp"] = s.reg["rsp"] - 8 /\ (s.loose => t.loose)
    BY <2>1 DEF After
  <2>4. ~t.loose => InC[f][env].ok
    BY <2>2, OperandsInC DEF Fits
  <2>. QED
    BY <2>1, <2>2, <2>4, OperandsRoom, OperandsInC DEF Fits
<1>4. ASSUME NEW t \in A, NEW u, Yields(env, f, t, u) PROVE u \in B
  <2>1. t \in After(s, 8) /\ t.reg["rsp"] = s.reg["rsp"] - 8
    BY DEF LeftDone, After
  <2>2. t.reg["rsp"] \in StackLimit .. StackTop
    BY <2>1, OperandsRoom
  <2>3. /\ u \in After(s, 8 + 8) /\ u.goto = Onward /\ (t.loose => u.loose)
        /\ ~u.loose => Stands(Load(u.mem, u.reg["rsp"], 8), InC[f][env].val, InC[f][env].exact)
        /\ u.reg["rsp"] = t.reg["rsp"] - 8
        /\ Load(u.mem, t.reg["rsp"], 8) = Load(t.mem, t.reg["rsp"], 8)
    BY <1>2, <1>4, <2>1, <2>2, YieldsAfter
  <2>4. u \in After(s, 16) /\ u.reg["rsp"] = s.reg["rsp"] - 16
    BY <1>2, <2>1, <2>3
  <2>5. ~u.loose => Load(u.mem, s.reg["rsp"] - 16, 8) % IntMod = InC[f][env].val % IntMod
    BY <2>3, <2>4 DEF Stands
  <2>6. ~u.loose =>
          Load(u.mem, s.reg["rsp"] - 8, 8) % IntMod = InC[e.left][env].val % IntMod
    BY <2>1, <2>3 DEF LeftDone
  <2>. QED
    BY <2>3, <2>4, <2>5, <2>6 DEF RightDone
<1>. HIDE DEF A, B, f
<1>5. Step(env, A, Node(f), B)
  BY <1>1, <1>3, <1>4, OperandsRoom, NodeStep
<1>. QED
  BY <1>5 DEF A, B, f

(* The lower cells of the right operand are read into rbx.                 *)
LEMMA ReadRightStep ==
  ASSUME NEW env \in Envs, NEW e \in Expr, e.kind \in Binary, NEW s,
         Calm(env, s), Fits(env, e, s)
  PROVE  Step(env, RightDone(env, e, s), Mov(ebx, At("rsp", 0, 4)), RightRead(env, e, s))
<1>. DEFINE A == RightDone(env, e, s)
            B == RightRead(env, e, s)
            x == Mov(ebx, At("rsp", 0, 4))
<1>1. A \in SUBSET After(s, 16)
  BY DEF RightDone
<1>2. ASSUME NEW t \in A, NEW u, Does(x, t, u) PROVE u \in B
  <2>1. t \in After(s, 16) /\ t \in States /\ t.reg["rsp"] = s.reg["rsp"] - 16
    BY <1>1 DEF After
  <2>. DEFINE p == s.reg["rsp"] - 16
              w == Load(t.mem, p, 8)
  <2>2. t.reg["rsp"] + 0 = p /\ t.reg["rsp"] + 0 <= StackTop
    BY <2>1, OperandsRoom
  <2>3. Does(Mov(Reg("rbx", 4), At("rsp", 0, 4)), t, u)
    BY <1>2 DEF ebx
  <2>. HIDE DEF p
  <2>4. /\ Writes(t, u, "rbx", Load(t.mem, p, 4))
        /\ Load(t.mem, p, 4) \in 0 .. IntMod - 1
        /\ Load(t.mem, p, 4) = w % IntMod
    BY <2>1, <2>2, <2>3, MoveTop
  <2>. DEFINE v == Load(t.mem, p, 4)
  <2>. HIDE DEF v, w
  <2>5. Writes(t, u, "rbx", v) /\ v \in 0 .. IntMod - 1 /\ v = w % IntMod
    BY <2>4 DEF v
  <2>8. s \in States /\ 16 \in Int /\ "rbx" \in Registers \ {"rsp", "rbp"}
    BY SelfAfter, StackIs
  <2>6. /\ u \in After(s, 16) /\ u.goto = Onward /\ u.mem = t.mem /\ (t.loose => u.loose)
        /\ u.reg["rbx"] = v
    BY <2>1, <2>5, <2>8, WritesAfter
  <2>7. ~t.loose =>
          /\ Load(t.mem, s.reg["rsp"] - 8, 8) % IntMod = InC[e.left][env].val % IntMod
          /\ w % IntMod = InC[e.right][env].val % IntMod
    BY DEF RightDone, w, p
  <2>. QED
    BY <2>5, <2>6, <2>7 DEF RightRead
<1>3. x[1] \notin Restricted
  BY DEF Mov, Restricted
<1>. HIDE DEF A, B, x
<1>4. Step(env, A, x, B)
  BY <1>1, <1>2, <1>3, OperandsRoom, StepAfter
<1>. QED
  BY <1>4 DEF A, B, x

(* Those of the left operand are read into rax.                            *)
LEMMA ReadLeftStep ==
  ASSUME NEW env \in Envs, NEW e \in Expr, e.kind \in Binary, NEW s,
         Calm(env, s), Fits(env, e, s)
  PROVE  Step(env, RightRead(env, e, s), Mov(eax, At("rsp", 8, 4)), LeftRead(env, e, s))
<1>. DEFINE A == RightRead(env, e, s)
            B == LeftRead(env, e, s)
            x == Mov(eax, At("rsp", 8, 4))
<1>1. A \in SUBSET After(s, 16)
  BY DEF RightRead
<1>2. ASSUME NEW t \in A, NEW u, Does(x, t, u) PROVE u \in B
  <2>1. t \in After(s, 16) /\ t \in States /\ t.reg["rsp"] = s.reg["rsp"] - 16
    BY <1>1 DEF After
  <2>. DEFINE p == s.reg["rsp"] - 8
              w == Load(t.mem, p, 8)
  <2>2. t.reg["rsp"] + 8 = p /\ t.reg["rsp"] + 8 <= StackTop
    BY <2>1, OperandsRoom
  <2>3. Does(Mov(Reg("rax", 4), At("rsp", 8, 4)), t, u)
    BY <1>2 DEF eax
  <2>. HIDE DEF p
  <2>4. /\ Writes(t, u, "rax", Load(t.mem, p, 4))
        /\ Load(t.mem, p, 4) \in 0 .. IntMod - 1
        /\ Load(t.mem, p, 4) = w % IntMod
    BY <2>1, <2>2, <2>3, MoveTop
  <2>. DEFINE v == Load(t.mem, p, 4)
  <2>. HIDE DEF v, w
  <2>5. Writes(t, u, "rax", v) /\ v \in 0 .. IntMod - 1 /\ v = w % IntMod
    BY <2>4 DEF v
  <2>8. /\ s \in States /\ 16 \in Int /\ "rax" \in Registers \ {"rsp", "rbp"}
        /\ "rbx" \in Registers \ {"rax"}
    BY SelfAfter, StackIs
  <2>6. /\ u \in After(s, 16) /\ u.goto = Onward /\ u.mem = t.mem /\ (t.loose => u.loose)
        /\ u.reg["rax"] = v /\ u.reg["rbx"] = t.reg["rbx"]
    BY <2>1, <2>5, <2>8, WritesAfter
  <2>7. /\ t.reg["rbx"] \in 0 .. IntMod - 1
        /\ ~t.loose =>
             /\ w % IntMod = InC[e.left][env].val % IntMod
             /\ t.reg["rbx"] = InC[e.right][env].val % IntMod
    BY DEF RightRead, w, p
  <2>. QED
    BY <2>5, <2>6, <2>7 DEF LeftRead
<1>3. x[1] \notin Restricted
  BY DEF Mov, Restricted
<1>. HIDE DEF A, B, x
<1>4. Step(env, A, x, B)
  BY <1>1, <1>2, <1>3, OperandsRoom, StepAfter
<1>. QED
  BY <1>4 DEF A, B, x

(* Both words are removed from the stack.                                  *)
LEMMA DropStep ==
  ASSUME NEW env \in Envs, NEW e \in Expr, e.kind \in Binary, NEW s,
         Calm(env, s), Fits(env, e, s)
  PROVE  Step(env, LeftRead(env, e, s), Add(rsp, Imm(16)), Operands(env, e, s))
<1>. DEFINE A == LeftRead(env, e, s)
            B == Operands(env, e, s)
            x == Add(rsp, Imm(16))
<1>1. A \in SUBSET After(s, 16)
  BY DEF LeftRead
<1>2. ASSUME NEW t \in A, NEW u, Does(x, t, u) PROVE u \in B
  <2>1. t \in After(s, 16) /\ t \in States /\ t.reg["rsp"] = s.reg["rsp"] - 16
    BY <1>1 DEF After
  <2>2. t.reg["rsp"] \in 0 .. StackTop - 16 /\ t.reg["rsp"] + 16 = s.reg["rsp"] - 0
    BY <2>1, OperandsRoom, StackIs
  <2>3. Writes(t, u, "rsp", t.reg["rsp"] + 16)
    BY <1>2, <2>1, <2>2, DropDoes
  <2>4. /\ u \in States /\ u.goto = Onward /\ (t.loose => u.loose) /\ u.mem = t.mem
        /\ u.reg = [t.reg EXCEPT !["rsp"] = s.reg["rsp"] - 0]
    BY <2>2, <2>3 DEF Writes
  <2>5. /\ u.reg["rsp"] = s.reg["rsp"] - 0 /\ u.reg["rbp"] = t.reg["rbp"]
        /\ u.reg["rax"] = t.reg["rax"] /\ u.reg["rbx"] = t.reg["rbx"]
    BY <2>1, <2>4, StateParts, StackIs
  <2>6. u.goto # Trapped
    BY <2>4 DEF Onward, Trapped
  <2>7. u \in After(s, 0)
    BY <2>1, <2>4, <2>5, <2>6, SelfAfter, AfterStep
  <2>8. /\ t.reg["rax"] \in 0 .. IntMod - 1 /\ t.reg["rbx"] \in 0 .. IntMod - 1
        /\ ~t.loose => /\ t.reg["rax"] = InC[e.left][env].val % IntMod
                       /\ t.reg["rbx"] = InC[e.right][env].val % IntMod
    BY DEF LeftRead
  <2>9. ~t.loose => InC[e][env].ok
    BY <2>1 DEF After, Fits
  <2>. QED
    BY <2>4, <2>5, <2>7, <2>8, <2>9 DEF Operands
<1>3. x[1] \notin Restricted
  BY DEF Add, Restricted
<1>. HIDE DEF A, B, x
<1>4. Step(env, A, x, B)
  BY <1>1, <1>2, <1>3, OperandsRoom, StepAfter
<1>. QED
  BY <1>4 DEF A, B, x

(* The code of BinopPop for e.                                             *)
OperandsCode(e) ==
  <<Node(e.left), Node(e.right), Mov(ebx, At("rsp", 0, 4)),
    Mov(eax, At("rsp", 8, 4)), Add(rsp, Imm(16))>>

(* The code of BinopPop brings the operands into rax and rbx.              *)
LEMMA OperandsChain ==
  ASSUME NEW env \in Envs, NEW e \in Expr, e.kind \in Binary, NEW s,
         Calm(env, s), Fits(env, e, s)
  PROVE  /\ Chain(env, {s}, OperandsCode(e), Operands(env, e, s))
         /\ Coded(OperandsCode(e)) /\ Operands(env, e, s) \in SUBSET States
<1>1. {s} \in SUBSET States
  BY SelfAfter
<1>2. /\ LeftDone(env, e, s) \in SUBSET States /\ RightDone(env, e, s) \in SUBSET States
      /\ RightRead(env, e, s) \in SUBSET States /\ LeftRead(env, e, s) \in SUBSET States
      /\ Operands(env, e, s) \in SUBSET States
  BY DEF LeftDone, RightDone, RightRead, LeftRead, Operands, After
<1>3. /\ Step(env, {s}, Node(e.left), LeftDone(env, e, s))
      /\ Step(env, LeftDone(env, e, s), Node(e.right), RightDone(env, e, s))
      /\ Step(env, RightDone(env, e, s), Mov(ebx, At("rsp", 0, 4)), RightRead(env, e, s))
      /\ Step(env, RightRead(env, e, s), Mov(eax, At("rsp", 8, 4)), LeftRead(env, e, s))
      /\ Step(env, LeftRead(env, e, s), Add(rsp, Imm(16)), Operands(env, e, s))
  BY LeftStep, RightStep, ReadRightStep, ReadLeftStep, DropStep
<1>. DEFINE x == Node(e.left)
            y == Node(e.right)
            z == Mov(ebx, At("rsp", 0, 4))
            w == Mov(eax, At("rsp", 8, 4))
            v == Add(rsp, Imm(16))
<1>. HIDE DEF x, y, z, w, v
<1>4. Chain(env, {s}, <<x, y, z, w, v>>, Operands(env, e, s))
  BY <1>1, <1>2, <1>3, Chain5 DEF x, y, z, w, v
<1>5. Coded(<<x, y, z, w, v>>)
  BY CodedTuples
<1>. QED
  BY <1>2, <1>4, <1>5 DEF OperandsCode, x, y, z, w, v

-----------------------------------------------------------------------------
(* A truth value: the flags hold the condition cc, or not.                 *)

Flagged(s, cc, b) ==
  {t \in After(s, 0) :
     t.flags.known /\ (~t.loose => Holds(cc, t.flags.z, t.flags.l) = b)}
FlaggedZero(s, cc, b) == {t \in Flagged(s, cc, b) : t.reg["rax"] = 0}

(* A condition on known flags is true or false.                            *)
LEMMA HoldsTyped ==
  ASSUME NEW f \in FlagSet, f.known,
         NEW cc \in {"eq", "ne", "gt", "lt", "le", "ge"}
  PROVE  f.z \in BOOLEAN /\ f.l \in BOOLEAN /\ Holds(cc, f.z, f.l) \in BOOLEAN
<1>1. f.z \in BOOLEAN /\ f.l \in BOOLEAN
  <2>1. Unspecified.known = FALSE
    BY DEF Unspecified
  <2>2. f \in [known : {TRUE}, z : BOOLEAN, l : BOOLEAN]
    BY <2>1 DEF FlagSet
  <2>. QED
    BY <2>2
<1>2. Holds(cc, f.z, f.l) \in BOOLEAN
  BY <1>1 DEF Holds
<1>. QED
  BY <1>1, <1>2

(* It becomes the value on the stack.                                      *)
LEMMA TruthChain ==
  ASSUME NEW env \in Envs, NEW e \in Expr, NEW s, Calm(env, s), Fits(env, e, s),
         NEW cc \in {"eq", "ne", "gt", "lt", "le", "ge"}, NEW b \in BOOLEAN,
         ~s.loose => InC[e][env].val = Truth(b)
  PROVE  /\ Chain(env, Flagged(s, cc, b), <<Mov(rax, Imm(0)), Set(cc, al), Push(rax)>>,
                  Yielded(env, e, s))
         /\ Flagged(s, cc, b) \in SUBSET States
<1>. DEFINE A == Flagged(s, cc, b)
            B == FlaggedZero(s, cc, b)
            C == ResultIn("rax", env, e, s)
            D == Yielded(env, e, s)
            x == Mov(rax, Imm(0))
            y == Set(cc, al)
            z == Push(rax)
<1>1. /\ A \in SUBSET After(s, 0) /\ B \in SUBSET After(s, 0)
      /\ A \in SUBSET States /\ B \in SUBSET States /\ C \in SUBSET States
      /\ D \in SUBSET States
  BY DEF Flagged, FlaggedZero, ResultIn, Yielded, After
<1>2. s \in States /\ s.reg["rsp"] - 0 \in StackLimit .. StackTop
  BY SelfAfter
<1>3. ASSUME NEW t \in A, NEW u, Does(x, t, u) PROVE u \in B
  <2>1. t \in After(s, 0) /\ t \in States
    BY <1>1 DEF After
  <2>2. Writes(t, u, "rax", 0) /\ u.flags = t.flags
    BY <1>3, <2>1, MoveZero, StackIs DEF rax
  <2>3. u \in After(s, 0) /\ (t.loose => u.loose) /\ u.reg["rax"] = 0
    BY <1>2, <2>1, <2>2, WritesAfter, StackIs
  <2>4. t.flags.known /\ (~t.loose => Holds(cc, t.flags.z, t.flags.l) = b)
    BY DEF Flagged
  <2>. QED
    BY <2>2, <2>3, <2>4 DEF Flagged, FlaggedZero
<1>4. ASSUME NEW t \in B PROVE Safe(env, y, t)
  <2>1. Calm(env, t) /\ t.flags.known
    BY <1>1, <1>2, AfterCalm DEF FlaggedZero, Flagged
  <2>2. y[1] = "SET" /\ y[2] = cc
    BY DEF Set
  <2>. QED
    BY <2>1, <2>2 DEF Safe
<1>5. ASSUME NEW t \in B, NEW u, Does(y, t, u) PROVE u \in C
  <2>1. t \in After(s, 0) /\ t \in States /\ t.reg["rax"] = 0 /\ cc # "always"
    BY <1>1 DEF After, FlaggedZero
  <2>2. Writes(t, u, "rax", Truth(Holds(cc, t.flags.z, t.flags.l)))
    BY <1>5, <2>1, SetDoes DEF al
  <2>. DEFINE w == Truth(Holds(cc, t.flags.z, t.flags.l))
  <2>3. u \in After(s, 0) /\ (t.loose => u.loose) /\ u.reg["rax"] = w
    <3>1. Writes(t, u, "rax", w)
      BY <2>2
    <3>. HIDE DEF w
    <3>2. s \in States /\ 0 \in Int /\ "rax" \in Registers \ {"rsp", "rbp"}
      BY <1>2, StackIs
    <3>. QED
      BY <2>1, <3>1, <3>2, WritesAfter
  <2>4. ~t.loose => w = Truth(b)
    BY DEF Flagged, FlaggedZero
  <2>5. s.loose => t.loose
    BY <2>1 DEF After
  <2>6. ~u.loose => Stands(w, InC[e][env].val, TRUE)
    BY <2>3, <2>4, <2>5, TruthStands
  <2>7. ~u.loose => Stands(w, InC[e][env].val, InC[e][env].exact)
    BY <2>6 DEF Stands
  <2>. QED
    BY <2>3, <2>7 DEF ResultIn
<1>6. x[1] \notin Restricted /\ y[1] # "NODE"
  BY DEF Mov, Set, Restricted
<1>7. Step(env, C, z, D)
  BY PushResult DEF rax
<1>. HIDE DEF A, B, C, D, x, y, z
<1>8. Step(env, A, x, B)
  BY <1>1, <1>2, <1>3, <1>6, StepAfter
<1>9. Step(env, B, y, C)
  BY <1>4, <1>5, <1>6 DEF Step, Post
<1>10. Chain(env, A, <<x, y, z>>, D)
  BY <1>1, <1>7, <1>8, <1>9, Chain3
<1>. QED
  BY <1>1, <1>10 DEF A, D, x, y, z

-----------------------------------------------------------------------------
(* Sums, differences and products.                                         *)
LEMMA ArithmeticStep ==
  ASSUME NEW env \in Envs, NEW e \in Expr, NEW s, Calm(env, s), Fits(env, e, s)
  PROVE  /\ e.kind = "Plus" =>
              Step(env, Operands(env, e, s), Add(rax, rbx), ResultIn("rax", env, e, s))
         /\ e.kind = "Minus" =>
              Step(env, Operands(env, e, s), Sub(rax, rbx), ResultIn("rax", env, e, s))
         /\ e.kind = "Prod" =>
              Step(env, Operands(env, e, s), Imul(rax, rbx), ResultIn("rax", env, e, s))
<1>. DEFINE A == Operands(env, e, s)
            B == ResultIn("rax", env, e, s)
            a == InC[e.left][env].val
            b == InC[e.right][env].val
<1>1. A \in SUBSET After(s, 0)
  BY DEF Operands
<1>2. s \in States /\ s.reg["rsp"] - 0 \in StackLimit .. StackTop
  BY SelfAfter
<1>3. ASSUME NEW t \in A
      PROVE  /\ t \in States /\ t \in After(s, 0)
             /\ ~t.loose => t.reg["rax"] = a % IntMod /\ t.reg["rbx"] = b % IntMod
  BY DEF Operands, After
<1>4. ASSUME NEW t \in A, NEW u, NEW v, Writes(t, u, "rax", v),
             ~t.loose => Stands(v, InC[e][env].val, InC[e][env].exact)
      PROVE  u \in B
  <2>1. s \in States /\ 0 \in Int /\ "rax" \in Registers \ {"rsp", "rbp"}
    BY <1>2, StackIs
  <2>2. u \in After(s, 0) /\ (t.loose => u.loose) /\ u.reg["rax"] = v
    BY <1>3, <1>4, <2>1, WritesAfter
  <2>. QED
    BY <1>4, <2>2 DEF ResultIn
<1>5. e.kind \in {"Plus", "Minus", "Prod"} => a \in Ints /\ b \in Ints
  BY OperandsInC DEF Binary, Arith
<1>6. CASE e.kind = "Plus"
  <2>1. /\ InC[e][env].val = ToInt(a + b)
        /\ InC[e][env].exact = (ToInt(a + b) = 0 => a = 0 \/ b = 0)
    <3>1. /\ InC[e][env].val = BinaryValue(e.kind, a, b)
          /\ InC[e][env].exact =
               (e.kind \in {"Plus", "Prod"} /\ InC[e][env].val = 0 => a = 0 \/ b = 0)
      BY <1>6, OperandsInC DEF Binary, Arith
    <3>2. BinaryValue(e.kind, a, b) = ToInt(a + b)
      BY <1>6 DEF BinaryValue
    <3>. QED
      BY <1>6, <3>1, <3>2
  <2>2. Stands(((a % IntMod) + (b % IntMod)) % WordMod, InC[e][env].val, InC[e][env].exact)
    BY <1>5, <1>6, <2>1, SumStands
  <2>3. ASSUME NEW t \in A, NEW u, Does(Add(rax, rbx), t, u) PROVE u \in B
    <3>1. Writes(t, u, "rax", (t.reg["rax"] + t.reg["rbx"]) % WordMod)
      BY <1>3, <2>3, ArithmeticDoes
    <3>2. ~t.loose => Stands((t.reg["rax"] + t.reg["rbx"]) % WordMod, InC[e][env].val,
                             InC[e][env].exact)
      BY <1>3, <2>2
    <3>. QED
      BY <1>4, <3>1, <3>2
  <2>. DEFINE x == Add(rax, rbx)
  <2>4. x[1] \notin Restricted
    BY DEF Add, Restricted
  <2>5. \A t \in A : \A u : Does(x, t, u) => u \in B
    BY <2>3
  <2>. HIDE DEF A, B, x
  <2>6. Step(env, A, x, B)
    BY <1>1, <1>2, <2>4, <2>5, StepAfter
  <2>. QED
    BY <1>6, <2>6 DEF A, B, x
<1>7. CASE e.kind = "Minus"
  <2>1. /\ InC[e][env].val = ToInt(a - b)
        /\ InC[e][env].exact = TRUE
    <3>1. /\ InC[e][env].val = BinaryValue(e.kind, a, b)
          /\ InC[e][env].exact =
               (e.kind \in {"Plus", "Prod"} /\ InC[e][env].val = 0 => a = 0 \/ b = 0)
      BY <1>7, OperandsInC DEF Binary, Arith
    <3>2. BinaryValue(e.kind, a, b) = ToInt(a - b)
      BY <1>7 DEF BinaryValue
    <3>. QED
      BY <1>7, <3>1, <3>2
  <2>2. Stands(((a % IntMod) - (b % IntMod)) % WordMod, InC[e][env].val, InC[e][env].exact)
    BY <1>5, <1>7, <2>1, DifferenceStands
  <2>3. ASSUME NEW t \in A, NEW u, Does(Sub(rax, rbx), t, u) PROVE u \in B
    <3>1. Writes(t, u, "rax", (t.reg["rax"] - t.reg["rbx"]) % WordMod)
      BY <1>3, <2>3, ArithmeticDoes
    <3>2. ~t.loose => Stands((t.reg["rax"] - t.reg["rbx"]) % WordMod, InC[e][env].val,
                             InC[e][env].exact)
      BY <1>3, <2>2
    <3>. QED
      BY <1>4, <3>1, <3>2
  <2>. DEFINE x == Sub(rax, rbx)
  <2>4. x[1] \notin Restricted
    BY DEF Sub, Restricted
  <2>5. \A t \in A : \A u : Does(x, t, u) => u \in B
    BY <2>3
  <2>. HIDE DEF A, B, x
  <2>6. Step(env, A, x, B)
    BY <1>1, <1>2, <2>4, <2>5, StepAfter
  <2>. QED
    BY <1>7, <2>6 DEF A, B, x
<1>8. CASE e.kind = "Prod"
  <2>1. /\ InC[e][env].val = ToInt(a * b)
        /\ InC[e][env].exact = (ToInt(a * b) = 0 => a = 0 \/ b = 0)
    <3>1. /\ InC[e][env].val = BinaryValue(e.kind, a, b)
          /\ InC[e][env].exact =
               (e.kind \in {"Plus", "Prod"} /\ InC[e][env].val = 0 => a = 0 \/ b = 0)
      BY <1>8, OperandsInC DEF Binary, Arith
    <3>2. BinaryValue(e.kind, a, b) = ToInt(a * b)
      BY <1>8 DEF BinaryValue
    <3>. QED
      BY <1>8, <3>1, <3>2
  <2>2. Stands(((a % IntMod) * (b % IntMod)) % WordMod, InC[e][env].val, InC[e][env].exact)
    BY <1>5, <1>8, <2>1, ProductStands
  <2>3. ASSUME NEW t \in A, NEW u, Does(Imul(rax, rbx), t, u) PROVE u \in B
    <3>1. Writes(t, u, "rax", (t.reg["rax"] * t.reg["rbx"]) % WordMod)
      BY <1>3, <2>3, ArithmeticDoes
    <3>2. ~t.loose => Stands((t.reg["rax"] * t.reg["rbx"]) % WordMod, InC[e][env].val,
                             InC[e][env].exact)
      BY <1>3, <2>2
    <3>. QED
      BY <1>4, <3>1, <3>2
  <2>. DEFINE x == Imul(rax, rbx)
  <2>4. x[1] \notin Restricted
    BY DEF Imul, Restricted
  <2>5. \A t \in A : \A u : Does(x, t, u) => u \in B
    BY <2>3
  <2>. HIDE DEF A, B, x
  <2>6. Step(env, A, x, B)
    BY <1>1, <1>2, <2>4, <2>5, StepAfter
  <2>. QED
    BY <1>8, <2>6 DEF A, B, x
<1>. QED
  BY <1>6, <1>7, <1>8

-----------------------------------------------------------------------------
(* Quotients and remainders.                                               *)

Cleared(env, e, s) == {t \in Operands(env, e, s) : t.reg["rdx"] = 0}

(* rdx is cleared, so that IDIV may divide.                                *)
LEMMA ClearStep ==
  ASSUME NEW env \in Envs, NEW e \in Expr, NEW s, Calm(env, s), Fits(env, e, s)
  PROVE  Step(env, Operands(env, e, s), Mov(rdx, Imm(0)), Cleared(env, e, s))
<1>. DEFINE A == Operands(env, e, s)
            B == Cleared(env, e, s)
            x == Mov(rdx, Imm(0))
<1>1. A \in SUBSET After(s, 0)
  BY DEF Operands
<1>2. s \in States /\ s.reg["rsp"] - 0 \in StackLimit .. StackTop
  BY SelfAfter
<1>3. ASSUME NEW t \in A, NEW u, Does(x, t, u) PROVE u \in B
  <2>1. t \in After(s, 0) /\ t \in States
    BY <1>1 DEF After
  <2>2. Writes(t, u, "rdx", 0)
    BY <1>3, <2>1, MoveZero, StackIs DEF rdx
  <2>3. s \in States /\ 0 \in Int /\ "rdx" \in Registers \ {"rsp", "rbp"}
        /\ "rax" \in Registers \ {"rdx"} /\ "rbx" \in Registers \ {"rdx"}
    BY <1>2, StackIs
  <2>4. /\ u \in After(s, 0) /\ (t.loose => u.loose) /\ u.reg["rdx"] = 0 /\ u.goto = Onward
        /\ u.reg["rax"] = t.reg["rax"] /\ u.reg["rbx"] = t.reg["rbx"]
    BY <2>1, <2>2, <2>3, WritesAfter
  <2>. QED
    BY <2>4 DEF Operands, Cleared
<1>4. x[1] \notin Restricted
  BY DEF Mov, Restricted
<1>. HIDE DEF A, B, x
<1>5. Step(env, A, x, B)
  BY <1>1, <1>2, <1>3, <1>4, StepAfter
<1>. QED
  BY <1>5 DEF A, B, x

(* The instruction IDIV can be executed, and traps only where C does not   *)
(* say what a division gives.                                              *)
LEMMA DivisionStep ==
  ASSUME NEW env \in Envs, NEW e \in Expr, NEW s, Calm(env, s), Fits(env, e, s),
         NEW r \in {"rax", "rdx"}, e.kind = (IF r = "rax" THEN "Div" ELSE "Mod")
  PROVE  Step(env, Cleared(env, e, s), Idiv(rbx), ResultIn(r, env, e, s))
<1>. DEFINE A == Cleared(env, e, s)
            B == ResultIn(r, env, e, s)
            a == InC[e.left][env].val
            b == InC[e.right][env].val
            x == Idiv(rbx)
<1>1. A \in SUBSET After(s, 0)
  BY DEF Operands, Cleared
<1>2. s \in States /\ s.reg["rsp"] - 0 \in StackLimit .. StackTop
  BY SelfAfter
<1>3. e.kind \in Binary /\ e.kind \in {"Div", "Mod"} /\ e.kind \notin {"Plus", "Prod"}
  BY DEF Binary, Arith
<1>4. ASSUME NEW t \in A
      PROVE  /\ t \in States /\ t \in After(s, 0) /\ t.reg["rdx"] = 0
             /\ t.reg["rax"] \in 0 .. IntMod - 1 /\ t.reg["rbx"] \in 0 .. IntMod - 1
             /\ ~t.loose => /\ InC[e][env].ok
                            /\ t.reg["rax"] = a % IntMod /\ t.reg["rbx"] = b % IntMod
  BY DEF Operands, Cleared, After
<1>5. /\ a \in Ints /\ b \in Ints
      /\ InC[e][env].ok => a >= 0 /\ b > 0
      /\ InC[e][env].val = BinaryValue(e.kind, a, b)
      /\ InC[e][env].exact = TRUE
  BY <1>3, OperandsInC
<1>6. ASSUME NEW t \in A PROVE Safe(env, x, t)
  <2>1. Calm(env, t)
    BY <1>1, <1>2, AfterCalm
  <2>2. ValueIn(t, rbx) = t.reg["rbx"]
    BY <1>4, RegisterValue, StackIs DEF rbx
  <2>3. IntMod - 1 <= WordMod \div 2 - 1 /\ IntMod \in Nat /\ WordMod \div 2 \in Nat
    BY IntRange
  <2>4. t.reg["rax"] \in 0 .. WordMod \div 2 - 1 /\ t.reg["rbx"] \in 0 .. WordMod \div 2 - 1
    BY <1>4, <2>3
  <2>5. DividesIn(t, rbx)
    BY <1>4, <2>2, <2>4 DEF DividesIn
  <2>6. x[1] = "IDIV" /\ x[2] = rbx
    BY DEF Idiv
  <2>. QED
    BY <2>1, <2>5, <2>6 DEF Safe
<1>7. ASSUME NEW t \in A, NEW u, Does(x, t, u) PROVE u \in B
  <2>1. /\ u \in States /\ (t.loose => u.loose) /\ u.mem = t.mem
        /\ u.reg["rsp"] = t.reg["rsp"] /\ u.reg["rbp"] = t.reg["rbp"]
        /\ u.goto = Onward \/ (u.goto = Trapped /\ t.reg["rbx"] = 0)
        /\ t.reg["rbx"] # 0 =>
             /\ u.reg["rax"] = t.reg["rax"] \div t.reg["rbx"]
             /\ u.reg["rdx"] = t.reg["rax"]
                                 - ((t.reg["rax"] \div t.reg["rbx"]) * t.reg["rbx"])
    BY <1>4, <1>7, DivideDoes
  <2>2. ASSUME ~t.loose
        PROVE  /\ t.reg["rax"] = a /\ t.reg["rbx"] = b /\ a >= 0 /\ b > 0
               /\ t.reg["rbx"] # 0
    <3>1. a >= 0 /\ b > 0
      BY <1>4, <1>5, <2>2
    <3>2. a % IntMod = a /\ b % IntMod = b
      BY <1>5, <3>1, QuotientStands
    <3>. QED
      BY <1>4, <2>2, <3>1, <3>2
  <2>3. u.goto = Trapped => u.loose
    <3>1. u.goto = Trapped => t.reg["rbx"] = 0
      BY <2>1 DEF Onward, Trapped
    <3>. QED
      BY <2>1, <2>2, <3>1
  <2>4. u.reg["rsp"] = s.reg["rsp"] - 0
    BY <1>4, <2>1 DEF After
  <2>5. u \in After(s, 0)
    BY <1>2, <1>4, <2>1, <2>3, <2>4, AfterStep
  <2>6. ~u.loose => Stands(u.reg[r], InC[e][env].val, TRUE)
    <3>1. SUFFICES ASSUME ~u.loose PROVE Stands(u.reg[r], InC[e][env].val, TRUE)
      OBVIOUS
    <3>2. ~t.loose
      BY <2>1, <3>1
    <3>3. /\ t.reg["rax"] = a /\ t.reg["rbx"] = b /\ a >= 0 /\ b > 0 /\ t.reg["rbx"] # 0
      BY <2>2, <3>2
    <3>. HIDE DEF a, b
    <3>4. u.reg["rax"] = a \div b /\ u.reg["rdx"] = a - ((a \div b) * b)
      BY <2>1, <3>3
    <3>5. /\ Stands(a \div b, a \div b, TRUE) /\ Stands(a % b, a % b, TRUE)
          /\ a - ((a \div b) * b) = a % b
      BY <1>5, <3>3, QuotientStands
    <3>6. InC[e][env].val = IF r = "rax" THEN a \div b ELSE a % b
      BY <1>5, <3>3 DEF BinaryValue
    <3>7. CASE r = "rax"
      BY <3>4, <3>5, <3>6, <3>7
    <3>8. CASE r = "rdx"
      BY <3>4, <3>5, <3>6, <3>8
    <3>. QED
      BY <3>7, <3>8
  <2>. QED
    BY <1>5, <2>5, <2>6 DEF ResultIn
<1>8. x[1] # "NODE"
  BY DEF Idiv
<1>. HIDE DEF A, B, x
<1>9. Step(env, A, x, B)
  BY <1>6, <1>7, <1>8 DEF Step, Post
<1>. QED
  BY <1>9 DEF A, B, x

-----------------------------------------------------------------------------
(* The code of IntOp, kind by kind.                                        *)
LEMMA IntOpChain ==
  ASSUME NEW env \in Envs, NEW e \in Expr, NEW s, Calm(env, s), Fits(env, e, s)
  PROVE  /\ e.kind = "Plus" =>
              Chain(env, Operands(env, e, s), <<Add(rax, rbx), Push(rax)>>, Yielded(env, e, s))
         /\ e.kind = "Minus" =>
              Chain(env, Operands(env, e, s), <<Sub(rax, rbx), Push(rax)>>, Yielded(env, e, s))
         /\ e.kind = "Prod" =>
              Chain(env, Operands(env, e, s), <<Imul(rax, rbx), Push(rax)>>, Yielded(env, e, s))
         /\ e.kind = "Div" =>
              Chain(env, Operands(env, e, s), <<Mov(rdx, Imm(0)), Idiv(rbx), Push(rax)>>,
                    Yielded(env, e, s))
         /\ e.kind = "Mod" =>
              Chain(env, Operands(env, e, s), <<Mov(rdx, Imm(0)), Idiv(rbx), Push(rdx)>>,
                    Yielded(env, e, s))
<1>. DEFINE A == Operands(env, e, s)
            B == Cleared(env, e, s)
            C == ResultIn("rax", env, e, s)
            D == ResultIn("rdx", env, e, s)
            Y == Yielded(env, e, s)
<1>1. /\ A \in SUBSET States /\ B \in SUBSET States /\ C \in SUBSET States
      /\ D \in SUBSET States /\ Y \in SUBSET States
  BY DEF Operands, Cleared, ResultIn, Yielded, After
<1>2. Step(env, C, Push(rax), Y) /\ Step(env, D, Push(rdx), Y)
  BY PushResult DEF rax, rdx
<1>3. /\ e.kind = "Plus" => Step(env, A, Add(rax, rbx), C)
      /\ e.kind = "Minus" => Step(env, A, Sub(rax, rbx), C)
      /\ e.kind = "Prod" => Step(env, A, Imul(rax, rbx), C)
  BY ArithmeticStep
<1>4. Step(env, A, Mov(rdx, Imm(0)), B)
  BY ClearStep
<1>5. e.kind = "Div" => Step(env, B, Idiv(rbx), C)
  BY DivisionStep
<1>6. e.kind = "Mod" => Step(env, B, Idiv(rbx), D)
  BY DivisionStep
<1>. DEFINE add == Add(rax, rbx)
            sub == Sub(rax, rbx)
            mul == Imul(rax, rbx)
            clear == Mov(rdx, Imm(0))
            div == Idiv(rbx)
            pa == Push(rax)
            pd == Push(rdx)
<1>. HIDE DEF A, B, C, D, Y, add, sub, mul, clear, div, pa, pd
<1>7. /\ e.kind = "Plus" => Chain(env, A, <<add, pa>>, Y)
      /\ e.kind = "Minus" => Chain(env, A, <<sub, pa>>, Y)
      /\ e.kind = "Prod" => Chain(env, A, <<mul, pa>>, Y)
  BY <1>1, <1>2, <1>3, Chain2 DEF add, sub, mul, pa
<1>8. e.kind = "Div" => Chain(env, A, <<clear, div, pa>>, Y)
  BY <1>1, <1>2, <1>4, <1>5, Chain3 DEF clear, div, pa
<1>9. e.kind = "Mod" => Chain(env, A, <<clear, div, pd>>, Y)
  BY <1>1, <1>2, <1>4, <1>6, Chain3 DEF clear, div, pd
<1>. QED
  BY <1>7, <1>8, <1>9 DEF A, Y, add, sub, mul, clear, div, pa, pd

-----------------------------------------------------------------------------
(* Comparisons.                                                            *)
ConditionOf(kind) ==
  CASE kind = "==" -> "eq"
    [] kind = "!=" -> "ne"
    [] kind = ">" -> "gt"
    [] kind = ">=" -> "ge"
    [] kind = "<" -> "lt"
    [] kind = "<=" -> "le"

(* The condition BoolBinop picks says what C says of the comparison.       *)
LEMMA ConditionRule ==
  ASSUME NEW kind \in Compars, NEW a \in Ints, NEW b \in Ints
  PROVE  /\ Holds(ConditionOf(kind), a = b, a < b) \in BOOLEAN
         /\ BinaryValue(kind, a, b) = Truth(Holds(ConditionOf(kind), a = b, a < b))
         /\ ConditionOf(kind) \in {"eq", "ne", "gt", "lt", "le", "ge"}
<1>1. a \in Int /\ b \in Int
  BY IntRange
<1>2. CASE kind = "=="
  BY <1>1, <1>2 DEF ConditionOf, Holds, BinaryValue
<1>3. CASE kind = "!="
  BY <1>1, <1>3 DEF ConditionOf, Holds, BinaryValue
<1>4. CASE kind = ">"
  <2>1. (a > b) = (~(a = b) /\ ~(a < b))
    BY <1>1
  <2>. QED
    BY <2>1, <1>4 DEF ConditionOf, Holds, BinaryValue
<1>5. CASE kind = ">="
  <2>1. (a >= b) = (~(a < b))
    BY <1>1
  <2>. QED
    BY <2>1, <1>5 DEF ConditionOf, Holds, BinaryValue
<1>6. CASE kind = "<"
  BY <1>1, <1>6 DEF ConditionOf, Holds, BinaryValue
<1>7. CASE kind = "<="
  <2>1. (a <= b) = (a = b \/ a < b)
    BY <1>1
  <2>. QED
    BY <2>1, <1>7 DEF ConditionOf, Holds, BinaryValue
<1>. QED
  BY <1>2, <1>3, <1>4, <1>5, <1>6, <1>7 DEF Compars

(* The operands are compared as ints.                                      *)
LEMMA CompareStep ==
  ASSUME NEW env \in Envs, NEW e \in Expr, e.kind \in Compars, NEW s, Calm(env, s),
         Fits(env, e, s)
  PROVE  Step(env, Operands(env, e, s), Cmp(eax, ebx),
              Flagged(s, ConditionOf(e.kind),
                      Holds(ConditionOf(e.kind), InC[e.left][env].val = InC[e.right][env].val,
                            InC[e.left][env].val < InC[e.right][env].val)))
<1>. DEFINE a == InC[e.left][env].val
            b == InC[e.right][env].val
            cc == ConditionOf(e.kind)
            A == Operands(env, e, s)
            B == Flagged(s, cc, Holds(cc, a = b, a < b))
            x == Cmp(eax, ebx)
<1>1. A \in SUBSET After(s, 0)
  BY DEF Operands
<1>2. s \in States /\ s.reg["rsp"] - 0 \in StackLimit .. StackTop
  BY SelfAfter
<1>3. a \in Ints /\ b \in Ints
  BY OperandsInC DEF Binary
<1>4. ASSUME NEW t \in A
      PROVE  /\ t \in States /\ t \in After(s, 0)
             /\ t.reg["rax"] \in 0 .. IntMod - 1 /\ t.reg["rbx"] \in 0 .. IntMod - 1
             /\ ~t.loose => t.reg["rax"] = a % IntMod /\ t.reg["rbx"] = b % IntMod
  BY DEF Operands, After
<1>5. ASSUME NEW t \in A, NEW u, Does(x, t, u) PROVE u \in B
  <2>. DEFINE z == (t.reg["rax"] = t.reg["rbx"])
              l == (Signed(t.reg["rax"], 4) < Signed(t.reg["rbx"], 4))
  <2>1. Tested(t, u, z, l)
    BY <1>4, <1>5, CompareInts
  <2>2. ~t.loose => z = (a = b) /\ l = (a < b)
    <3>1. Signed(a % IntMod, 4) = a /\ Signed(b % IntMod, 4) = b
      BY <1>3, SignedBack
    <3>2. (a % IntMod = b % IntMod) = (a = b)
      BY <3>1
    <3>. QED
      BY <1>4, <3>1, <3>2
  <2>. HIDE DEF z, l
  <2>3. /\ u \in After(s, 0) /\ (t.loose => u.loose)
        /\ u.flags.known /\ u.flags.z = z /\ u.flags.l = l
    BY <1>2, <1>4, <2>1, TestedAfter, 0 \in Int
  <2>. QED
    BY <2>2, <2>3 DEF Flagged
<1>6. x[1] \notin Restricted
  BY DEF Cmp, Restricted
<1>. HIDE DEF A, B, x
<1>7. Step(env, A, x, B)
  BY <1>1, <1>2, <1>5, <1>6, StepAfter
<1>. QED
  BY <1>7 DEF A, B, x

(* The code of BoolBinop after BinopPop leaves the value of the            *)
(* comparison.                                                             *)
LEMMA CompareChain ==
  ASSUME NEW env \in Envs, NEW e \in Expr, e.kind \in Compars, NEW s, Calm(env, s),
         Fits(env, e, s)
  PROVE  Chain(env, Operands(env, e, s),
               <<Cmp(eax, ebx), Mov(rax, Imm(0)), Set(ConditionOf(e.kind), al), Push(rax)>>,
               Yielded(env, e, s))
<1>. DEFINE a == InC[e.left][env].val
            b == InC[e.right][env].val
            cc == ConditionOf(e.kind)
            h == Holds(cc, a = b, a < b)
            A == Operands(env, e, s)
            B == Flagged(s, cc, h)
            Y == Yielded(env, e, s)
            x == Cmp(eax, ebx)
            y == Mov(rax, Imm(0))
            z == Set(cc, al)
            w == Push(rax)
<1>1. a \in Ints /\ b \in Ints /\ InC[e][env].val = BinaryValue(e.kind, a, b)
  BY OperandsInC DEF Binary
<1>2. /\ h \in BOOLEAN /\ InC[e][env].val = Truth(h)
      /\ cc \in {"eq", "ne", "gt", "lt", "le", "ge"}
  BY <1>1, ConditionRule
<1>3. Chain(env, B, <<y, z, w>>, Y) /\ B \in SUBSET States
  <2>. HIDE DEF h, cc
  <2>. QED
    BY <1>2, TruthChain
<1>4. Step(env, A, x, B)
  BY CompareStep
<1>5. A \in SUBSET States
  BY DEF Operands, After
<1>. HIDE DEF A, B, Y, x, y, z, w
<1>6. /\ <<x, y, z, w>> # <<>> /\ <<x, y, z, w>>[1] = x
      /\ Tail(<<x, y, z, w>>) = <<y, z, w>> /\ Coded(<<x, y, z, w>>)
  BY Tails, CodedTuples
<1>. DEFINE c == <<x, y, z, w>>
<1>. HIDE DEF c
<1>7. Chain(env, A, c, Y)
  BY <1>3, <1>4, <1>5, <1>6, ChainFirst DEF c
<1>. QED
  BY <1>7 DEF c, A, Y, x, y, z, w

-----------------------------------------------------------------------------
(* A step that writes a register only.                                     *)
LEMMA WritesHere ==
  ASSUME NEW s \in States, NEW t \in After(s, 0), NEW u,
         NEW r \in Registers \ {"rsp", "rbp"}, NEW v, Writes(t, u, r, v)
  PROVE  /\ u \in After(s, 0) /\ (t.loose => u.loose) /\ u.reg[r] = v
         /\ \A q \in Registers \ {r} : u.reg[q] = t.reg[q]
<1>. DEFINE d == 0
<1>1. d \in Int /\ t \in After(s, d)
  OBVIOUS
<1>. HIDE DEF d
<1>2. /\ u \in After(s, d) /\ (t.loose => u.loose) /\ u.reg[r] = v
      /\ \A q \in Registers \ {r} : u.reg[q] = t.reg[q]
  BY <1>1, WritesAfter
<1>. QED
  BY <1>2 DEF d

(* A value is written to one of rax and rbx, the other keeps its own.      *)
LEMMA WritesRax ==
  ASSUME NEW s \in States, NEW t \in After(s, 0), NEW u, NEW v, Writes(t, u, "rax", v)
  PROVE  /\ u \in After(s, 0) /\ (t.loose => u.loose) /\ u.reg["rax"] = v
         /\ u.reg["rbx"] = t.reg["rbx"]
<1>. DEFINE r == "rax"
<1>1. r \in Registers \ {"rsp", "rbp"} /\ "rbx" \in Registers \ {r} /\ Writes(t, u, r, v)
  BY StackIs
<1>. HIDE DEF r
<1>2. /\ u \in After(s, 0) /\ (t.loose => u.loose) /\ u.reg[r] = v
      /\ \A q \in Registers \ {r} : u.reg[q] = t.reg[q]
  BY <1>1, WritesHere
<1>. QED
  BY <1>1, <1>2 DEF r

(* The same of rbx.                                                        *)
LEMMA WritesRbx ==
  ASSUME NEW s \in States, NEW t \in After(s, 0), NEW u, NEW v, Writes(t, u, "rbx", v)
  PROVE  /\ u \in After(s, 0) /\ (t.loose => u.loose) /\ u.reg["rbx"] = v
         /\ u.reg["rax"] = t.reg["rax"]
<1>. DEFINE r == "rbx"
<1>1. r \in Registers \ {"rsp", "rbp"} /\ "rax" \in Registers \ {r} /\ Writes(t, u, r, v)
  BY StackIs
<1>. HIDE DEF r
<1>2. /\ u \in After(s, 0) /\ (t.loose => u.loose) /\ u.reg[r] = v
      /\ \A q \in Registers \ {r} : u.reg[q] = t.reg[q]
  BY <1>1, WritesHere
<1>. QED
  BY <1>1, <1>2 DEF r

(* And and Or.                                                             *)

(* States t after s with goto Onward where P holds unless the code is not  *)
(* held to C: those of the truth values of an And.                         *)
LeftTested(env, e, s) ==
  {t \in After(s, 0) :
     /\ t.reg["rbx"] \in 0 .. IntMod - 1 /\ t.flags.known
     /\ ~t.loose => /\ t.flags.z = (InC[e.left][env].val = 0)
                    /\ t.reg["rbx"] = InC[e.right][env].val % IntMod}
LeftTestedZero(env, e, s) == {t \in LeftTested(env, e, s) : t.reg["rax"] = 0}
LeftTruth(env, e, s) ==
  {t \in After(s, 0) :
     /\ t.reg["rax"] \in {0, 1} /\ t.reg["rbx"] \in 0 .. IntMod - 1
     /\ ~t.loose => /\ t.reg["rax"] = Truth(InC[e.left][env].val # 0)
                    /\ t.reg["rbx"] = InC[e.right][env].val % IntMod}
RightTested(env, e, s) ==
  {t \in After(s, 0) :
     /\ t.reg["rax"] \in {0, 1} /\ t.flags.known
     /\ ~t.loose => /\ t.reg["rax"] = Truth(InC[e.left][env].val # 0)
                    /\ t.flags.z = (InC[e.right][env].val = 0)}
RightTestedZero(env, e, s) == {t \in RightTested(env, e, s) : t.reg["rbx"] = 0}
BothTruths(env, e, s) ==
  {t \in After(s, 0) :
     /\ t.reg["rax"] \in {0, 1} /\ t.reg["rbx"] \in {0, 1}
     /\ ~t.loose => /\ t.reg["rax"] = Truth(InC[e.left][env].val # 0)
                    /\ t.reg["rbx"] = Truth(InC[e.right][env].val # 0)}

(* All those states have the stack of s.                                   *)
LEMMA GateStates ==
  ASSUME NEW env \in Envs, NEW e \in Expr, e.kind \in Gates, NEW s, Calm(env, s)
  PROVE  /\ Operands(env, e, s) \in SUBSET After(s, 0)
         /\ LeftTested(env, e, s) \in SUBSET After(s, 0)
         /\ LeftTestedZero(env, e, s) \in SUBSET After(s, 0)
         /\ LeftTruth(env, e, s) \in SUBSET After(s, 0)
         /\ RightTested(env, e, s) \in SUBSET After(s, 0)
         /\ RightTestedZero(env, e, s) \in SUBSET After(s, 0)
         /\ BothTruths(env, e, s) \in SUBSET After(s, 0)
         /\ After(s, 0) \in SUBSET States
         /\ s \in States /\ s.reg["rsp"] - 0 \in StackLimit .. StackTop /\ 0 \in Int
         /\ InC[e.left][env].val \in Ints /\ InC[e.right][env].val \in Ints
<1>1. s \in States /\ s.reg["rsp"] - 0 \in StackLimit .. StackTop
  BY SelfAfter
<1>2. InC[e.left][env].val \in Ints /\ InC[e.right][env].val \in Ints
  BY OperandsInC DEF Binary
<1>. QED
  BY <1>1, <1>2
  DEF Operands, LeftTested, LeftTestedZero, LeftTruth, RightTested, RightTestedZero,
      BothTruths, After

(* And: the left operand is compared with 0,                               *)
LEMMA LeftTestStep ==
  ASSUME NEW env \in Envs, NEW e \in Expr, e.kind \in Gates, NEW s, Calm(env, s)
  PROVE  Step(env, Operands(env, e, s), Cmp(rax, Imm(0)), LeftTested(env, e, s))
<1>. DEFINE a == InC[e.left][env].val
            A == Operands(env, e, s)
            B == LeftTested(env, e, s)
            x == Cmp(rax, Imm(0))
<1>1. ASSUME NEW t \in A, NEW u, Does(x, t, u) PROVE u \in B
  <2>1. /\ t \in After(s, 0) /\ t \in States
        /\ t.reg["rbx"] \in 0 .. IntMod - 1
        /\ ~t.loose => /\ t.reg["rax"] = a % IntMod
                       /\ t.reg["rbx"] = InC[e.right][env].val % IntMod
    BY DEF Operands, After
  <2>2. \E l \in BOOLEAN : Tested(t, u, t.reg["rax"] = 0, l)
    BY <1>1, <2>1, CompareZero, StackIs DEF rax
  <2>3. PICK l : Tested(t, u, t.reg["rax"] = 0, l)
    BY <2>2
  <2>. DEFINE z == (t.reg["rax"] = 0)
  <2>4. ~t.loose => z = (a = 0)
    BY <2>1, GateStates, IntZero
  <2>. HIDE DEF z
  <2>5. Tested(t, u, z, l)
    BY <2>3 DEF z
  <2>6. /\ u \in After(s, 0) /\ (t.loose => u.loose)
        /\ u.flags.known /\ u.flags.z = z /\ u.reg = t.reg
    BY <2>1, <2>5, GateStates, TestedAfter
  <2>. QED
    BY <2>1, <2>4, <2>6 DEF LeftTested
<1>2. x[1] \notin Restricted
  BY DEF Cmp, Restricted
<1>. HIDE DEF A, B, x
<1>3. Step(env, A, x, B)
  BY <1>1, <1>2, GateStates, StepAfter DEF A
<1>. QED
  BY <1>3 DEF A, B, x

(* rax is cleared without losing the flags,                                *)
LEMMA LeftZeroStep ==
  ASSUME NEW env \in Envs, NEW e \in Expr, e.kind \in Gates, NEW s, Calm(env, s)
  PROVE  Step(env, LeftTested(env, e, s), Mov(rax, Imm(0)), LeftTestedZero(env, e, s))
<1>. DEFINE A == LeftTested(env, e, s)
            B == LeftTestedZero(env, e, s)
            x == Mov(rax, Imm(0))
<1>1. ASSUME NEW t \in A, NEW u, Does(x, t, u) PROVE u \in B
  <2>1. t \in After(s, 0) /\ t \in States
    BY DEF LeftTested, After
  <2>2. Writes(t, u, "rax", 0) /\ u.flags = t.flags
    BY <1>1, <2>1, MoveZero, StackIs DEF rax
  <2>4. /\ u \in After(s, 0) /\ (t.loose => u.loose) /\ u.reg["rax"] = 0
        /\ u.reg["rbx"] = t.reg["rbx"]
    <3>1. t \in After(s, 0) /\ s \in States /\ Writes(t, u, "rax", 0)
      BY <2>1, <2>2, GateStates
    <3>. QED
      BY <3>1, WritesRax
  <2>. QED
    BY <2>2, <2>4 DEF LeftTested, LeftTestedZero
<1>2. x[1] \notin Restricted
  BY DEF Mov, Restricted
<1>. HIDE DEF A, B, x
<1>3. Step(env, A, x, B)
  BY <1>1, <1>2, GateStates, StepAfter DEF A
<1>. QED
  BY <1>3 DEF A, B, x

(* and becomes the truth value of the left operand;                        *)
LEMMA LeftTruthStep ==
  ASSUME NEW env \in Envs, NEW e \in Expr, e.kind \in Gates, NEW s, Calm(env, s)
  PROVE  Step(env, LeftTestedZero(env, e, s), Set("ne", al), LeftTruth(env, e, s))
<1>. DEFINE a == InC[e.left][env].val
            A == LeftTestedZero(env, e, s)
            B == LeftTruth(env, e, s)
            x == Set("ne", al)
<1>1. ASSUME NEW t \in A PROVE Safe(env, x, t)
  <2>1. t \in After(s, 0) /\ t.flags.known
    BY DEF LeftTested, LeftTestedZero
  <2>2. Calm(env, t)
    BY <2>1, GateStates, AfterCalm
  <2>3. x[1] = "SET" /\ x[2] = "ne"
    BY DEF Set
  <2>. QED
    BY <2>1, <2>2, <2>3 DEF Safe
<1>2. ASSUME NEW t \in A, NEW u, Does(x, t, u) PROVE u \in B
  <2>1. /\ t \in After(s, 0) /\ t \in States /\ t.reg["rax"] = 0
        /\ t.reg["rbx"] \in 0 .. IntMod - 1 /\ t.flags.known
        /\ ~t.loose => /\ t.flags.z = (a = 0)
                       /\ t.reg["rbx"] = InC[e.right][env].val % IntMod
    BY DEF LeftTested, LeftTestedZero, After
  <2>. DEFINE w == Truth(Holds("ne", t.flags.z, t.flags.l))
  <2>2. Writes(t, u, "rax", w)
    BY <1>2, <2>1, SetDoes DEF al
  <2>3. w \in {0, 1} /\ (~t.loose => w = Truth(a # 0))
    BY <2>1 DEF Truth, Holds
  <2>. HIDE DEF w
  <2>5. /\ u \in After(s, 0) /\ (t.loose => u.loose) /\ u.reg["rax"] = w
        /\ u.reg["rbx"] = t.reg["rbx"]
    <3>1. t \in After(s, 0) /\ s \in States /\ Writes(t, u, "rax", w)
      BY <2>1, <2>2, GateStates
    <3>. QED
      BY <3>1, WritesRax
  <2>. QED
    BY <2>1, <2>3, <2>5 DEF LeftTruth
<1>3. x[1] # "NODE"
  BY DEF Set
<1>. HIDE DEF A, B, x
<1>4. Step(env, A, x, B)
  BY <1>1, <1>2, <1>3 DEF Step, Post
<1>. QED
  BY <1>4 DEF A, B, x

(* the right operand is compared with 0,                                   *)
LEMMA RightTestStep ==
  ASSUME NEW env \in Envs, NEW e \in Expr, e.kind \in Gates, NEW s, Calm(env, s)
  PROVE  Step(env, LeftTruth(env, e, s), Cmp(rbx, Imm(0)), RightTested(env, e, s))
<1>. DEFINE b == InC[e.right][env].val
            A == LeftTruth(env, e, s)
            B == RightTested(env, e, s)
            x == Cmp(rbx, Imm(0))
<1>1. ASSUME NEW t \in A, NEW u, Does(x, t, u) PROVE u \in B
  <2>1. /\ t \in After(s, 0) /\ t \in States /\ t.reg["rax"] \in {0, 1}
        /\ ~t.loose => /\ t.reg["rax"] = Truth(InC[e.left][env].val # 0)
                       /\ t.reg["rbx"] = b % IntMod
    BY DEF LeftTruth, After
  <2>2. \E l \in BOOLEAN : Tested(t, u, t.reg["rbx"] = 0, l)
    BY <1>1, <2>1, CompareZero, StackIs DEF rbx
  <2>3. PICK l : Tested(t, u, t.reg["rbx"] = 0, l)
    BY <2>2
  <2>. DEFINE z == (t.reg["rbx"] = 0)
  <2>4. ~t.loose => z = (b = 0)
    BY <2>1, GateStates, IntZero
  <2>. HIDE DEF z
  <2>5. Tested(t, u, z, l)
    BY <2>3 DEF z
  <2>6. /\ u \in After(s, 0) /\ (t.loose => u.loose)
        /\ u.flags.known /\ u.flags.z = z /\ u.reg = t.reg
    BY <2>1, <2>5, GateStates, TestedAfter
  <2>. QED
    BY <2>1, <2>4, <2>6 DEF RightTested
<1>2. x[1] \notin Restricted
  BY DEF Cmp, Restricted
<1>. HIDE DEF A, B, x
<1>3. Step(env, A, x, B)
  BY <1>1, <1>2, GateStates, StepAfter DEF A
<1>. QED
  BY <1>3 DEF A, B, x

(* rbx is cleared,                                                         *)
LEMMA RightZeroStep ==
  ASSUME NEW env \in Envs, NEW e \in Expr, e.kind \in Gates, NEW s, Calm(env, s)
  PROVE  Step(env, RightTested(env, e, s), Mov(rbx, Imm(0)), RightTestedZero(env, e, s))
<1>. DEFINE A == RightTested(env, e, s)
            B == RightTestedZero(env, e, s)
            x == Mov(rbx, Imm(0))
<1>1. ASSUME NEW t \in A, NEW u, Does(x, t, u) PROVE u \in B
  <2>1. t \in After(s, 0) /\ t \in States
    BY DEF RightTested, After
  <2>2. Writes(t, u, "rbx", 0) /\ u.flags = t.flags
    BY <1>1, <2>1, MoveZero, StackIs DEF rbx
  <2>4. /\ u \in After(s, 0) /\ (t.loose => u.loose) /\ u.reg["rbx"] = 0
        /\ u.reg["rax"] = t.reg["rax"]
    <3>1. t \in After(s, 0) /\ s \in States /\ Writes(t, u, "rbx", 0)
      BY <2>1, <2>2, GateStates
    <3>. QED
      BY <3>1, WritesRbx
  <2>. QED
    BY <2>2, <2>4 DEF RightTested, RightTestedZero
<1>2. x[1] \notin Restricted
  BY DEF Mov, Restricted
<1>. HIDE DEF A, B, x
<1>3. Step(env, A, x, B)
  BY <1>1, <1>2, GateStates, StepAfter DEF A
<1>. QED
  BY <1>3 DEF A, B, x

(* and becomes the truth value of the right operand;                       *)
LEMMA RightTruthStep ==
  ASSUME NEW env \in Envs, NEW e \in Expr, e.kind \in Gates, NEW s, Calm(env, s)
  PROVE  Step(env, RightTestedZero(env, e, s), Set("ne", bl), BothTruths(env, e, s))
<1>. DEFINE b == InC[e.right][env].val
            A == RightTestedZero(env, e, s)
            B == BothTruths(env, e, s)
            x == Set("ne", bl)
<1>1. ASSUME NEW t \in A PROVE Safe(env, x, t)
  <2>1. t \in After(s, 0) /\ t.flags.known
    BY DEF RightTested, RightTestedZero
  <2>2. Calm(env, t)
    BY <2>1, GateStates, AfterCalm
  <2>3. x[1] = "SET" /\ x[2] = "ne"
    BY DEF Set
  <2>. QED
    BY <2>1, <2>2, <2>3 DEF Safe
<1>2. ASSUME NEW t \in A, NEW u, Does(x, t, u) PROVE u \in B
  <2>1. /\ t \in After(s, 0) /\ t \in States /\ t.reg["rbx"] = 0
        /\ t.reg["rax"] \in {0, 1} /\ t.flags.known
        /\ ~t.loose => /\ t.flags.z = (b = 0)
                       /\ t.reg["rax"] = Truth(InC[e.left][env].val # 0)
    BY DEF RightTested, RightTestedZero, After
  <2>. DEFINE w == Truth(Holds("ne", t.flags.z, t.flags.l))
  <2>2. Writes(t, u, "rbx", w)
    BY <1>2, <2>1, SetDoes DEF bl
  <2>3. w \in {0, 1} /\ (~t.loose => w = Truth(b # 0))
    BY <2>1 DEF Truth, Holds
  <2>. HIDE DEF w
  <2>5. /\ u \in After(s, 0) /\ (t.loose => u.loose) /\ u.reg["rbx"] = w
        /\ u.reg["rax"] = t.reg["rax"]
    <3>1. t \in After(s, 0) /\ s \in States /\ Writes(t, u, "rbx", w)
      BY <2>1, <2>2, GateStates
    <3>. QED
      BY <3>1, WritesRbx
  <2>. QED
    BY <2>1, <2>3, <2>5 DEF BothTruths
<1>3. x[1] # "NODE"
  BY DEF Set
<1>. HIDE DEF A, B, x
<1>4. Step(env, A, x, B)
  BY <1>1, <1>2, <1>3 DEF Step, Post
<1>. QED
  BY <1>4 DEF A, B, x

(* AND of the two leaves the flags of their conjunction.                   *)
LEMMA MeetStep ==
  ASSUME NEW env \in Envs, NEW e \in Expr, e.kind \in Gates, NEW s, Calm(env, s)
  PROVE  Step(env, BothTruths(env, e, s), And(rax, rbx),
              Flagged(s, "ne", InC[e.left][env].val # 0 /\ InC[e.right][env].val # 0))
<1>. DEFINE a == InC[e.left][env].val
            b == InC[e.right][env].val
            A == BothTruths(env, e, s)
            B == Flagged(s, "ne", a # 0 /\ b # 0)
            x == And(rax, rbx)
<1>1. ASSUME NEW t \in A, NEW u, Does(x, t, u) PROVE u \in B
  <2>1. /\ t \in After(s, 0) /\ t \in States
        /\ t.reg["rax"] \in {0, 1} /\ t.reg["rbx"] \in {0, 1}
        /\ ~t.loose => /\ t.reg["rax"] = Truth(a # 0) /\ t.reg["rbx"] = Truth(b # 0)
    BY DEF BothTruths, After
  <2>2. /\ \E v \in Word : Writes(t, u, "rax", v)
        /\ u.flags.known /\ u.flags.z = ~(t.reg["rax"] = 1 /\ t.reg["rbx"] = 1)
    BY <1>1, <2>1, MeetDoes
  <2>3. PICK v : Writes(t, u, "rax", v)
    BY <2>2
  <2>5. u \in After(s, 0) /\ (t.loose => u.loose)
    <3>1. t \in After(s, 0) /\ s \in States
      BY <2>1, GateStates
    <3>. QED
      BY <2>3, <3>1, WritesRax
  <2>6. ~t.loose => u.flags.z = ~(a # 0 /\ b # 0)
    BY <2>1, <2>2 DEF Truth
  <2>7. Holds("ne", u.flags.z, u.flags.l) = ~u.flags.z
    BY DEF Holds
  <2>8. ~u.loose => Holds("ne", u.flags.z, u.flags.l) = (a # 0 /\ b # 0)
    BY <2>5, <2>6, <2>7
  <2>. QED
    BY <2>2, <2>5, <2>8 DEF Flagged
<1>2. x[1] \notin Restricted
  BY DEF And, Restricted
<1>. HIDE DEF A, B, x
<1>3. Step(env, A, x, B)
  BY <1>1, <1>2, GateStates, StepAfter DEF A
<1>. QED
  BY <1>3 DEF A, B, x

(* Or: OR of the operands leaves the flags of their disjunction.           *)
LEMMA JoinStep ==
  ASSUME NEW env \in Envs, NEW e \in Expr, e.kind \in Gates, NEW s, Calm(env, s)
  PROVE  Step(env, Operands(env, e, s), Or(rax, rbx),
              Flagged(s, "ne", InC[e.left][env].val # 0 \/ InC[e.right][env].val # 0))
<1>. DEFINE a == InC[e.left][env].val
            b == InC[e.right][env].val
            A == Operands(env, e, s)
            B == Flagged(s, "ne", a # 0 \/ b # 0)
            x == Or(rax, rbx)
<1>1. ASSUME NEW t \in A, NEW u, Does(x, t, u) PROVE u \in B
  <2>1. /\ t \in After(s, 0) /\ t \in States
        /\ t.reg["rax"] \in 0 .. IntMod - 1 /\ t.reg["rbx"] \in 0 .. IntMod - 1
        /\ ~t.loose => /\ t.reg["rax"] = a % IntMod /\ t.reg["rbx"] = b % IntMod
    BY DEF Operands, After
  <2>2. /\ \E v \in Word : Writes(t, u, "rax", v)
        /\ u.flags.known /\ u.flags.z = ~(t.reg["rax"] # 0 \/ t.reg["rbx"] # 0)
    BY <1>1, <2>1, JoinDoes
  <2>3. PICK v : Writes(t, u, "rax", v)
    BY <2>2
  <2>5. u \in After(s, 0) /\ (t.loose => u.loose)
    <3>1. t \in After(s, 0) /\ s \in States
      BY <2>1, GateStates
    <3>. QED
      BY <2>3, <3>1, WritesRax
  <2>6. ~t.loose => u.flags.z = ~(a # 0 \/ b # 0)
    <3>1. (a % IntMod = 0 <=> a = 0) /\ (b % IntMod = 0 <=> b = 0)
      BY GateStates, IntZero
    <3>. QED
      BY <2>1, <2>2, <3>1
  <2>7. Holds("ne", u.flags.z, u.flags.l) = ~u.flags.z
    BY DEF Holds
  <2>8. ~u.loose => Holds("ne", u.flags.z, u.flags.l) = (a # 0 \/ b # 0)
    BY <2>5, <2>6, <2>7
  <2>. QED
    BY <2>2, <2>5, <2>8 DEF Flagged
<1>2. x[1] \notin Restricted
  BY DEF Or, Restricted
<1>. HIDE DEF A, B, x
<1>3. Step(env, A, x, B)
  BY <1>1, <1>2, GateStates, StepAfter DEF A
<1>. QED
  BY <1>3 DEF A, B, x

(* The code of GateOp, kind by kind, and what follows it.                  *)
LEMMA GateChain ==
  ASSUME NEW env \in Envs, NEW e \in Expr, e.kind \in Gates, NEW s, Calm(env, s),
         Fits(env, e, s)
  PROVE  /\ e.kind = "And" => \E F \in SUBSET States :
              /\ Chain(env, Operands(env, e, s),
                       <<Cmp(rax, Imm(0)), Mov(rax, Imm(0)), Set("ne", al), Cmp(rbx, Imm(0)),
                         Mov(rbx, Imm(0)), Set("ne", bl), And(rax, rbx)>>, F)
              /\ Chain(env, F, <<Mov(rax, Imm(0)), Set("ne", al), Push(rax)>>,
                       Yielded(env, e, s))
         /\ e.kind = "Or" => \E F \in SUBSET States :
              /\ Chain(env, Operands(env, e, s), <<Or(rax, rbx)>>, F)
              /\ Chain(env, F, <<Mov(rax, Imm(0)), Set("ne", al), Push(rax)>>,
                       Yielded(env, e, s))
<1>. DEFINE a == InC[e.left][env].val
            b == InC[e.right][env].val
            tail == <<Mov(rax, Imm(0)), Set("ne", al), Push(rax)>>
            Y == Yielded(env, e, s)
            K1 == Operands(env, e, s)
<1>1. InC[e][env].val = BinaryValue(e.kind, a, b)
  BY OperandsInC DEF Binary
<1>2. "ne" \in {"eq", "ne", "gt", "lt", "le", "ge"} /\ Coded(tail)
  BY CodedTuples
<1>3. K1 \in SUBSET States
  BY GateStates
<1>4. CASE e.kind = "And"
  <2>. DEFINE h == (a # 0 /\ b # 0)
              F == Flagged(s, "ne", h)
  <2>1. h \in BOOLEAN /\ InC[e][env].val = Truth(h)
    BY <1>1, <1>4 DEF BinaryValue
  <2>2. Chain(env, F, tail, Y) /\ F \in SUBSET States
    <3>. HIDE DEF h
    <3>. QED
      BY <1>2, <2>1, TruthChain
  <2>. DEFINE K2 == LeftTested(env, e, s)
              K3 == LeftTestedZero(env, e, s)
              K4 == LeftTruth(env, e, s)
              K5 == RightTested(env, e, s)
              K6 == RightTestedZero(env, e, s)
              K7 == BothTruths(env, e, s)
              i1 == Cmp(rax, Imm(0))
              i2 == Mov(rax, Imm(0))
              i3 == Set("ne", al)
              i4 == Cmp(rbx, Imm(0))
              i5 == Mov(rbx, Imm(0))
              i6 == Set("ne", bl)
              i7 == And(rax, rbx)
  <2>3. /\ K2 \in SUBSET States /\ K3 \in SUBSET States /\ K4 \in SUBSET States
        /\ K5 \in SUBSET States /\ K6 \in SUBSET States /\ K7 \in SUBSET States
    BY GateStates
  <2>4. Step(env, K1, i1, K2) /\ Step(env, K2, i2, K3) /\ Step(env, K3, i3, K4)
    BY LeftTestStep, LeftZeroStep, LeftTruthStep
  <2>5. Step(env, K4, i4, K5) /\ Step(env, K5, i5, K6) /\ Step(env, K6, i6, K7)
    BY RightTestStep, RightZeroStep, RightTruthStep
  <2>6. Step(env, K7, i7, F)
    BY MeetStep
  <2>. HIDE DEF K1, K2, K3, K4, K5, K6, K7, i1, i2, i3, i4, i5, i6, i7, F, tail, Y
  <2>7. Chain(env, K4, <<i4, i5, i6, i7>>, F)
    BY <2>2, <2>3, <2>5, <2>6, Chain4
  <2>. DEFINE c4 == <<i4, i5, i6, i7>>
              c3 == <<i3, i4, i5, i6, i7>>
              c2 == <<i2, i3, i4, i5, i6, i7>>
              c1 == <<i1, i2, i3, i4, i5, i6, i7>>
  <2>8. /\ Tail(c1) = c2 /\ c1[1] = i1 /\ Coded(c1) /\ c1 # <<>>
        /\ Tail(c2) = c3 /\ c2[1] = i2 /\ Coded(c2) /\ c2 # <<>>
        /\ Tail(c3) = c4 /\ c3[1] = i3 /\ Coded(c3) /\ c3 # <<>>
    BY Tails, CodedTuples
  <2>9. Chain(env, K4, c4, F)
    BY <2>7
  <2>. HIDE DEF c1, c2, c3, c4
  <2>10. Chain(env, K3, c3, F)
    BY <2>3, <2>4, <2>8, <2>9, ChainFirst
  <2>11. Chain(env, K2, c2, F)
    BY <2>3, <2>4, <2>8, <2>10, ChainFirst
  <2>12. Chain(env, K1, c1, F)
    BY <1>3, <2>3, <2>4, <2>8, <2>11, ChainFirst
  <2>. QED
    BY <1>4, <2>2, <2>12 DEF K1, Y, tail, c1, i1, i2, i3, i4, i5, i6, i7
<1>5. CASE e.kind = "Or"
  <2>. DEFINE h == (a # 0 \/ b # 0)
              F == Flagged(s, "ne", h)
              i1 == Or(rax, rbx)
  <2>1. h \in BOOLEAN /\ InC[e][env].val = Truth(h)
    BY <1>1, <1>5 DEF BinaryValue
  <2>2. Chain(env, F, tail, Y) /\ F \in SUBSET States
    <3>. HIDE DEF h
    <3>. QED
      BY <1>2, <2>1, TruthChain
  <2>3. Step(env, K1, i1, F)
    BY JoinStep
  <2>. HIDE DEF K1, i1, F, tail, Y
  <2>4. Chain(env, K1, <<i1>>, F)
    BY <1>3, <2>2, <2>3, Chain1
  <2>. QED
    BY <1>5, <2>2, <2>4 DEF K1, Y, tail, i1
<1>. QED
  BY <1>4, <1>5

-----------------------------------------------------------------------------
(* The value of an expression is taken off the stack.                      *)
LEMMA ValueSteps ==
  ASSUME NEW env \in Envs, NEW e \in Expr, NEW s, Calm(env, s), Fits(env, e, s),
         NEW r \in {"rax", "rsi"}
  PROVE  /\ Step(env, {s}, Node(e), Yielded(env, e, s))
         /\ Step(env, Yielded(env, e, s), Pop(Reg(r, 8)), ResultIn(r, env, e, s))
         /\ {s} \in SUBSET States /\ Yielded(env, e, s) \in SUBSET States
         /\ ResultIn(r, env, e, s) \in SUBSET States
<1>. DEFINE A == Yielded(env, e, s)
            B == ResultIn(r, env, e, s)
            x == Pop(Reg(r, 8))
<1>1. s \in After(s, 0) /\ s \in States /\ s.reg["rsp"] - 0 \in StackLimit .. StackTop
  BY SelfAfter
<1>2. s.reg["rsp"] - 8 \in StackLimit .. StackTop - 8
  <2>1. Depth[e] \in Nat /\ s.reg["rsp"] - 8 * (Depth[e] + 1) >= StackLimit
    BY StackAssumption DEF Fits
  <2>. QED
    BY <2>1, SelfAfter, StackIs
<1>3. Step(env, {s}, Node(e), A)
  <2>1. \A t \in {s} : Fits(env, e, t)
    OBVIOUS
  <2>2. \A t \in {s} : \A u : Yields(env, e, t, u) => u \in A
    BY DEF Yielded, Yields, After
  <2>3. {s} \in SUBSET After(s, 0)
    BY <1>1
  <2>. DEFINE S == {s}
  <2>. HIDE DEF S, A
  <2>. QED
    BY <1>1, <2>1, <2>2, <2>3, NodeStep DEF S
<1>4. ASSUME NEW t \in A, NEW u, Does(x, t, u) PROVE u \in B
  <2>1. /\ t \in After(s, 8) /\ t \in States /\ t.reg["rsp"] = s.reg["rsp"] - 8
        /\ ~t.loose => Stands(Load(t.mem, t.reg["rsp"], 8), InC[e][env].val,
                              InC[e][env].exact)
    BY DEF Yielded, Yields, After
  <2>2. t.reg["rsp"] \in 0 .. StackTop - 8
    BY <1>2, <2>1, StackIs
  <2>3. /\ u \in States /\ u.goto = Onward /\ (t.loose => u.loose) /\ u.mem = t.mem
        /\ u.reg["rsp"] = t.reg["rsp"] + 8 /\ u.reg["rbp"] = t.reg["rbp"]
        /\ u.reg[r] = Load(t.mem, t.reg["rsp"], 8)
    BY <1>4, <2>1, <2>2, PopDoes
  <2>4. u.reg["rsp"] = s.reg["rsp"] - 0
    BY <2>1, <2>3, SelfAfter
  <2>5. u.goto # Trapped
    BY <2>3 DEF Onward, Trapped
  <2>6. u \in After(s, 0)
    BY <1>1, <2>1, <2>3, <2>4, <2>5, AfterStep
  <2>. QED
    BY <2>1, <2>3, <2>6 DEF ResultIn
<1>5. A \in SUBSET After(s, 8) /\ A \in SUBSET States /\ B \in SUBSET States
  BY DEF Yielded, Yields, ResultIn, After
<1>6. x[1] \notin Restricted
  BY DEF Pop, Restricted
<1>7. {s} \in SUBSET States
  BY <1>1
<1>. HIDE DEF A, B, x
<1>8. s.reg["rsp"] - 8 \in StackLimit .. StackTop /\ 8 \in Int
  BY <1>2, StackIs
<1>9. Step(env, A, x, B)
  BY <1>4, <1>5, <1>6, <1>8, StepAfter
<1>. QED
  BY <1>3, <1>5, <1>7, <1>9 DEF A, B, x

-----------------------------------------------------------------------------
(* Unary operators.                                                        *)
LEMMA OperandInC ==
  ASSUME NEW env \in Envs, NEW e \in Expr, e.kind \in Unary
  PROVE  /\ e.sub \in Expr /\ InC[e.sub][env] \in Outs
         /\ InC[e.sub][env].val \in Ints /\ InC[e.sub][env].exact \in BOOLEAN
         /\ InC[e][env].ok => InC[e.sub][env].ok
         /\ e.kind = "UnaryPlus" => InC[e][env] = InC[e.sub][env]
         /\ e.kind = "UnaryMinus" =>
              /\ InC[e][env].val = ToInt(-InC[e.sub][env].val)
              /\ InC[e][env].exact = InC[e.sub][env].exact
         /\ e.kind = "Not" =>
              /\ InC[e][env].val = Truth(InC[e.sub][env].val = 0)
              /\ InC[e][env].ok => InC[e.sub][env].exact
<1>. DEFINE a == InC[e.sub][env]
<1>1. e.sub \in Expr /\ InC[e][env] = UnaryInC(e.kind, a)
  BY ExprShape, InCIs, RuleIs
<1>2. a \in Outs
  BY <1>1, InCIs
<1>. HIDE DEF a
<1>3. a.val \in Ints /\ a.exact \in BOOLEAN /\ a.ok \in BOOLEAN
  BY <1>2 DEF Outs
<1>4. CASE e.kind = "UnaryPlus"
  <2>1. InC[e][env] = a
    BY <1>1, <1>4 DEF UnaryInC
  <2>. QED
    BY <1>1, <1>2, <1>3, <1>4, <2>1 DEF a
<1>5. CASE e.kind = "UnaryMinus"
  <2>1. InC[e][env] = [a EXCEPT !.val = ToInt(-a.val)]
    BY <1>1, <1>5 DEF UnaryInC
  <2>2. /\ InC[e][env].val = ToInt(-a.val) /\ InC[e][env].exact = a.exact
        /\ InC[e][env].ok = a.ok
    BY <1>2, <2>1 DEF Outs
  <2>. QED
    BY <1>1, <1>2, <1>3, <1>5, <2>2 DEF a
<1>6. CASE e.kind = "Not"
  <2>1. InC[e][env] = Out(Truth(a.val = 0), a.ok /\ a.exact, TRUE)
    BY <1>1, <1>6 DEF UnaryInC
  <2>2. /\ InC[e][env].val = Truth(a.val = 0)
        /\ InC[e][env].ok = (a.ok /\ a.exact)
    BY <2>1 DEF Out
  <2>. QED
    BY <1>1, <1>2, <1>3, <1>6, <2>2 DEF a
<1>. QED
  BY <1>4, <1>5, <1>6 DEF Unary

(* An operand fits where its unary operator does.                          *)
LEMMA OperandFits ==
  ASSUME NEW env \in Envs, NEW e \in Expr, e.kind \in Unary, NEW s, Calm(env, s),
         Fits(env, e, s)
  PROVE  Fits(env, e.sub, s)
<1>1. /\ Depth[e] \in Nat /\ Depth[e.sub] \in Nat /\ Depth[e.sub] < Depth[e]
      /\ s.reg["rsp"] - 8 * (Depth[e] + 1) >= StackLimit /\ s.reg["rsp"] \in Nat
      /\ StackLimit \in Nat
  BY ExprShape, OperandInC, SelfAfter, StackIs DEF Fits
<1>2. s.reg["rsp"] - 8 * (Depth[e.sub] + 1) >= StackLimit
  BY <1>1
<1>. QED
  BY <1>2, OperandInC DEF Fits

(* The code of IntUnop and NotInstr, kind by kind.                         *)
LEMMA UnaryChain ==
  ASSUME NEW env \in Envs, NEW e \in Expr, e.kind \in Unary, NEW s, Calm(env, s),
         Fits(env, e, s)
  PROVE  /\ e.kind = "UnaryPlus" =>
              Chain(env, {s}, <<Node(e.sub)>> \o <<>>, Yielded(env, e, s))
         /\ e.kind = "UnaryMinus" =>
              Chain(env, {s}, <<Node(e.sub)>> \o <<Pop(rax), Neg(rax), Push(rax)>>,
                    Yielded(env, e, s))
         /\ e.kind = "Not" =>
              Chain(env, {s},
                    <<Node(e.sub), Pop(rax), Cmp(rax, Imm(0)), Mov(rax, Imm(0)),
                      Set("eq", al), Push(rax)>>,
                    Yielded(env, e, s))
<1>. DEFINE f == e.sub
            Y == Yielded(env, e, s)
            K1 == Yielded(env, f, s)
            K2 == ResultIn("rax", env, f, s)
            K3 == ResultIn("rax", env, e, s)
            i1 == Node(f)
            i2 == Pop(rax)
            v == InC[f][env].val
<1>1. /\ Step(env, {s}, i1, K1) /\ Step(env, K1, i2, K2)
      /\ {s} \in SUBSET States /\ K1 \in SUBSET States /\ K2 \in SUBSET States
  BY OperandInC, OperandFits, ValueSteps DEF rax
<1>2. Y \in SUBSET States /\ K3 \in SUBSET States /\ K2 \in SUBSET After(s, 0)
  BY DEF Yielded, ResultIn, After
<1>3. s \in States /\ s.reg["rsp"] - 0 \in StackLimit .. StackTop /\ 0 \in Int
  BY SelfAfter
<1>4. ASSUME NEW t \in K2
      PROVE  /\ t \in States /\ t \in After(s, 0) /\ t.reg["rax"] \in Word
             /\ ~t.loose => Stands(t.reg["rax"], v, InC[f][env].exact) /\ InC[e][env].ok
  BY StateParts, StackIs DEF ResultIn, After, Fits
<1>5. CASE e.kind = "UnaryPlus"
  <2>1. K1 = Y
    BY <1>5, OperandInC DEF Yielded, Yields
  <2>2. Chain(env, Y, <<>>, Y) /\ Coded(<<>>)
    BY <1>2, Chain0, CodedTuples
  <2>3. Step(env, {s}, i1, Y) /\ {s} \in SUBSET States
    BY <1>1, <2>1
  <2>. HIDE DEF Y, i1
  <2>4. Chain(env, {s}, <<i1>> \o <<>>, Y)
    BY <1>2, <2>2, <2>3, ChainAdd
  <2>. QED
    BY <1>5, <2>4 DEF Y, i1
<1>6. CASE e.kind = "UnaryMinus"
  <2>. DEFINE i3 == Neg(rax)
              i4 == Push(rax)
  <2>1. ASSUME NEW t \in K2, NEW u, Does(i3, t, u) PROVE u \in K3
    <3>. DEFINE w == t.reg["rax"]
    <3>1. Writes(t, u, "rax", (-w) % WordMod)
      BY <1>4, <2>1, ArithmeticDoes
    <3>2. u \in After(s, 0) /\ (t.loose => u.loose) /\ u.reg["rax"] = (-w) % WordMod
      BY <1>3, <1>4, <3>1, WritesRax
    <3>3. ~t.loose => Stands((-w) % WordMod, ToInt(-v), InC[f][env].exact)
      BY <1>4, OperandInC, NegationStands
    <3>. QED
      BY <1>6, <3>2, <3>3, OperandInC DEF ResultIn
  <2>2. i3[1] \notin Restricted
    BY DEF Neg, Restricted
  <2>3. Step(env, K3, i4, Y)
    BY PushResult DEF rax
  <2>. HIDE DEF i1, i2, i3, i4, K1, K2, K3, Y
  <2>4. Step(env, K2, i3, K3)
    BY <1>2, <1>3, <2>1, <2>2, StepAfter
  <2>5. Chain(env, K1, <<i2, i3, i4>>, Y)
    BY <1>1, <1>2, <2>3, <2>4, Chain3
  <2>6. Coded(<<i2, i3, i4>>)
    BY CodedTuples
  <2>7. Chain(env, {s}, <<i1>> \o <<i2, i3, i4>>, Y)
    BY <1>1, <2>5, <2>6, ChainAdd
  <2>. QED
    BY <1>6, <2>7 DEF i1, i2, i3, i4, Y
<1>7. CASE e.kind = "Not"
  <2>. DEFINE i3 == Cmp(rax, Imm(0))
              i4 == Mov(rax, Imm(0))
              i5 == Set("eq", al)
              i6 == Push(rax)
              h == (v = 0)
              F == Flagged(s, "eq", h)
  <2>1. ASSUME NEW t \in K2, NEW u, Does(i3, t, u) PROVE u \in F
    <3>1. \E l \in BOOLEAN : Tested(t, u, t.reg["rax"] = 0, l)
      BY <1>4, <2>1, CompareZero, StackIs DEF rax
    <3>2. PICK l : Tested(t, u, t.reg["rax"] = 0, l)
      BY <3>1
    <3>. DEFINE z == (t.reg["rax"] = 0)
    <3>3. ~t.loose => z = h
      BY <1>4, <1>7, OperandInC DEF Stands
    <3>. HIDE DEF z, h
    <3>4. Tested(t, u, z, l)
      BY <3>2 DEF z
    <3>5. /\ u \in After(s, 0) /\ (t.loose => u.loose) /\ u.flags.known /\ u.flags.z = z
      BY <1>3, <1>4, <3>4, TestedAfter
    <3>6. Holds("eq", u.flags.z, u.flags.l) = u.flags.z
      BY DEF Holds
    <3>. QED
      BY <3>3, <3>5, <3>6 DEF Flagged
  <2>2. i3[1] \notin Restricted
    BY DEF Cmp, Restricted
  <2>3. h \in BOOLEAN /\ InC[e][env].val = Truth(h)
    BY <1>7, OperandInC
  <2>4. Chain(env, F, <<i4, i5, i6>>, Y) /\ F \in SUBSET States
    <3>1. "eq" \in {"eq", "ne", "gt", "lt", "le", "ge"}
      OBVIOUS
    <3>. HIDE DEF h
    <3>. QED
      BY <2>3, <3>1, TruthChain
  <2>. HIDE DEF i1, i2, i3, i4, i5, i6, K1, K2, F, Y
  <2>5. Step(env, K2, i3, F)
    BY <1>2, <1>3, <2>1, <2>2, StepAfter
  <2>. DEFINE c4 == <<i4, i5, i6>>
              c3 == <<i3, i4, i5, i6>>
              c2 == <<i2, i3, i4, i5, i6>>
              c1 == <<i1, i2, i3, i4, i5, i6>>
  <2>6. /\ Tail(c1) = c2 /\ c1[1] = i1 /\ Coded(c1) /\ c1 # <<>>
        /\ Tail(c2) = c3 /\ c2[1] = i2 /\ Coded(c2) /\ c2 # <<>>
        /\ Tail(c3) = c4 /\ c3[1] = i3 /\ Coded(c3) /\ c3 # <<>>
    BY Tails, CodedTuples
  <2>7. Chain(env, F, c4, Y)
    BY <2>4
  <2>. HIDE DEF c1, c2, c3, c4
  <2>8. Chain(env, K2, c3, Y)
    BY <1>1, <2>4, <2>5, <2>6, <2>7, ChainFirst
  <2>9. Chain(env, K1, c2, Y)
    BY <1>1, <2>6, <2>8, ChainFirst
  <2>10. Chain(env, {s}, c1, Y)
    BY <1>1, <2>6, <2>9, ChainFirst
  <2>. QED
    BY <1>7, <2>10 DEF c1, i1, i2, i3, i4, i5, i6, Y
<1>. QED
  BY <1>5, <1>6, <1>7 DEF Unary

-----------------------------------------------------------------------------
(* Calls.                                                                  *)

(* The slot of a call's result holds the result, and above it what it held *)
(* before.                                                                 *)
LEMMA SlotStands ==
  ASSUME NEW g \in Word, NEW type \in IntTypes, NEW val \in ValuesOf(type),
         (g % IntMod) \div Width(Size(type)) = 0
  PROVE  Stands((g - (g % Width(Size(type))) + (val % Width(Size(type)))) % WordMod, val, FALSE)
<1>. DEFINE I == IntMod
            W == Width(Size(type))
            r == g % I
            x == val % I
<1>1. /\ I \in Nat \ {0} /\ g \in Int /\ val \in Int
  BY IntRange, CharsAreInts DEF Word
<1>2. r \in 0 .. I - 1 /\ x \in 0 .. I - 1
  BY <1>1, CutWord
<1>3. g % W = r /\ val % W = x
  <2>1. CASE type = "int"
    <3>1. W = I
      BY <2>1 DEF Size, IntMod
    <3>. QED
      BY <3>1
  <2>2. CASE type = "char"
    <3>. DEFINE V == Width(1)
    <3>1. W = V
      BY <2>2 DEF Size
    <3>2. V \in Nat \ {0} /\ 2 * V <= I \div 2 /\ val \in 0 .. V - 1
      BY <2>2, CharsAreInts
    <3>3. V <= I
      BY Widths
    <3>4. (g % I) % V = g % V
      BY <1>1, CutWord
    <3>5. r \div V = 0
      BY <3>1
    <3>10. r \in Int /\ V \in Nat \ {0}
      BY <1>1, <1>2, <3>2
    <3>. HIDE DEF I, V, r
    <3>6. r = (V * (r \div V)) + (r % V)
      BY <3>10, DivMod
    <3>7. r % V = r
      <4>1. r % V \in 0 .. V - 1
        BY <3>10, DivMod
      <4>2. V * (r \div V) = 0
        BY <3>2, <3>5
      <4>. DEFINE y == r % V
                  z == V * (r \div V)
      <4>3. r = z + y /\ z = 0 /\ y \in Int
        BY <3>2, <3>6, <4>1, <4>2
      <4>. HIDE DEF y, z
      <4>4. y = r
        BY <4>3
      <4>. QED
        BY <4>4 DEF y
    <3>8. val % V = val
      BY <3>2, ModSmall
    <3>9. val % I = val
      <4>1. val \in 0 .. I - 1
        BY <1>1, <3>2, <3>3 DEF I
      <4>. QED
        BY <1>1, <4>1, ModSmall DEF I
    <3>. QED
      BY <3>1, <3>4, <3>7, <3>8, <3>9 DEF r, I
  <2>. QED
    BY <2>1, <2>2 DEF IntTypes
<1>4. PICK q \in Int : g = (I * q) + r
  <2>1. g \div I \in Int /\ g = I * (g \div I) + (g % I)
    BY <1>1, DivMod
  <2>. QED
    BY <2>1
<1>. DEFINE w == g - r + x
            p == I * q
<1>5. p \in Int /\ g = p + r
  BY <1>1, <1>4
<1>6. w = p + x /\ w \in Int
  <2>. HIDE DEF p, r, x, I
  <2>. QED
    BY <1>1, <1>2, <1>5
<1>7. w % I = x
  <2>1. w = I * q + x
    BY <1>6 DEF p
  <2>2. I \in Nat \ {0} /\ q \in Int /\ x \in 0 .. I - 1 /\ w \in Int
    BY <1>1, <1>2, <1>6
  <2>. HIDE DEF w, x, I, p, r
  <2>. QED
    BY <2>1, <2>2, DivUnique
<1>8. w % WordMod \in Word /\ (w % WordMod) % IntMod = w % IntMod
  BY <1>6, CutWord
<1>9. Stands(w % WordMod, val, FALSE)
  BY <1>7, <1>8 DEF Stands
<1>10. w = g - (g % W) + (val % W)
  BY <1>3
<1>. HIDE DEF w
<1>. QED
  BY <1>9, <1>10

(* A call leaves the word of its result on the stack.                      *)
LEMMA CallYields ==
  ASSUME stmt.env \in Envs, dirty \in BOOLEAN, FunctionCall,
         Calm(stmt.env, Current), Fits(stmt.env, node, Current)
  PROVE  Yields(stmt.env, node, Current, Current')
<1>. DEFINE env == stmt.env
            s == Current
            t == Current'
            n == Size(node.type)
            p == reg["rsp"] - 8
            W == Width(n)
            I == IntMod
<1>1. /\ node.kind = "FunctionCall" /\ flags' = Unspecified
      /\ goto' = goto /\ stmt' = stmt
  BY DEF FunctionCall
<1>2. PICK g \in Garbage, h \in Garbage :
        /\ mem' = Store(mem, p, 8, g - (g % W) + (node.val % W))
        /\ reg' = [reg EXCEPT !["rsp"] = p, !["rax"] = h]
        /\ dirty' = (dirty \/ (g % IntMod) \div W # 0)
  BY DEF FunctionCall, ResultSlot
<1>3. /\ s.reg = reg /\ s.mem = mem /\ s.flags = flags /\ s.goto = goto
      /\ s.loose = (dirty \/ ~InC[stmt.expr][env].ok)
      /\ t = [reg |-> reg', mem |-> mem', flags |-> flags', goto |-> goto',
              loose |-> (dirty' \/ ~InC[stmt.expr][env].ok)]
  BY <1>1 DEF Current
<1>4. /\ t.reg = reg' /\ t.mem = mem' /\ t.goto = goto
      /\ t.loose = (dirty' \/ ~InC[stmt.expr][env].ok)
  BY <1>1, <1>3
<1>5. /\ s \in States /\ reg \in [Registers -> Word] /\ mem \in Memories
      /\ reg["rbp"] = StackTop + 8 /\ reg["rsp"] \in StackLimit .. StackTop
  BY <1>3, StateParts DEF Calm
<1>6. g \in Word /\ h \in Word
  BY GarbageAssumption
<1>7. node \in Expr /\ goto = Onward
  BY <1>3 DEF Fits
<1>8. /\ node.type \in IntTypes /\ node.val \in ValuesOf(node.type) /\ node.val \in Ints
      /\ Depth[node] \in Nat
  BY <1>1, <1>7, ExprShape
<1>9. p \in Nat /\ p >= StackLimit /\ p + 8 <= WordMod /\ p \in Word
  <2>1. reg["rsp"] - 8 * (Depth[node] + 1) >= StackLimit
    BY <1>3 DEF Fits
  <2>2. p >= StackLimit
    BY <1>5, <1>8, <2>1, StackIs
  <2>. QED
    BY <1>5, <2>2, StackIs DEF Word
<1>. DEFINE w == g - (g % W) + (node.val % W)
<1>10. w \in Int
  <2>1. W \in Nat \ {0}
    BY <1>8, Widths DEF Size, IntTypes
  <2>2. g \in Int /\ node.val \in Int
    BY <1>6, <1>8, IntRange DEF Word
  <2>3. g % W \in Int /\ node.val % W \in Int
    <3>. HIDE DEF W
    <3>. QED
      BY <2>1, <2>2, DivMod
  <2>. HIDE DEF W
  <2>. QED
    BY <2>2, <2>3
<1>. HIDE DEF n
<1>11. Stands(w % WordMod, node.val, FALSE) \/ t.loose
  <2>1. CASE (g % IntMod) \div W = 0
    BY <1>6, <1>8, <2>1, SlotStands DEF n
  <2>2. CASE (g % IntMod) \div W # 0
    BY <1>2, <1>4, <2>2
  <2>. QED
    BY <2>1, <2>2
<1>. HIDE DEF w, W
<1>12. mem' = Store(mem, p, 8, w)
  BY <1>2 DEF w
<1>. HIDE DEF p
<1>13. /\ mem' \in Memories /\ Load(mem', p, 8) = w % WordMod
       /\ \A x : x \notin p .. p + 8 - 1 => CellAt(mem', x) = CellAt(mem, x)
  <2>1. 8 \in 1 .. 8 /\ Width(8) = WordMod
    BY WordIs
  <2>. QED
    BY <1>5, <1>9, <1>10, <1>12, <2>1, StoreCells, LoadStored
<1>14. /\ reg' \in [Registers -> Word] /\ reg'["rsp"] = p /\ reg'["rbp"] = reg["rbp"]
  BY <1>2, <1>5, <1>6, <1>9, StackIs
<1>15. t \in States
  <2>1. flags' \in FlagSet /\ goto' \in {Onward, Trapped, To("else")}
    BY <1>1, <1>7 DEF FlagSet
  <2>2. dirty' \in BOOLEAN
    BY <1>2
  <2>. QED
    BY <1>3, <1>13, <1>14, <2>1, <2>2 DEF States
<1>16. \A x : x \notin StackLimit .. reg["rsp"] - 1 => CellAt(mem', x) = CellAt(mem, x)
  <2>1. \A x : x \notin StackLimit .. reg["rsp"] - 1 => x \notin p .. p + 8 - 1
    BY <1>5, <1>9, StackIs DEF p
  <2>. QED
    BY <1>13, <2>1
<1>17. (s.loose => t.loose) /\ t.goto = Onward /\ t.goto # Trapped
  BY <1>2, <1>3, <1>4, <1>7 DEF Onward, Trapped
<1>18. t \in After(s, 8)
  BY <1>3, <1>4, <1>14, <1>15, <1>16, <1>17 DEF After, p
<1>19. InC[node][env] = Out(node.val, TRUE, FALSE)
  <2>. DEFINE e == node
  <2>1. e \in Expr /\ env \in Envs /\ e.kind = "FunctionCall"
    BY <1>1, <1>7
  <2>. HIDE DEF e
  <2>2. InC[e][env] = InCRule(InC, e, env)
    BY <2>1, InCIs
  <2>3. InCRule(InC, e, env) = Out(e.val, TRUE, FALSE)
    BY <2>1, RuleIs
  <2>. QED
    BY <2>2, <2>3 DEF e
<1>20. InC[node][env].val = node.val /\ InC[node][env].exact = FALSE
  BY <1>19 DEF Out
<1>21. ~t.loose => Stands(Load(t.mem, t.reg["rsp"], 8), InC[node][env].val,
                          InC[node][env].exact)
  BY <1>4, <1>11, <1>13, <1>14, <1>20
<1>. QED
  BY <1>17, <1>18, <1>21 DEF Yields

-----------------------------------------------------------------------------
(* Statements.                                                             *)

(* The states a statement may end in.                                      *)
EndsCalm(t) ==
  /\ t \in States /\ t.reg["rsp"] = StackTop /\ t.reg["rbp"] = StackTop + 8
  /\ t.goto = Trapped => t.loose

EndsIf(c) ==
  {t \in States : EndsCalm(t) /\ (~t.loose /\ c.exact => (t.goto = To("else")) = (c.val = 0))}
EndsAssign(env, var, c) ==
  {t \in States :
     EndsCalm(t) /\
       (~t.loose => \A v \in DOMAIN Vars :
                      Load(t.mem, Location(v), Size(Vars[v].type))
                        = (IF v = var THEN c.val ELSE env[v]) % Width(Size(Vars[v].type)))}
EndsPrint(e, c) ==
  {t \in States :
     EndsCalm(t) /\ (~t.loose => /\ t.reg["rsi"] % IntMod = c.val % IntMod
                                 /\ t.reg["rdi"] = SymbolAddress[Format(e)])}

(* A statement begins at the top of the stack.                             *)
Starts(env, e, s) ==
  /\ Calm(env, s) /\ Fits(env, e, s) /\ s.reg["rsp"] = StackTop
  /\ env \in Envs /\ e \in Expr

(* A state after the first with the same stack pointer may be the last.    *)
LEMMA AfterEnds ==
  ASSUME NEW env, NEW e, NEW s, Starts(env, e, s), NEW t \in After(s, 0)
  PROVE  EndsCalm(t)
<1>1. s.reg["rsp"] - 0 \in StackLimit .. StackTop /\ s.reg["rsp"] = StackTop /\ Calm(env, s)
  BY SelfAfter DEF Starts
<1>2. Calm(env, t) /\ t.reg["rsp"] = s.reg["rsp"] - 0
  BY <1>1, AfterCalm
<1>3. t.reg["rsp"] = StackTop
  BY <1>1, <1>2, StackIs
<1>. QED
  BY <1>2, <1>3 DEF Calm, EndsCalm

(* The int of a word decides its char.                                     *)
LEMMA CutSize ==
  ASSUME NEW w \in Int, NEW v \in Int, w % IntMod = v % IntMod, NEW type \in IntTypes
  PROVE  w % Width(Size(type)) = v % Width(Size(type))
<1>1. (w % IntMod) % Width(1) = w % Width(1) /\ (v % IntMod) % Width(1) = v % Width(1)
  BY CutWord
<1>2. w % Width(1) = v % Width(1)
  BY <1>1
<1>3. CASE type = "int"
  BY <1>3 DEF Size, IntMod
<1>4. CASE type = "char"
  BY <1>2, <1>4 DEF Size
<1>. QED
  BY <1>3, <1>4 DEF IntTypes

(* Cutting to a size twice is cutting once.                                *)
LEMMA CutTwice ==
  ASSUME NEW w \in Int, NEW type \in IntTypes
  PROVE  /\ (w % Width(Size(type))) % Width(Size(type)) = w % Width(Size(type))
         /\ w % Width(Size(type)) \in Int
<1>. DEFINE W == Width(Size(type))
            x == w % W
<1>1. W \in Nat \ {0}
  BY Widths DEF Size, IntTypes
<1>2. x \in 0 .. W - 1
  <2>. HIDE DEF W
  <2>. QED
    BY <1>1, DivMod
<1>3. x \in Int
  BY <1>1, <1>2
<1>. HIDE DEF W, x
<1>4. x % W = x
  BY <1>1, <1>2, ModSmall
<1>. QED
  BY <1>3, <1>4 DEF W, x

-----------------------------------------------------------------------------
(* if and while.                                                           *)

Decided(s, c) ==
  {t \in After(s, 0) :
     t.flags.known /\ (~t.loose /\ c.exact => t.flags.z = (c.val = 0))}

(* The code of an if or a while ends with the branch C takes.              *)
LEMMA IfChain ==
  ASSUME NEW env, NEW e, NEW s, Starts(env, e, s)
  PROVE  Chain(env, {s}, <<Node(e)>> \o <<Pop(rax), Cmp(rax, Imm(0)), Jump("eq", "else")>>,
               EndsIf(InC[e][env]))
<1>. DEFINE c == InC[e][env]
            A == Yielded(env, e, s)
            B == ResultIn("rax", env, e, s)
            C == Decided(s, c)
            D == EndsIf(c)
            x == Node(e)
            y == Pop(rax)
            z == Cmp(rax, Imm(0))
            w == Jump("eq", "else")
<1>1. /\ env \in Envs /\ e \in Expr /\ Calm(env, s) /\ Fits(env, e, s)
      /\ s.reg["rsp"] = StackTop
  BY DEF Starts
<1>2. /\ Step(env, {s}, x, A) /\ Step(env, A, y, B)
      /\ {s} \in SUBSET States /\ A \in SUBSET States /\ B \in SUBSET States
  BY <1>1, ValueSteps DEF rax
<1>3. s \in States /\ s.reg["rsp"] - 0 \in StackLimit .. StackTop /\ 0 \in Int
  BY <1>1, SelfAfter
<1>4. C \in SUBSET States /\ D \in SUBSET States /\ B \in SUBSET After(s, 0)
  BY DEF Decided, EndsIf, ResultIn, After
<1>5. ASSUME NEW t \in B, NEW u, Does(z, t, u) PROVE u \in C
  <2>1. t \in States /\ t \in After(s, 0) /\ (~t.loose => Stands(t.reg["rax"], c.val, c.exact))
    BY DEF ResultIn, After
  <2>2. \E l \in BOOLEAN : Tested(t, u, t.reg["rax"] = 0, l)
    BY <1>5, <2>1, CompareZero, StackIs DEF rax
  <2>3. PICK l : Tested(t, u, t.reg["rax"] = 0, l)
    BY <2>2
  <2>. DEFINE h == (t.reg["rax"] = 0)
  <2>4. ~t.loose /\ c.exact => h = (c.val = 0)
    BY <2>1 DEF Stands
  <2>. HIDE DEF h
  <2>5. Tested(t, u, h, l)
    BY <2>3 DEF h
  <2>6. /\ u \in After(s, 0) /\ (t.loose => u.loose) /\ u.flags.known /\ u.flags.z = h
    BY <1>3, <2>1, <2>5, TestedAfter
  <2>. QED
    BY <2>4, <2>6 DEF Decided
<1>6. ASSUME NEW t \in C PROVE Safe(env, w, t)
  <2>1. t \in After(s, 0) /\ t.flags.known
    BY DEF Decided
  <2>2. Calm(env, t)
    BY <1>1, <1>3, <2>1, AfterCalm
  <2>3. w[1] = "JUMP" /\ w[2] = "eq"
    BY DEF Jump
  <2>. QED
    BY <2>1, <2>2, <2>3 DEF Safe
<1>7. ASSUME NEW t \in C, NEW u, Does(w, t, u) PROVE u \in D
  <2>1. /\ t \in After(s, 0) /\ t \in States /\ t.flags.known /\ t.flags \in FlagSet
        /\ (~t.loose /\ c.exact => t.flags.z = (c.val = 0))
    BY StateParts DEF Decided, After
  <2>2. t.flags.z \in BOOLEAN
    BY <2>1, HoldsTyped
  <2>3. /\ u \in States /\ (t.loose => u.loose) /\ u.mem = t.mem /\ u.reg = t.reg
        /\ u.goto = IF t.flags.z THEN To("else") ELSE Onward
    BY <1>7, <2>1, <2>2, JumpDoes
  <2>4. To("else") # Onward /\ To("else") # Trapped /\ Onward # Trapped
    BY DEF To, Onward, Trapped
  <2>5. (u.goto = To("else")) = t.flags.z /\ u.goto # Trapped
    BY <2>2, <2>3, <2>4
  <2>6. EndsCalm(t)
    BY <2>1, AfterEnds
  <2>7. EndsCalm(u)
    BY <2>3, <2>5, <2>6 DEF EndsCalm
  <2>. QED
    BY <2>1, <2>3, <2>5, <2>7 DEF EndsIf
<1>8. z[1] \notin Restricted /\ w[1] # "NODE"
  BY DEF Cmp, Jump, Restricted
<1>. HIDE DEF A, B, C, D, x, y, z, w, c
<1>9. Step(env, B, z, C)
  BY <1>1, <1>3, <1>4, <1>5, <1>8, StepAfter
<1>10. Step(env, C, w, D)
  BY <1>6, <1>7, <1>8 DEF Step, Post
<1>11. Chain(env, A, <<y, z, w>>, D)
  BY <1>2, <1>4, <1>9, <1>10, Chain3
<1>12. Coded(<<y, z, w>>)
  BY CodedTuples
<1>13. Chain(env, {s}, <<x>> \o <<y, z, w>>, D)
  BY <1>2, <1>11, <1>12, ChainAdd
<1>. QED
  BY <1>13 DEF D, x, y, z, w, c

-----------------------------------------------------------------------------
(* print.                                                                  *)
LEMMA PrintChain ==
  ASSUME NEW env, NEW e, NEW s, Starts(env, e, s)
  PROVE  Chain(env, {s},
               <<Node(e), Pop(rsi), Mov(rax, Imm(0)), Mov(rdi, Sym(Format(e)))>>,
               EndsPrint(e, InC[e][env]))
<1>. DEFINE c == InC[e][env]
            A == Yielded(env, e, s)
            B == ResultIn("rsi", env, e, s)
            D == EndsPrint(e, c)
            x == Node(e)
            y == Pop(rsi)
            z == Mov(rax, Imm(0))
            w == Mov(rdi, Sym(Format(e)))
<1>1. /\ env \in Envs /\ e \in Expr /\ Calm(env, s) /\ Fits(env, e, s)
      /\ s.reg["rsp"] = StackTop
  BY DEF Starts
<1>2. /\ Step(env, {s}, x, A) /\ Step(env, A, y, B)
      /\ {s} \in SUBSET States /\ A \in SUBSET States /\ B \in SUBSET States
  BY <1>1, ValueSteps DEF rsi
<1>3. s \in States /\ s.reg["rsp"] - 0 \in StackLimit .. StackTop /\ 0 \in Int
  BY <1>1, SelfAfter
<1>4. D \in SUBSET States /\ B \in SUBSET After(s, 0)
  BY DEF EndsPrint, ResultIn
<1>5. ASSUME NEW t \in B
      PROVE  /\ t \in States /\ t \in After(s, 0)
             /\ ~t.loose => t.reg["rsi"] % IntMod = c.val % IntMod
  BY DEF ResultIn, After, Stands
<1>6. ASSUME NEW t \in B, NEW u, Does(z, t, u) PROVE u \in B
  <2>1. Writes(t, u, "rax", 0)
    BY <1>5, <1>6, MoveZero, StackIs DEF rax
  <2>. DEFINE r == "rax"
              v == 0
  <2>2. r \in Registers \ {"rsp", "rbp"} /\ "rsi" \in Registers \ {r} /\ Writes(t, u, r, v)
    BY <2>1, StackIs
  <2>. HIDE DEF r, v
  <2>3. /\ u \in After(s, 0) /\ (t.loose => u.loose)
        /\ \A q \in Registers \ {r} : u.reg[q] = t.reg[q]
    <3>1. s \in States /\ t \in After(s, 0) /\ r \in Registers \ {"rsp", "rbp"}
          /\ Writes(t, u, r, v)
      BY <1>3, <1>5, <2>2
    <3>. HIDE DEF B, D, x, y, z, w, c
    <3>. QED
      BY <3>1, WritesHere
  <2>4. u.reg["rsi"] = t.reg["rsi"]
    BY <2>2, <2>3
  <2>. QED
    BY <2>3, <2>4 DEF ResultIn
<1>7. ASSUME NEW t \in B, NEW u, Does(w, t, u) PROVE u \in D
  <2>1. Format(e) \in DOMAIN SymbolAddress
    BY FormatAssumption DEF Format
  <2>2. Writes(t, u, "rdi", SymbolAddress[Format(e)])
    BY <1>5, <1>7, <2>1, MoveSymbol
  <2>. DEFINE r == "rdi"
              v == SymbolAddress[Format(e)]
  <2>3. r \in Registers \ {"rsp", "rbp"} /\ "rsi" \in Registers \ {r} /\ Writes(t, u, r, v)
    BY <2>2, StackIs
  <2>. HIDE DEF r, v
  <2>4. /\ u \in After(s, 0) /\ (t.loose => u.loose) /\ u.reg[r] = v
        /\ \A q \in Registers \ {r} : u.reg[q] = t.reg[q]
    <3>1. s \in States /\ t \in After(s, 0) /\ r \in Registers \ {"rsp", "rbp"}
          /\ Writes(t, u, r, v)
      BY <1>3, <1>5, <2>3
    <3>. HIDE DEF B, D, x, y, z, w, c
    <3>. QED
      BY <3>1, WritesHere
  <2>5. EndsCalm(u) /\ u \in States
    BY <2>4, AfterEnds DEF EndsCalm
  <2>6. u.reg["rsi"] = t.reg["rsi"] /\ u.reg["rdi"] = v
    BY <2>3, <2>4 DEF r
  <2>. QED
    BY <1>5, <2>4, <2>5, <2>6 DEF EndsPrint, v
<1>8. z[1] \notin Restricted /\ w[1] \notin Restricted
  BY DEF Mov, Restricted
<1>. HIDE DEF A, B, D, x, y, z, w, c
<1>9. Step(env, B, z, B)
  BY <1>1, <1>3, <1>4, <1>6, <1>8, StepAfter
<1>10. Step(env, B, w, D)
  BY <1>1, <1>3, <1>4, <1>7, <1>8, StepAfter
<1>11. Chain(env, {s}, <<x, y, z, w>>, D)
  BY <1>2, <1>4, <1>9, <1>10, Chain4
<1>. QED
  BY <1>11 DEF D, x, y, z, w, c

-----------------------------------------------------------------------------
(* The assignment of a primitive.                                          *)

(* A value is written to a variable.                                       *)
LEMMA AssignStep ==
  ASSUME NEW env, NEW e, NEW s, Starts(env, e, s), NEW var \in DOMAIN Vars, NEW o,
         NEW A \in SUBSET After(s, 0), NEW val \in Ints,
         \A t \in A :
           /\ ValueIn(t, o) \in Int
           /\ ~t.loose => ValueIn(t, o) % Width(Size(Vars[var].type))
                            = val % Width(Size(Vars[var].type)),
         NEW c, c.val = val
  PROVE  Step(env, A, Mov(Place(var), o), EndsAssign(env, var, c))
<1>. DEFINE x == Mov(Place(var), o)
            D == EndsAssign(env, var, c)
<1>1. env \in Envs /\ Calm(env, s) /\ s.reg["rsp"] - 0 \in StackLimit .. StackTop /\ 0 \in Int
  BY SelfAfter DEF Starts
<1>2. ASSUME NEW t \in A, NEW u, Does(x, t, u) PROVE u \in D
  <2>1. t \in States /\ t \in After(s, 0) /\ Calm(env, t) /\ EndsCalm(t)
    BY <1>1, AfterCalm, AfterEnds
  <2>2. t.reg["rbp"] = StackTop + 8 /\ ValueIn(t, o) \in Int
    BY <2>1 DEF Calm
  <2>3. /\ u \in States /\ u.goto = Onward /\ (t.loose => u.loose) /\ u.reg = t.reg
        /\ Load(u.mem, Location(var), Size(Vars[var].type))
             = ValueIn(t, o) % Width(Size(Vars[var].type))
        /\ \A a : a \notin Cells(var) => CellAt(u.mem, a) = CellAt(t.mem, a)
    BY <1>2, <2>1, <2>2, WriteDoes
  <2>4. u.goto # Trapped
    BY <2>3 DEF Onward, Trapped
  <2>5. EndsCalm(u)
    BY <2>1, <2>3, <2>4 DEF EndsCalm
  <2>6. ASSUME NEW v \in DOMAIN Vars, v # var
        PROVE  Load(u.mem, Location(v), Size(Vars[v].type)) = env[v] % Width(Size(Vars[v].type))
    <3>. DEFINE n == Size(Vars[v].type)
                L == Location(v)
    <3>1. n \in 1 .. 8 /\ L \in Nat /\ L + n <= WordMod
      BY VariableCells
    <3>2. \A a \in L .. L + n - 1 : a \notin Cells(var)
      BY <2>6, VariableCells, VariablesApart
    <3>3. \A a \in L .. L + n - 1 : CellAt(u.mem, a) = CellAt(t.mem, a)
      BY <2>3, <3>2
    <3>4. Load(t.mem, L, n) = env[v] % Width(n)
      BY <1>1, <2>1, CalmVariables
    <3>5. u.mem \in Memories /\ t.mem \in Memories
      BY <2>1, <2>3, StateParts
    <3>. HIDE DEF L, n
    <3>6. Load(u.mem, L, n) = Load(t.mem, L, n)
      BY <3>1, <3>3, <3>5, LoadKept
    <3>7. Load(u.mem, L, n) = env[v] % Width(n)
      BY <3>4, <3>6
    <3>. QED
      BY <3>7 DEF L, n
  <2>7. ~u.loose =>
          Load(u.mem, Location(var), Size(Vars[var].type)) = c.val % Width(Size(Vars[var].type))
    BY <2>3
  <2>. QED
    BY <2>3, <2>5, <2>6, <2>7 DEF EndsAssign
<1>3. x[1] \notin Restricted
  BY DEF Mov, Restricted
<1>. HIDE DEF x, D
<1>4. Step(env, A, x, D)
  BY <1>1, <1>2, <1>3, StepAfter
<1>. QED
  BY <1>4 DEF x, D

(* That of rax, cut to the size of the variable.                           *)
LEMMA AssignResult ==
  ASSUME NEW env, NEW e, NEW s, Starts(env, e, s), NEW var \in DOMAIN Vars
  PROVE  Step(env, ResultIn("rax", env, e, s), Mov(Place(var), Acc(Vars[var].type)),
              EndsAssign(env, var, InC[e][env]))
<1>. DEFINE A == ResultIn("rax", env, e, s)
            type == Vars[var].type
            W == Width(Size(type))
            c == InC[e][env]
            o == Acc(type)
<1>1. env \in Envs /\ e \in Expr
  BY DEF Starts
<1>2. c.val \in Ints /\ c.val \in Int
  BY <1>1, InCIs, IntRange DEF Outs
<1>3. type \in IntTypes
  BY VarsAssumption
<1>4. A \in SUBSET After(s, 0)
  BY DEF ResultIn
<1>5. ASSUME NEW t \in A
      PROVE  ValueIn(t, o) \in Int /\ (~t.loose => ValueIn(t, o) % W = c.val % W)
  <2>1. t \in States /\ (~t.loose => Stands(t.reg["rax"], c.val, c.exact))
    BY DEF ResultIn, After
  <2>. DEFINE w == t.reg["rax"]
  <2>2. w \in Int
    BY <2>1, StateParts, StackIs
  <2>3. ValueIn(t, o) = w % W
    <3>1. /\ ValueIn(t, Reg("rax", 4)) = w % IntMod
          /\ ValueIn(t, Reg("rax", 1)) = w % Width(1)
      BY <2>1, RegisterValue, StackIs
    <3>2. CASE type = "int"
      BY <3>1, <3>2 DEF Acc, eax, Size, IntMod
    <3>3. CASE type = "char"
      BY <3>1, <3>3 DEF Acc, al, Size
    <3>. QED
      BY <1>3, <3>2, <3>3 DEF IntTypes
  <2>4. (w % W) % W = w % W /\ w % W \in Int
    BY <1>3, <2>2, CutTwice
  <2>5. ~t.loose => w % W = c.val % W
    BY <1>2, <1>3, <2>1, <2>2, CutSize DEF Stands
  <2>. HIDE DEF w, W
  <2>. QED
    BY <2>3, <2>4, <2>5
<1>. HIDE DEF A, o, c
<1>6. Step(env, A, Mov(Place(var), o), EndsAssign(env, var, c))
  BY <1>2, <1>4, <1>5, AssignStep
<1>. QED
  BY <1>6 DEF A, o, c

(* The code of an assignment, by the kind of its expression.               *)
LEMMA AssignChain ==
  ASSUME NEW env, NEW e, NEW s, Starts(env, e, s), NEW var \in DOMAIN Vars
  PROVE  /\ e.kind \in Literal =>
              Chain(env, {s}, <<Mov(Place(var), Imm(e.val))>>,
                    EndsAssign(env, var, InC[e][env]))
         /\ e.kind = "LValue" =>
              Chain(env, {s}, <<Mov(Acc(Vars[e.id].type), Place(e.id)),
                                Mov(Place(var), Acc(Vars[var].type))>>,
                    EndsAssign(env, var, InC[e][env]))
         /\ Chain(env, {s}, <<Node(e), Pop(rax), Mov(Place(var), Acc(Vars[var].type))>>,
                  EndsAssign(env, var, InC[e][env]))
<1>. DEFINE c == InC[e][env]
            D == EndsAssign(env, var, c)
            B == ResultIn("rax", env, e, s)
            w == Mov(Place(var), Acc(Vars[var].type))
<1>1. /\ env \in Envs /\ e \in Expr /\ Calm(env, s) /\ Fits(env, e, s)
  BY DEF Starts
<1>2. {s} \in SUBSET After(s, 0) /\ {s} \in SUBSET States
  BY <1>1, SelfAfter
<1>3. D \in SUBSET States /\ B \in SUBSET States
  BY DEF EndsAssign, ResultIn, After
<1>4. Step(env, B, w, D)
  BY AssignResult
<1>5. ASSUME e.kind \in Literal
      PROVE  Chain(env, {s}, <<Mov(Place(var), Imm(e.val))>>, D)
  <2>. DEFINE o == Imm(e.val)
              v == e.val
              type == Vars[var].type
              A == {s}
  <2>1. v \in Ints /\ v \in Int
    BY <1>1, <1>5, ExprShape, IntRange
  <2>2. c = Out(v, TRUE, TRUE)
    BY <1>1, <1>5, InCIs, RuleIs
  <2>3. c.val = v
    BY <2>2 DEF Out
  <2>4. ValueIn(s, o) = v % WordMod
    BY DEF ValueIn, Imm
  <2>5. v % WordMod \in Int /\ (v % WordMod) % IntMod = v % IntMod
    BY <2>1, CutWord DEF Word
  <2>6. type \in IntTypes
    BY VarsAssumption
  <2>7. (v % WordMod) % Width(Size(type)) = v % Width(Size(type))
    BY <2>1, <2>5, <2>6, CutSize
  <2>8. \A t \in A :
           /\ ValueIn(t, o) \in Int
           /\ ~t.loose => ValueIn(t, o) % Width(Size(Vars[var].type))
                            = v % Width(Size(Vars[var].type))
    BY <2>4, <2>5, <2>7
  <2>9. A \in SUBSET After(s, 0) /\ A \in SUBSET States
    BY <1>2
  <2>. HIDE DEF A, o, v, c, type
  <2>10. Step(env, A, Mov(Place(var), o), EndsAssign(env, var, c))
    BY <2>1, <2>3, <2>8, <2>9, AssignStep
  <2>. DEFINE x == Mov(Place(var), o)
  <2>11. Step(env, A, x, D)
    BY <2>10 DEF D
  <2>. HIDE DEF D, x
  <2>12. Chain(env, A, <<x>>, D)
    BY <1>3, <2>9, <2>11, Chain1
  <2>. QED
    BY <2>12 DEF A, x, o, v
<1>6. ASSUME e.kind = "LValue"
      PROVE  Chain(env, {s}, <<Mov(Acc(Vars[e.id].type), Place(e.id)), w>>, D)
  <2>. DEFINE x == Mov(Acc(Vars[e.id].type), Place(e.id))
  <2>1. Step(env, {s}, x, B)
    BY <1>1, <1>6, ReadStep
  <2>. HIDE DEF x, B, D, w
  <2>2. Chain(env, {s}, <<x, w>>, D)
    BY <1>2, <1>3, <1>4, <2>1, Chain2
  <2>. QED
    BY <2>2 DEF x
<1>7. Chain(env, {s}, <<Node(e), Pop(rax), w>>, D)
  <2>. DEFINE x == Node(e)
              y == Pop(rax)
              A == Yielded(env, e, s)
  <2>1. Step(env, {s}, x, A) /\ Step(env, A, y, B) /\ A \in SUBSET States
    BY <1>1, ValueSteps DEF rax
  <2>. HIDE DEF x, y, w, A, B, D
  <2>2. Chain(env, {s}, <<x, y, w>>, D)
    BY <1>2, <1>3, <1>4, <2>1, Chain3
  <2>. QED
    BY <2>2 DEF x, y
<1>. QED
  BY <1>5, <1>6, <1>7

-----------------------------------------------------------------------------
(* The inductive invariant.                                                *)

Finals(st) ==
  CASE st.kind = "If" -> EndsIf(InC[st.expr][st.env])
    [] st.kind = "Assign" -> EndsAssign(st.env, st.var, InC[st.expr][st.env])
    [] st.kind = "Print" -> EndsPrint(st.expr, InC[st.expr][st.env])

(* The code that is left leads from the state to an end of the statement.  *)
Good ==
  /\ stmt \in Statements /\ dirty \in BOOLEAN /\ Coded(todo)
  /\ Chain(stmt.env, {Current}, todo, Finals(stmt))

(* The parts of a statement.                                               *)
LEMMA StatementShape ==
  ASSUME NEW st \in Statements
  PROVE  /\ st.expr \in Expr /\ st.env \in Envs
         /\ st.kind \in {"If", "Assign", "Print"}
         /\ st.kind = "Assign" => st.var \in DOMAIN Vars
BY DEF Statements

(* The code of a statement is a sequence.                                  *)
LEMMA StatementCoded ==
  ASSUME NEW st \in Statements
  PROVE  Coded(StatementCode(st))
<1>1. CASE st.kind = "If"
  <2>1. Coded(<<Node(st.expr)>>) /\ Coded(<<Pop(rax), Cmp(rax, Imm(0)), Jump("eq", "else")>>)
    BY CodedTuples
  <2>2. Coded(IfCode(st))
    BY <2>1, CodedJoin DEF IfCode
  <2>. QED
    BY <1>1, <2>2 DEF StatementCode
<1>2. CASE st.kind = "Assign"
  <2>1. Coded(AssignCode(st))
    <3>. DEFINE to == Place(st.var)
                type == Vars[st.var].type
                e == st.expr
                p == <<Mov(to, Imm(e.val))>>
                q == <<Mov(Acc(Vars[e.id].type), Place(e.id)), Mov(to, Acc(type))>>
                r == <<Node(e), Pop(rax), Mov(to, Acc(type))>>
    <3>1. Coded(p) /\ Coded(q) /\ Coded(r)
      BY CodedTuples
    <3>2. AssignCode(st) = p \/ AssignCode(st) = q \/ AssignCode(st) = r
      BY DEF AssignCode
    <3>. HIDE DEF p, q, r
    <3>. QED
      BY <3>1, <3>2
  <2>. QED
    BY <1>2, <2>1 DEF StatementCode
<1>3. CASE st.kind = "Print"
  <2>1. Coded(PrintCode(st))
    BY CodedTuples DEF PrintCode
  <2>. QED
    BY <1>3, <2>1 DEF StatementCode
<1>. QED
  BY <1>1, <1>2, <1>3, StatementShape

(* The code of a statement leads to one of its ends.                       *)
LEMMA StatementChain ==
  ASSUME NEW st \in Statements, NEW s, Starts(st.env, st.expr, s)
  PROVE  Chain(st.env, {s}, StatementCode(st), Finals(st))
<1>. DEFINE env == st.env
            e == st.expr
<1>1. CASE st.kind = "If"
  <2>1. Chain(env, {s}, IfCode(st), EndsIf(InC[e][env]))
    BY IfChain DEF IfCode
  <2>2. StatementCode(st) = IfCode(st) /\ Finals(st) = EndsIf(InC[e][env])
    BY <1>1 DEF StatementCode, Finals
  <2>. QED
    BY <2>1, <2>2
<1>2. CASE st.kind = "Assign"
  <2>. DEFINE var == st.var
              D == EndsAssign(env, var, InC[e][env])
              to == Place(var)
              type == Vars[var].type
              p == <<Mov(to, Imm(e.val))>>
              q == <<Mov(Acc(Vars[e.id].type), Place(e.id)), Mov(to, Acc(type))>>
              r == <<Node(e), Pop(rax), Mov(to, Acc(type))>>
  <2>1. var \in DOMAIN Vars
    BY <1>2, StatementShape
  <2>2. /\ e.kind \in Literal => Chain(env, {s}, p, D)
        /\ e.kind = "LValue" => Chain(env, {s}, q, D)
        /\ Chain(env, {s}, r, D)
    BY <2>1, AssignChain
  <2>3. /\ e.kind \in Literal => AssignCode(st) = p
        /\ e.kind = "LValue" => AssignCode(st) = q
        /\ e.kind \notin Literal /\ e.kind # "LValue" => AssignCode(st) = r
    BY DEF AssignCode, Literal
  <2>4. StatementCode(st) = AssignCode(st) /\ Finals(st) = D
    BY <1>2 DEF StatementCode, Finals
  <2>. HIDE DEF p, q, r, D
  <2>. QED
    BY <2>2, <2>3, <2>4
<1>3. CASE st.kind = "Print"
  <2>1. Chain(env, {s}, PrintCode(st), EndsPrint(e, InC[e][env]))
    BY PrintChain DEF PrintCode
  <2>2. StatementCode(st) = PrintCode(st) /\ Finals(st) = EndsPrint(e, InC[e][env])
    BY <1>3 DEF StatementCode, Finals
  <2>. QED
    BY <2>1, <2>2
<1>. QED
  BY <1>1, <1>2, <1>3, StatementShape

(* At the start all of the code is left.                                   *)
LEMMA InitGood ==
  ASSUME Init
  PROVE  Good
<1>. DEFINE env == stmt.env
            e == stmt.expr
            s == Current
<1>1. stmt \in Statements /\ env \in Envs /\ e \in Expr
  BY StatementShape DEF Init
<1>2. PICK g \in Garbage :
        reg = [r \in Registers |-> CASE r = "rsp" -> StackTop
                                     [] r = "rbp" -> StackTop + 8
                                     [] r = "rax" -> g
                                     [] OTHER -> 0]
  BY DEF Init
<1>3. /\ mem = Filled(env) /\ flags = Unspecified /\ goto = Onward /\ dirty = FALSE
      /\ todo = StatementCode(stmt)
  BY DEF Init
<1>4. StackTop \in Word /\ StackTop + 8 \in Word /\ g \in Word /\ 0 \in Word
  BY StackIs, WordIs, GarbageAssumption DEF Word
<1>5. /\ reg \in [Registers -> Word] /\ reg["rsp"] = StackTop /\ reg["rbp"] = StackTop + 8
  BY <1>2, <1>4, StackIs
<1>6. mem \in Memories
  BY <1>1, <1>3, EnvTyped, FilledCells
<1>7. /\ s.reg = reg /\ s.mem = mem /\ s.flags = flags /\ s.goto = goto
      /\ s.loose = (dirty \/ ~InC[e][env].ok) /\ s.loose \in BOOLEAN
      /\ s = [reg |-> reg, mem |-> mem, flags |-> flags, goto |-> goto, loose |-> s.loose]
  BY DEF Current
<1>8. s \in States
  BY <1>3, <1>5, <1>6, <1>7 DEF States, FlagSet
<1>9. /\ Depth[e] \in Nat /\ StackLimit + 8 * (Depth[e] + 1) <= StackTop
      /\ StackLimit \in Nat /\ StackTop \in Nat
  BY <1>1, StackAssumption
<1>10. StackTop \in StackLimit .. StackTop /\ StackTop - 8 * (Depth[e] + 1) >= StackLimit
  BY <1>9
<1>11. s.goto # Trapped
  BY <1>3, <1>7 DEF Onward, Trapped
<1>12. Calm(env, s)
  BY <1>3, <1>5, <1>7, <1>8, <1>10, <1>11 DEF Calm
<1>13. Fits(env, e, s)
  BY <1>1, <1>3, <1>5, <1>7, <1>10 DEF Fits
<1>14. Starts(env, e, s)
  BY <1>1, <1>5, <1>7, <1>12, <1>13 DEF Starts
<1>15. Chain(env, {s}, StatementCode(stmt), Finals(stmt)) /\ Coded(StatementCode(stmt))
  BY <1>1, <1>14, StatementChain, StatementCoded
<1>. QED
  BY <1>1, <1>3, <1>15 DEF Good

(* What Good says of the next item.                                        *)
LEMMA GoodHead ==
  ASSUME Good, todo # <<>>
  PROVE  /\ Safe(stmt.env, Head(todo), Current) /\ Coded(Tail(todo))
         /\ \E M \in SUBSET States :
              /\ \A t : Post(stmt.env, Head(todo), Current, t) => t \in M
              /\ Chain(stmt.env, M, Tail(todo), Finals(stmt))
<1>1. Coded(todo) /\ Chain(stmt.env, {Current}, todo, Finals(stmt))
  BY DEF Good
<1>2. PICK M \in SUBSET States :
        Step(stmt.env, {Current}, Head(todo), M) /\ Chain(stmt.env, M, Tail(todo), Finals(stmt))
  BY <1>1, ChainStart
<1>3. Safe(stmt.env, Head(todo), Current)
      /\ \A t : Post(stmt.env, Head(todo), Current, t) => t \in M
  BY <1>2, Zenon DEF Step
<1>4. Coded(Tail(todo))
  BY <1>1, CodedTail
<1>. QED
  BY <1>2, <1>3, <1>4

(* A node may be replaced by code that does what the node does.            *)
LEMMA GoodNode ==
  ASSUME Good, todo # <<>>, Head(todo)[1] = "NODE", NEW code, Coded(code),
         Chain(stmt.env, {Current}, code, Yielded(stmt.env, node, Current)),
         todo' = code \o Tail(todo),
         UNCHANGED <<reg, mem, flags, goto, last, stmt, dirty>>
  PROVE  Good'
<1>1. PICK M \in SUBSET States :
        /\ \A t : Post(stmt.env, Head(todo), Current, t) => t \in M
        /\ Chain(stmt.env, M, Tail(todo), Finals(stmt))
  BY GoodHead
<1>2. \A t : Yields(stmt.env, node, Current, t) => t \in M
  BY <1>1 DEF Post, node
<1>3. Yielded(stmt.env, node, Current) \subseteq M
  BY <1>2 DEF Yielded
<1>4. Chain(stmt.env, {Current}, code, M)
  BY <1>3, ChainWider
<1>5. Coded(Tail(todo))
  BY GoodHead
<1>6. Chain(stmt.env, {Current}, code \o Tail(todo), Finals(stmt))
  BY <1>1, <1>4, <1>5, ChainJoin
<1>7. Coded(code \o Tail(todo))
  BY <1>5, CodedJoin
<1>8. Current' = Current /\ stmt' = stmt /\ dirty' = dirty
  BY DEF Current
<1>9. Chain(stmt'.env, {Current'}, todo', Finals(stmt')) /\ Coded(todo')
  BY <1>6, <1>7, <1>8
<1>. QED
  BY <1>8, <1>9 DEF Good

(* An item is done.                                                        *)
LEMMA GoodDone ==
  ASSUME Good, todo # <<>>, Post(stmt.env, Head(todo), Current, Current'),
         todo' = Tail(todo), stmt' = stmt, dirty' \in BOOLEAN
  PROVE  Good'
<1>1. PICK M \in SUBSET States :
        /\ \A t : Post(stmt.env, Head(todo), Current, t) => t \in M
        /\ Chain(stmt.env, M, Tail(todo), Finals(stmt))
  BY GoodHead
<1>2. {Current'} \subseteq M
  BY <1>1
<1>3. Chain(stmt.env, {Current'}, Tail(todo), Finals(stmt))
  BY <1>1, <1>2, ChainWider
<1>4. Coded(Tail(todo))
  BY GoodHead
<1>5. Chain(stmt'.env, {Current'}, todo', Finals(stmt')) /\ Coded(todo')
  BY <1>3, <1>4
<1>. QED
  BY <1>5 DEF Good

-----------------------------------------------------------------------------
(* The steps.                                                              *)

(* The statement is one of Statements, and the next item may be executed.  *)
LEMMA GoodNow ==
  ASSUME Good
  PROVE  /\ stmt \in Statements /\ stmt.env \in Envs /\ stmt.expr \in Expr
         /\ dirty \in BOOLEAN
         /\ todo # <<>> => Calm(stmt.env, Current)
         /\ todo # <<>> /\ Head(todo)[1] = "NODE" =>
              Fits(stmt.env, node, Current) /\ node \in Expr
<1>1. stmt \in Statements /\ dirty \in BOOLEAN
  BY DEF Good
<1>2. ASSUME todo # <<>>
      PROVE  Safe(stmt.env, Head(todo), Current)
  BY <1>2, GoodHead
<1>. QED
  BY <1>1, <1>2, StatementShape DEF Safe, Fits, node

(* The node at the head of todo is one of e.kind, in a state s.            *)
NodeAt(kinds) ==
  /\ Good /\ todo # <<>> /\ Head(todo)[1] = "NODE" /\ node.kind \in kinds
  /\ UNCHANGED <<reg, mem, flags, goto, last, stmt, dirty>>

(* What an action that translates a node finds.                            *)
LEMMA NodeNow ==
  ASSUME NEW kinds, Good, Translates(kinds)
  PROVE  /\ NodeAt(kinds) /\ stmt.env \in Envs /\ node \in Expr /\ node.kind \in kinds
         /\ Calm(stmt.env, Current) /\ Fits(stmt.env, node, Current)
<1>1. NodeAt(kinds)
  BY DEF Translates, NodeAt, node
<1>. QED
  BY <1>1, GoodNow DEF NodeAt

(* Such an action keeps Good when its code does what the node does.        *)
LEMMA BecomesGood ==
  ASSUME NEW kinds, NodeAt(kinds), NEW code, Coded(code), Becomes(code),
         Chain(stmt.env, {Current}, code, Yielded(stmt.env, node, Current))
  PROVE  Good'
BY GoodNode DEF NodeAt, Becomes

(* LiteralInstr keeps Good.                                                *)
LEMMA LiteralGood ==
  ASSUME Good, LiteralInstr PROVE Good'
<1>. DEFINE code == <<Push(Imm(node.val))>>
<1>1. Translates(Literal) /\ Becomes(code)
  BY DEF LiteralInstr
<1>2. Coded(code)
  BY CodedTuples
<1>3. Chain(stmt.env, {Current}, code, Yielded(stmt.env, node, Current))
  BY <1>1, NodeNow, LiteralChain
<1>. HIDE DEF code
<1>. QED
  BY <1>1, <1>2, <1>3, NodeNow, BecomesGood

(* PlaceOnTop keeps Good.                                                  *)
LEMMA PlaceGood ==
  ASSUME Good, PlaceOnTop PROVE Good'
<1>. DEFINE code == <<Mov(Acc(Vars[node.id].type), Place(node.id)), Push(rax)>>
<1>1. Translates({"LValue"}) /\ Becomes(code)
  BY DEF PlaceOnTop
<1>2. Coded(code)
  BY CodedTuples
<1>3. node.kind = "LValue"
  BY <1>1, NodeNow
<1>4. Chain(stmt.env, {Current}, code, Yielded(stmt.env, node, Current))
  BY <1>1, <1>3, NodeNow, PlaceChain
<1>. HIDE DEF code
<1>. QED
  BY <1>1, <1>2, <1>4, NodeNow, BecomesGood

(* BinopPop is the code of the operands of the node.                       *)
LEMMA PopIs == BinopPop = OperandsCode(node)
BY DEF BinopPop, OperandsCode

(* IntBinop keeps Good.                                                    *)
LEMMA ArithGood ==
  ASSUME Good, IntBinop PROVE Good'
<1>. DEFINE env == stmt.env
            s == Current
            Y == Yielded(env, node, s)
            op == IntOp
<1>1. Translates(Arith) /\ Becomes(BinopPop \o IntOp)
  BY DEF IntBinop
<1>2. /\ env \in Envs /\ node \in Expr /\ node.kind \in Arith
      /\ Calm(env, s) /\ Fits(env, node, s) /\ NodeAt(Arith)
  BY <1>1, NodeNow
<1>3. Coded(BinopPop) /\ Chain(env, {s}, BinopPop, Operands(env, node, s))
  BY <1>2, PopIs, OperandsChain DEF Binary
<1>4. Coded(IntOp)
  <2>. DEFINE p == <<Add(rax, rbx), Push(rax)>>
              q == <<Sub(rax, rbx), Push(rax)>>
              r == <<Imul(rax, rbx), Push(rax)>>
              u == <<Mov(rdx, Imm(0)), Idiv(rbx), Push(rax)>>
              v == <<Mov(rdx, Imm(0)), Idiv(rbx), Push(rdx)>>
  <2>1. Coded(p) /\ Coded(q) /\ Coded(r) /\ Coded(u) /\ Coded(v)
    BY CodedTuples
  <2>2. IntOp = p \/ IntOp = q \/ IntOp = r \/ IntOp = u \/ IntOp = v
    BY <1>2 DEF IntOp, Arith
  <2>. HIDE DEF p, q, r, u, v
  <2>. QED
    BY <2>1, <2>2
<1>5. Chain(env, Operands(env, node, s), IntOp, Y)
  <2>. DEFINE p == <<Add(rax, rbx), Push(rax)>>
              q == <<Sub(rax, rbx), Push(rax)>>
              r == <<Imul(rax, rbx), Push(rax)>>
              u == <<Mov(rdx, Imm(0)), Idiv(rbx), Push(rax)>>
              v == <<Mov(rdx, Imm(0)), Idiv(rbx), Push(rdx)>>
              A == Operands(env, node, s)
  <2>1. /\ node.kind = "Plus" => Chain(env, A, p, Y)
        /\ node.kind = "Minus" => Chain(env, A, q, Y)
        /\ node.kind = "Prod" => Chain(env, A, r, Y)
        /\ node.kind = "Div" => Chain(env, A, u, Y)
        /\ node.kind = "Mod" => Chain(env, A, v, Y)
    BY <1>2, IntOpChain
  <2>2. /\ node.kind = "Plus" => IntOp = p
        /\ node.kind = "Minus" => IntOp = q
        /\ node.kind = "Prod" => IntOp = r
        /\ node.kind = "Div" => IntOp = u
        /\ node.kind = "Mod" => IntOp = v
    BY DEF IntOp
  <2>. HIDE DEF p, q, r, u, v, A, Y
  <2>. QED
    BY <1>2, <2>1, <2>2 DEF Arith, A
<1>. HIDE DEF op
<1>6. Coded(BinopPop \o IntOp)
  BY <1>3, <1>4, CodedJoin
<1>7. Chain(env, {s}, BinopPop \o IntOp, Y)
  BY <1>3, <1>4, <1>5, ChainJoin
<1>. DEFINE code == BinopPop \o IntOp
<1>8. Coded(code) /\ Chain(env, {s}, code, Y) /\ Becomes(code)
  BY <1>1, <1>6, <1>7
<1>. HIDE DEF code
<1>. QED
  BY <1>2, <1>8, BecomesGood

(* IntUnop keeps Good.                                                     *)
LEMMA UnopGood ==
  ASSUME Good, IntUnop PROVE Good'
<1>. DEFINE env == stmt.env
            s == Current
            Y == Yielded(env, node, s)
            kinds == {"UnaryPlus", "UnaryMinus"}
            first == <<Node(node.sub)>>
            none == <<>>
            negate == <<Pop(rax), Neg(rax), Push(rax)>>
            code == IF node.kind = "UnaryPlus" THEN first \o none ELSE first \o negate
<1>1. Translates(kinds) /\ Becomes(code)
  BY DEF IntUnop
<1>2. /\ env \in Envs /\ node \in Expr /\ node.kind \in kinds
      /\ Calm(env, s) /\ Fits(env, node, s) /\ NodeAt(kinds)
  BY <1>1, NodeNow
<1>3. Coded(first) /\ Coded(none) /\ Coded(negate)
  BY CodedTuples
<1>4. /\ node.kind = "UnaryPlus" => Chain(env, {s}, first \o none, Y)
      /\ node.kind = "UnaryMinus" => Chain(env, {s}, first \o negate, Y)
  BY <1>2, UnaryChain DEF Unary
<1>5. node.kind = "UnaryPlus" \/ node.kind = "UnaryMinus"
  BY <1>2
<1>. HIDE DEF first, none, negate, Y, kinds
<1>6. Coded(first \o none) /\ Coded(first \o negate)
  BY <1>3, CodedJoin
<1>. DEFINE p == first \o none
            q == first \o negate
<1>7. /\ Coded(p) /\ Coded(q)
      /\ node.kind = "UnaryPlus" => Chain(env, {s}, p, Y) /\ code = p
      /\ node.kind = "UnaryMinus" => Chain(env, {s}, q, Y) /\ code = q
  BY <1>4, <1>6
<1>. HIDE DEF p, q, code
<1>8. Coded(code) /\ Chain(env, {s}, code, Y)
  BY <1>5, <1>7
<1>. QED
  BY <1>1, <1>2, <1>8, BecomesGood DEF Y

(* BoolBinop keeps Good.                                                   *)
LEMMA CompareGood ==
  ASSUME Good, BoolBinop PROVE Good'
<1>. DEFINE env == stmt.env
            s == Current
            Y == Yielded(env, node, s)
            A == Operands(env, node, s)
            tail == <<Cmp(eax, ebx), Mov(rax, Imm(0)), Set(Condition, al), Push(rax)>>
            code == BinopPop \o tail
<1>1. Translates(Compars) /\ Becomes(code)
  BY DEF BoolBinop
<1>2. /\ env \in Envs /\ node \in Expr /\ node.kind \in Compars
      /\ Calm(env, s) /\ Fits(env, node, s) /\ NodeAt(Compars)
  BY <1>1, NodeNow
<1>3. Coded(BinopPop) /\ Chain(env, {s}, BinopPop, A)
  BY <1>2, PopIs, OperandsChain DEF Binary
<1>4. Condition = ConditionOf(node.kind)
  BY DEF Condition, ConditionOf
<1>5. Coded(tail) /\ Chain(env, A, tail, Y)
  BY <1>2, <1>4, CodedTuples, CompareChain
<1>. HIDE DEF tail, A, Y
<1>6. Coded(code) /\ Chain(env, {s}, code, Y)
  BY <1>3, <1>5, CodedJoin, ChainJoin
<1>. HIDE DEF code
<1>. QED
  BY <1>1, <1>2, <1>6, BecomesGood DEF Y

(* BoolGate keeps Good.                                                    *)
LEMMA GateGood ==
  ASSUME Good, BoolGate PROVE Good'
<1>. DEFINE env == stmt.env
            s == Current
            Y == Yielded(env, node, s)
            A == Operands(env, node, s)
            tail == <<Mov(rax, Imm(0)), Set("ne", al), Push(rax)>>
            both == <<Cmp(rax, Imm(0)), Mov(rax, Imm(0)), Set("ne", al), Cmp(rbx, Imm(0)),
                      Mov(rbx, Imm(0)), Set("ne", bl), And(rax, rbx)>>
            either == <<Or(rax, rbx)>>
            code == (BinopPop \o GateOp) \o tail
<1>1. Translates(Gates) /\ Becomes(code)
  BY DEF BoolGate
<1>2. /\ env \in Envs /\ node \in Expr /\ node.kind \in Gates
      /\ Calm(env, s) /\ Fits(env, node, s) /\ NodeAt(Gates)
  BY <1>1, NodeNow
<1>3. Coded(BinopPop) /\ Chain(env, {s}, BinopPop, A)
  BY <1>2, PopIs, OperandsChain DEF Binary
<1>4. Coded(tail) /\ Coded(both) /\ Coded(either)
  BY CodedTuples
<1>5. /\ node.kind = "And" => GateOp = both
      /\ node.kind = "Or" => GateOp = either
      /\ node.kind = "And" \/ node.kind = "Or"
  BY <1>2 DEF GateOp, Gates
<1>6. /\ node.kind = "And" =>
           \E F \in SUBSET States : Chain(env, A, both, F) /\ Chain(env, F, tail, Y)
      /\ node.kind = "Or" =>
           \E F \in SUBSET States : Chain(env, A, either, F) /\ Chain(env, F, tail, Y)
  BY <1>2, GateChain
<1>. HIDE DEF tail, both, either, A, Y
<1>7. PICK F \in SUBSET States : Chain(env, A, GateOp, F) /\ Chain(env, F, tail, Y)
  BY <1>5, <1>6
<1>8. Coded(GateOp)
  BY <1>4, <1>5
<1>. DEFINE first == BinopPop \o GateOp
<1>9. Coded(first) /\ Chain(env, {s}, first, F)
  BY <1>3, <1>7, <1>8, CodedJoin, ChainJoin
<1>. HIDE DEF first
<1>10. Coded(first \o tail) /\ Chain(env, {s}, first \o tail, Y)
  BY <1>4, <1>7, <1>9, CodedJoin, ChainJoin
<1>11. code = first \o tail
  BY DEF first
<1>. HIDE DEF code
<1>. QED
  BY <1>1, <1>2, <1>10, <1>11, BecomesGood DEF Y

(* NotInstr keeps Good.                                                    *)
LEMMA NotGood ==
  ASSUME Good, NotInstr PROVE Good'
<1>. DEFINE code == <<Node(node.sub), Pop(rax), Cmp(rax, Imm(0)), Mov(rax, Imm(0)),
                      Set("eq", al), Push(rax)>>
<1>1. Translates({"Not"}) /\ Becomes(code)
  BY DEF NotInstr
<1>2. Coded(code)
  BY CodedTuples
<1>3. node.kind = "Not"
  BY <1>1, NodeNow
<1>4. Chain(stmt.env, {Current}, code, Yielded(stmt.env, node, Current))
  BY <1>1, <1>3, NodeNow, UnaryChain DEF Unary
<1>. HIDE DEF code
<1>. QED
  BY <1>1, <1>2, <1>4, NodeNow, BecomesGood

(* FunctionCall keeps Good.                                                *)
LEMMA CallGood ==
  ASSUME Good, FunctionCall PROVE Good'
<1>1. /\ todo # <<>> /\ Head(todo)[1] = "NODE" /\ todo' = Tail(todo) /\ stmt' = stmt
  BY DEF FunctionCall
<1>2. /\ stmt.env \in Envs /\ dirty \in BOOLEAN
      /\ Calm(stmt.env, Current) /\ Fits(stmt.env, node, Current)
  BY <1>1, GoodNow
<1>3. Yields(stmt.env, node, Current, Current')
  BY <1>2, CallYields
<1>4. Post(stmt.env, Head(todo), Current, Current')
  BY <1>1, <1>3 DEF Post, node
<1>5. dirty' \in BOOLEAN
  BY <1>2 DEF FunctionCall
<1>. QED
  BY <1>1, <1>4, <1>5, GoodDone

(* Execute keeps Good.                                                     *)
LEMMA ExecuteGood ==
  ASSUME Good, Execute PROVE Good'
<1>1. /\ todo # <<>> /\ Head(todo)[1] # "NODE" /\ todo' = Tail(todo) /\ stmt' = stmt
  BY DEF Execute
<1>2. dirty \in BOOLEAN
  BY GoodNow
<1>3. Does(Head(todo), Current, Current')
  BY <1>2, ExecuteDoes
<1>4. Post(stmt.env, Head(todo), Current, Current')
  BY <1>1, <1>3 DEF Post
<1>5. dirty' \in BOOLEAN
  BY <1>2 DEF Execute
<1>. QED
  BY <1>1, <1>4, <1>5, GoodDone

(* Good depends on nothing else.                                           *)
LEMMA StutterGood ==
  ASSUME Good, UNCHANGED vars PROVE Good'
<1>1. todo' = todo /\ stmt' = stmt /\ dirty' = dirty /\ Current' = Current
  BY DEF vars, Current
<1>. QED
  BY <1>1 DEF Good

(* The code that is left always leads to an end of the statement that is   *)
(* C's: the inductive invariant of what translation.c writes.              *)
THEOREM GoodHolds == Spec => []Good
<1>1. Init => Good
  BY InitGood
<1>2. Good /\ [Next]_vars => Good'
  BY LiteralGood, PlaceGood, ArithGood, UnopGood, CompareGood, GateGood, NotGood,
     CallGood, ExecuteGood, StutterGood DEF Next
<1>. QED
  BY <1>1, <1>2, PTL DEF Spec

-----------------------------------------------------------------------------
(* What Good says of the invariants.                                       *)

(* When nothing is left, the state is one the statement may end in.        *)
LEMMA GoodOver ==
  ASSUME Good, todo = <<>>
  PROVE  /\ Current \in Finals(stmt) /\ EndsCalm(Current)
         /\ stmt.kind \in {"If", "Assign", "Print"}
<1>1. stmt \in Statements /\ Chain(stmt.env, {Current}, <<>>, Finals(stmt))
  BY DEF Good
<1>2. stmt.kind \in {"If", "Assign", "Print"}
  BY <1>1, StatementShape
<1>3. {Current} \subseteq Finals(stmt)
  BY <1>1, ChainOver
<1>4. Current \in Finals(stmt)
  BY <1>3
<1>5. CASE stmt.kind = "If"
  <2>1. Current \in EndsIf(InC[stmt.expr][stmt.env])
    BY <1>4, <1>5 DEF Finals
  <2>. QED
    BY <1>2, <1>4, <2>1 DEF EndsIf
<1>6. CASE stmt.kind = "Assign"
  <2>1. Current \in EndsAssign(stmt.env, stmt.var, InC[stmt.expr][stmt.env])
    BY <1>4, <1>6 DEF Finals
  <2>. QED
    BY <1>2, <1>4, <2>1 DEF EndsAssign
<1>7. CASE stmt.kind = "Print"
  <2>1. Current \in EndsPrint(stmt.expr, InC[stmt.expr][stmt.env])
    BY <1>4, <1>7 DEF Finals
  <2>. QED
    BY <1>2, <1>4, <2>1 DEF EndsPrint
<1>. QED
  BY <1>2, <1>5, <1>6, <1>7

(* The parts of the current state.                                         *)
LEMMA CurrentParts ==
  /\ Current.reg = reg /\ Current.mem = mem /\ Current.flags = flags
  /\ Current.goto = goto
  /\ Current.loose = (dirty \/ ~InC[stmt.expr][stmt.env].ok)
BY DEF Current

(* Good keeps the stack.                                                   *)
LEMMA GoodKeeps == ASSUME Good PROVE StackKept
<1>1. StackLimit \in Nat /\ StackTop \in Nat
  BY StackIs
<1>2. CASE todo = <<>>
  BY <1>1, <1>2, GoodOver, CurrentParts DEF EndsCalm, StackKept
<1>3. CASE todo # <<>>
  <2>1. /\ reg["rsp"] \in StackLimit .. StackTop
        /\ \A x : x \notin StackLimit .. StackTop - 1 =>
                    CellAt(mem, x) = CellAt(Filled(stmt.env), x)
    BY <1>3, GoodNow, CurrentParts DEF Calm
  <2>2. \A a \in DOMAIN mem \cup DOMAIN Filled(stmt.env) :
          a >= StackTop => CellAt(mem, a) = CellAt(Filled(stmt.env), a)
    <3>1. mem \in Memories /\ Filled(stmt.env) \in Memories
      <4>1. Current \in States /\ stmt.env \in Envs
        BY <1>3, GoodNow DEF Calm
      <4>. QED
        BY <4>1, StateParts, CurrentParts, EnvTyped, FilledCells
    <3>2. \A m \in Memories : DOMAIN m \subseteq Word
      BY DEF Memories
    <3>3. \A a \in DOMAIN mem \cup DOMAIN Filled(stmt.env) : a \in Nat
      BY <3>1, <3>2, WordIs
    <3>4. ASSUME NEW a \in DOMAIN mem \cup DOMAIN Filled(stmt.env), a >= StackTop
          PROVE  a \notin StackLimit .. StackTop - 1
      BY <1>1, <3>3, <3>4
    <3>. QED
      BY <2>1, <3>4
  <2>3. reg["rsp"] <= StackTop
    BY <1>1, <2>1
  <2>. QED
    BY <1>3, <2>2, <2>3 DEF StackKept
<1>. QED
  BY <1>2, <1>3

(* Good decides the branch.                                                *)
LEMMA GoodBranches == ASSUME Good PROVE BranchAsInC
<1>. DEFINE c == InC[stmt.expr][stmt.env]
<1>1. SUFFICES ASSUME todo = <<>>, stmt.kind = "If", c.ok, c.exact, ~dirty
               PROVE  (goto = To("else")) = (c.val = 0)
  BY DEF BranchAsInC, Ends
<1>2. Current \in EndsIf(c)
  BY <1>1, GoodOver DEF Finals
<1>3. ~Current.loose
  BY <1>1, CurrentParts
<1>. QED
  BY <1>1, <1>2, <1>3, CurrentParts DEF EndsIf

(* Good stores the value of an assignment.                                 *)
LEMMA GoodAssigns ==
  ASSUME Good, todo = <<>>, stmt.kind = "Assign", ~dirty,
         NEW c, c = InC[stmt.expr][stmt.env], c.ok
  PROVE  AssignAsInC(c)
<1>. DEFINE env == stmt.env
            var == stmt.var
            new == [env EXCEPT ![var] = c.val]
<1>1. /\ stmt \in Statements /\ env \in Envs /\ stmt.expr \in Expr /\ var \in DOMAIN Vars
  BY GoodNow, StatementShape
<1>2. c.val \in Int /\ env \in [DOMAIN Vars -> Int]
  BY <1>1, EnvTyped, InCIs, IntRange DEF Outs
<1>3. /\ new \in [DOMAIN Vars -> Int]
      /\ \A v \in DOMAIN Vars : new[v] = IF v = var THEN c.val ELSE env[v]
  BY <1>1, <1>2
<1>4. Current \in EndsAssign(env, var, c)
  BY GoodOver DEF Finals
<1>5. ~Current.loose
  BY CurrentParts
<1>6. ASSUME NEW v \in DOMAIN Vars
      PROVE  Load(mem, Location(v), Size(Vars[v].type)) = new[v] % Width(Size(Vars[v].type))
  BY <1>3, <1>4, <1>5, <1>6, CurrentParts DEF EndsAssign
<1>7. reg["rbp"] = StackTop + 8 /\ reg \in [Registers -> Word]
  BY <1>4, CurrentParts, StateParts DEF EndsAssign, EndsCalm
<1>8. ASSUME NEW v \in DOMAIN Vars
      PROVE  Address(Vars[v].at) = Location(v)
  <2>1. Address(Vars[v].at) = AddressIn(Current, Vars[v].at)
    BY CurrentParts DEF Address, AddressIn
  <2>2. /\ Vars[v].at.base = Place(v).base /\ Vars[v].at.disp = Place(v).disp
        /\ Vars[v].at.index = Place(v).index
    BY <1>8, VarsAssumption DEF Place
  <2>3. AddressIn(Current, Vars[v].at) = AddressIn(Current, Place(v))
    BY <2>2 DEF AddressIn
  <2>4. Current.reg["rbp"] = StackTop + 8 /\ Current \in States
    BY <1>4, <1>7, CurrentParts DEF EndsAssign
  <2>. QED
    BY <1>8, <2>1, <2>3, <2>4, PlaceIs
<1>9. ASSUME NEW v \in DOMAIN Vars
      PROVE  Load(mem, Address(Vars[v].at), Size(Vars[v].type))
               = Load(Filled(new), Address(Vars[v].at), Size(Vars[v].type))
  <2>. HIDE DEF new
  <2>. QED
    BY <1>3, <1>6, <1>8, <1>9, FilledLoad
<1>10. Variables(mem) = Variables(Filled(new))
  <2>. HIDE DEF new
  <2>. QED
    BY <1>9 DEF Variables
<1>. QED
  BY <1>10 DEF AssignAsInC

(* Good hands the value to printf.                                         *)
LEMMA GoodPrints ==
  ASSUME Good, todo = <<>>, stmt.kind = "Print", ~dirty,
         NEW c, c = InC[stmt.expr][stmt.env], c.ok
  PROVE  PrintAsInC(c)
<1>1. /\ stmt.env \in Envs /\ stmt.expr \in Expr
  BY GoodNow
<1>2. c.val \in Int
  BY <1>1, InCIs, IntRange DEF Outs
<1>3. Current \in EndsPrint(stmt.expr, c)
  BY GoodOver DEF Finals
<1>4. reg["rsi"] % IntMod = c.val % IntMod /\ Current \in States
  BY <1>3, CurrentParts DEF EndsPrint
<1>5. reg["rsi"] \in Int
  BY <1>4, CurrentParts, StateParts DEF Registers
<1>6. /\ reg["rsi"] % Width(Size("int")) = c.val % Width(Size("int"))
      /\ reg["rsi"] % Width(Size("char")) = c.val % Width(Size("char"))
  BY <1>2, <1>4, <1>5, CutSize DEF IntTypes
<1>. QED
  BY <1>6 DEF PrintAsInC, Size

(* Both together.                                                          *)
LEMMA GoodValues == ASSUME Good PROVE ValuesAsInC
BY GoodAssigns, GoodPrints DEF ValuesAsInC

(* Good leaves nothing unspecified.                                        *)
LEMMA GoodSpecified == ASSUME Good PROVE NeverUnspecified
<1>1. ASSUME todo # <<>>
      PROVE  LET i == Head(todo) IN
             /\ i[1] \in {"SET", "JUMP"} => Tests(i[2])
             /\ i[1] = "IDIV" => Divides(i[2])
  <2>. DEFINE i == Head(todo)
  <2>1. Safe(stmt.env, i, Current)
    BY <1>1, GoodHead
  <2>2. i[1] \in {"SET", "JUMP"} => Tests(i[2])
    BY <2>1, CurrentParts DEF Safe, Tests
  <2>3. i[1] = "IDIV" => Divides(i[2])
    <3>1. AddressIn(Current, i[2]) = Address(i[2])
      BY CurrentParts DEF Address, AddressIn
    <3>2. ValueIn(Current, i[2]) = Value(i[2])
      BY <3>1, CurrentParts DEF Value, ValueIn
    <3>. QED
      BY <2>1, <3>2, CurrentParts DEF Safe, Divides, DividesIn
  <2>. HIDE DEF i
  <2>. QED
    BY <2>2, <2>3 DEF i
<1>2. Current.goto = Trapped => Current.loose
  BY GoodNow, GoodOver DEF Calm, EndsCalm
<1>. QED
  BY <1>1, <1>2, CurrentParts DEF NeverUnspecified

(* The code of an expression, however deep, takes what it needs below rsp  *)
(* and gives it back: it never writes a local or a temporary of the        *)
(* expression around it, and the statement ends with the rsp it began      *)
(* with.                                                                   *)
THEOREM StackKeptHolds == Spec => []StackKept
BY GoodHolds, GoodKeeps, PTL

(* if and while branch as C does, for every expression whose value the     *)
(* code is exact about: prim_assign, instr and write_if agree on the       *)
(* stack.                                                                  *)
THEOREM BranchAsInCHolds == Spec => []BranchAsInC
BY GoodHolds, GoodBranches, PTL

(* For every expression the code is held to, an assignment stores C's      *)
(* value, cut to the variable's size, and no other variable changes; print *)
(* hands printf C's value and the format of its kind.                      *)
THEOREM ValuesAsInCHolds == Spec => []ValuesAsInC
BY GoodHolds, GoodValues, PTL

(* The code asks for no flags an addition or a call has left, divides      *)
(* nothing that is not a word of an int, and traps only on a division by   *)
(* 0.                                                                      *)
THEOREM NeverUnspecifiedHolds == Spec => []NeverUnspecified
BY GoodHolds, GoodSpecified, PTL
=============================================================================
