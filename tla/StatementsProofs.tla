-------------------------- MODULE StatementsProofs --------------------------
(***************************************************************************)
(* Proofs about Statements, for bodies of any size and depth: the code     *)
(* does what the source says and stays within its function, its labels are *)
(* its own, and a body that check_control_flow accepts returns.            *)
(***************************************************************************)
EXTENDS Statements, RecursionTheorems, SequenceTheorems

-----------------------------------------------------------------------------
(* Trees are finite: no chain of children goes on forever.                 *)
Below(t) == Children(t) \cup UNION {Children(c) : c \in Children(t)}

BelowIn == {p \in Tree \X Tree : p[1] \in Below(p[2])}

FiniteTrees == IsWellFoundedOn(BelowIn, Tree)

(* The children of a tree are trees: of a list, a statement and the rest;  *)
(* of a block, a list; of a control structure, statements.                 *)
LEMMA ChildrenAreTrees ==
  ASSUME NEW t \in Tree
  PROVE  /\ Children(t) \subseteq Tree
         /\ Below(t) \subseteq Tree
         /\ \A s \in Below(t) : <<s, t>> \in BelowIn
<1>1. \A s \in Tree : Children(s) \subseteq Tree
  BY TreeAssumption DEF Children, IsStatement, IsSuite
<1>2. Below(t) \subseteq Tree
  BY <1>1 DEF Below
<1>. QED
  BY <1>1, <1>2 DEF BelowIn

(* What holds of a tree when it holds of all that is below it holds of all *)
(* trees.                                                                  *)
LEMMA TreeInduction ==
  ASSUME FiniteTrees, NEW T,
         \A t \in Tree : (\A s \in Below(t) : s \in T) => t \in T
  PROVE  Tree \subseteq T
<1>1. \A t \in Tree : (\A s \in Tree : <<s, t>> \in BelowIn => s \in T) => t \in T
  BY ChildrenAreTrees
<1>. QED
  BY <1>1, WellFoundedCover DEF FiniteTrees

-----------------------------------------------------------------------------
(* What there is in a piece of code.                                       *)
Ids == {t.id : t \in Tree}
Names == {"ELSE", "ENDIF", "WHILE", "ENDWHILE"} \X Nat

Ops ==
  {Do(id) : id \in Ids} \cup {Ret(id) : id \in Ids}
    \cup {Test(label) : label \in Names} \cup {Jmp(label) : label \in Names}
    \cup {Label(label) : label \in Names} \cup {End, Abort}

Pieces == [code : Seq(Ops), labelc : Nat, returns : BOOLEAN]

(* The pieces of code of the branches of a control structure are those of  *)
(* trees below it.                                                         *)
LEMMA BranchBelow ==
  ASSUME NEW t \in Tree
  PROVE  /\ t.kind = "if" => Branch(t.then) \in Below(t)
         /\ t.kind = "ifelse" => Branch(t.then) \in Below(t) /\ Branch(t.else) \in Below(t)
         /\ t.kind = "while" => Branch(t.do) \in Below(t)
         /\ t.kind = "suite" => t.first \in Below(t) /\ t.next \in Below(t)
         /\ t.kind = "block" => t.suite \in Below(t)
         /\ t.kind = "block" /\ t.suite.kind # "none" => t.suite.first \in Below(t)
<1>1. \A s \in Children(t) : s \in Below(t) /\ Branch(s) \in Below(t)
  <2>1. ASSUME NEW s \in Children(t) PROVE Branch(s) \in Below(t)
    <3>1. CASE s.kind = "block"
      BY <3>1 DEF Branch, Below, Children
    <3>2. CASE s.kind # "block"
      BY <3>2 DEF Branch, Below
    <3>. QED
      BY <3>1, <3>2
  <2>. QED
    BY <2>1 DEF Below
<1>2. t.kind = "block" => t.suite.kind \in {"none", "suite"}
  BY TreeAssumption DEF IsSuite
<1>3. t.kind = "block" /\ t.suite.kind = "suite" => t.suite.first \in Below(t)
  BY DEF Below, Children
<1>. QED
  BY <1>1, <1>2, <1>3 DEF Children

(* The kinds of trees, and where they have what.                           *)
LEMMA TreeKinds ==
  ASSUME NEW t \in Tree
  PROVE  t.kind \in {"none", "suite", "simple", "return", "block", "if", "ifelse", "while"}
  BY TreeAssumption

(* A rule for the code of a tree looks at what is below it only.           *)
LEMMA InstrLocal ==
  ASSUME NEW t \in Tree, NEW g, NEW h, \A s \in Below(t) : g[s] = h[s], NEW l
  PROVE  InstrRule(g, t, l) = InstrRule(h, t, l)
<1>1. CASE t.kind \in {"none", "simple", "return"}
  BY <1>1 DEF InstrRule
<1>2. CASE t.kind = "suite"
  BY <1>2, BranchBelow DEF InstrRule, SuiteInstr
<1>3. CASE t.kind = "block"
  BY <1>3, BranchBelow DEF InstrRule, BlockInstr
<1>4. CASE t.kind = "if"
  BY <1>4, BranchBelow DEF InstrRule, IfInstr
<1>5. CASE t.kind = "ifelse"
  BY <1>5, BranchBelow DEF InstrRule, IfElseInstr
<1>6. CASE t.kind = "while"
  BY <1>6, BranchBelow DEF InstrRule, WhileInstr
<1>. QED
  BY <1>1, <1>2, <1>3, <1>4, <1>5, <1>6, TreeKinds

(* It yields a piece of code from pieces of code.                          *)
LEMMA InstrTyped ==
  ASSUME NEW t \in Tree, NEW g, \A s \in Below(t) : g[s] \in [Nat -> Pieces], NEW l \in Nat
  PROVE  InstrRule(g, t, l) \in Pieces
<1>1. /\ \A s \in Below(t) : \A k \in Nat : g[s][k] \in Pieces
      /\ \A p \in Pieces : p.code \in Seq(Ops) /\ p.labelc \in Nat /\ p.returns \in BOOLEAN
  BY DEF Pieces
<1>2. \A c \in Seq(Ops), m \in Nat, r \in BOOLEAN : Piece(c, m, r) \in Pieces
  BY DEF Piece, Pieces
<1>3. \A x \in Ops : <<x>> \in Seq(Ops)
  OBVIOUS
<1>4. \A a, b \in Seq(Ops) : a \o b \in Seq(Ops)
  OBVIOUS
<1>5. /\ t.id \in Ids
      /\ Do(t.id) \in Ops /\ Ret(t.id) \in Ops /\ Abort \in Ops
      /\ \A k \in {"ELSE", "ENDIF", "WHILE", "ENDWHILE"} :
           /\ Test(<<k, l>>) \in Ops
           /\ Jmp(<<k, l>>) \in Ops
           /\ Label(<<k, l>>) \in Ops
  BY DEF Ids, Ops, Names
<1>6. l + 1 \in Nat
  OBVIOUS
<1>7. CASE t.kind \in {"none", "simple", "return"}
  <2>1. <<>> \in Seq(Ops)
    OBVIOUS
  <2>. QED
    BY <1>2, <1>3, <1>5, <1>7, <2>1 DEF InstrRule
<1>8. CASE t.kind = "suite"
  BY <1>1, <1>2, <1>4, <1>8, BranchBelow DEF InstrRule, SuiteInstr
<1>9. CASE t.kind = "block"
  <2>1. \A p \in Pieces : [p EXCEPT !.returns = FALSE] \in Pieces
    BY DEF Pieces
  <2>. QED
    BY <1>1, <1>2, <1>3, <1>5, <1>9, <2>1, BranchBelow DEF InstrRule, BlockInstr
<1>10. CASE t.kind = "if"
  BY <1>1, <1>2, <1>3, <1>4, <1>5, <1>6, <1>10, BranchBelow DEF InstrRule, IfInstr
<1>11. CASE t.kind = "ifelse"
  <2>1. \A x, y \in Ops : <<x, y>> \in Seq(Ops)
    OBVIOUS
  <2>. QED
    BY <1>1, <1>2, <1>3, <1>4, <1>5, <1>6, <1>11, <2>1, BranchBelow DEF InstrRule, IfElseInstr
<1>12. CASE t.kind = "while"
  <2>1. \A x, y \in Ops : <<x, y>> \in Seq(Ops)
    OBVIOUS
  <2>. QED
    BY <1>1, <1>2, <1>3, <1>4, <1>5, <1>6, <1>12, <2>1, BranchBelow DEF InstrRule, WhileInstr
<1>. QED
  BY <1>7, <1>8, <1>9, <1>10, <1>11, <1>12, TreeKinds

(* instr follows its rule.                                                 *)
LEMMA InstrIs ==
  ASSUME FiniteTrees
  PROVE  /\ Instr \in [Tree -> [Nat -> Pieces]]
         /\ \A t \in Tree : \A l \in Nat : Instr[t][l] = InstrRule(Instr, t, l)
<1>. DEFINE V == [Nat -> Pieces]
            F == [g \in [Tree -> V] |-> [t \in Tree |-> [l \in Nat |-> InstrRule(g, t, l)]]]
<1>1. \A g \in [Tree -> V] : \A t \in Tree : \A l \in Nat : InstrRule(g, t, l) \in Pieces
  BY InstrTyped, ChildrenAreTrees
<1>2. F \in [[Tree -> V] -> [Tree -> V]]
  BY <1>1
<1>3. ASSUME NEW g \in [Tree -> V], NEW h \in [Tree -> V], NEW t \in Tree,
             \A s \in Tree : <<s, t>> \in BelowIn => g[s] = h[s]
      PROVE  F[g][t] = F[h][t]
  <2>1. \A s \in Below(t) : g[s] = h[s]
    BY <1>3, ChildrenAreTrees
  <2>2. \A l \in Nat : InstrRule(g, t, l) = InstrRule(h, t, l)
    BY <2>1, InstrLocal
  <2>. HIDE DEF V
  <2>. QED
    BY <2>2
<1>4. V # {}
  <2>1. Piece(<<>>, 0, FALSE) \in Pieces
    BY DEF Piece, Pieces
  <2>2. [l \in Nat |-> Piece(<<>>, 0, FALSE)] \in V
    BY <2>1
  <2>. QED
    BY <2>2
<1>5. \E g \in [Tree -> V] : g = F[g]
  <2>. HIDE DEF F, V
  <2>1. Determined(F, BelowIn, Tree, V)
    BY <1>3 DEF Determined
  <2>2. WellDefined(F, BelowIn, Tree, V)
    BY <1>2, <1>4, <2>1 DEF WellDefined, FiniteTrees
  <2>. QED
    BY <2>2, RecursiveFunction
<1>6. Instr = CHOOSE f : f = [t \in Tree |-> [l \in Nat |-> InstrRule(f, t, l)]]
  BY DEF Instr
<1>7. PICK f \in [Tree -> V] : f = [t \in Tree |-> [l \in Nat |-> InstrRule(f, t, l)]]
  <2>. HIDE DEF V
  <2>. QED
    BY <1>5
<1>8. Instr = [t \in Tree |-> [l \in Nat |-> InstrRule(Instr, t, l)]]
  <2>. HIDE DEF V
  <2>. QED
    BY <1>6, <1>7
<1>. HIDE DEF F, V
<1>9. /\ Instr = [t \in Tree |-> Instr[t]]
      /\ \A t \in Tree : Instr[t] = [l \in Nat |-> InstrRule(Instr, t, l)]
  BY <1>8
<1>10. \A t \in Tree : \A l \in Nat : Instr[t][l] = InstrRule(Instr, t, l)
  BY <1>9
<1>. DEFINE T == {t \in Tree : Instr[t] \in [Nat -> Pieces]}
<1>11. ASSUME NEW t \in Tree, \A s \in Below(t) : s \in T PROVE t \in T
  <2>1. \A l \in Nat : InstrRule(Instr, t, l) \in Pieces
    BY <1>11, InstrTyped
  <2>. QED
    BY <1>9, <2>1
<1>12. Tree \subseteq T
  <2>. HIDE DEF T
  <2>. QED
    BY <1>11, TreeInduction
<1>. QED
  BY <1>9, <1>10, <1>12

-----------------------------------------------------------------------------
(* What the source does.                                                   *)
Booleans == Seq(BOOLEAN)
Outcomes == [trace : Seq(Ids), done : BOOLEAN, oracle : Booleans]
Meanings == [Booleans -> Outcomes]

(* The rest of the truth values are truth values, one less unless none.    *)
LEMMA RestTyped ==
  ASSUME NEW o \in Booleans
  PROVE  /\ Rest(o) \in Booleans /\ Len(Rest(o)) \in Nat /\ Len(o) \in Nat
         /\ o = <<>> => Rest(o) = o /\ Len(o) = 0
         /\ o # <<>> => Len(Rest(o)) = Len(o) - 1
         /\ Truth(o) => o # <<>> /\ Len(o) # 0
<1>1. CASE o = <<>>
  BY <1>1 DEF Booleans, Rest, Truth
<1>2. CASE o # <<>>
  <2>1. Tail(o) \in Booleans /\ Len(o) \in Nat /\ Len(Tail(o)) = Len(o) - 1 /\ Len(o) # 0
    BY <1>2, HeadTailProperties, EmptySeq DEF Booleans
  <2>2. Len(Tail(o)) \in Nat
    BY <2>1 DEF Booleans
  <2>. QED
    BY <1>2, <2>1, <2>2 DEF Rest
<1>. QED
  BY <1>1, <1>2

(* What puts outcomes together yields outcomes.                            *)
LEMMA OutcomesTyped ==
  /\ \A o \in Booleans : Nothing(o) \in Outcomes
  /\ \A o \in Booleans, id \in Ids, done \in BOOLEAN : Step(id, done, o) \in Outcomes
  /\ \A r, s \in Outcomes : After(r, s) \in Outcomes
<1>1. /\ <<>> \in Seq(Ids)
      /\ \A id \in Ids : <<id>> \in Seq(Ids)
      /\ \A r, s \in Outcomes : r.trace \o s.trace \in Seq(Ids)
  BY DEF Outcomes
<1>2. \A o \in Booleans : Nothing(o) \in Outcomes
  BY <1>1 DEF Nothing, Outcomes
<1>3. \A o \in Booleans, id \in Ids, done \in BOOLEAN : Step(id, done, o) \in Outcomes
  BY <1>1 DEF Step, Outcomes
<1>4. \A r, s \in Outcomes : After(r, s) \in Outcomes
  BY <1>1 DEF After, Outcomes
<1>. QED
  BY <1>2, <1>3, <1>4

(* A loop follows its rule, and has outcomes.                              *)
LEMMA LoopIs ==
  ASSUME NEW once \in Meanings
  PROVE  /\ Loop(once) \in [Nat -> Meanings]
         /\ \A k \in Nat : \A o \in Booleans :
               Loop(once)[k][o] = LoopRule(Loop(once), once, k, o)
<1>. DEFINE R == OpToRel(<, Nat)
            F == [g \in [Nat -> Meanings] |->
                    [k \in Nat |-> [o \in Booleans |-> LoopRule(g, once, k, o)]]]
<1>1. IsWellFoundedOn(R, Nat) /\ \A m, n \in Nat : <<m, n>> \in R <=> m < n
  BY NatLessThanWellFounded DEF OpToRel
<1>2. ASSUME NEW g, NEW k \in Nat, k # 0 => g[k - 1] \in Meanings, NEW o \in Booleans
      PROVE  LoopRule(g, once, k, o) \in Outcomes
  <2>1. Nothing(Rest(o)) \in Outcomes
    BY RestTyped, OutcomesTyped
  <2>2. once[Rest(o)] \in Outcomes /\ once[Rest(o)].oracle \in Booleans
    BY RestTyped DEF Meanings, Outcomes
  <2>3. k # 0 => g[k - 1][once[Rest(o)].oracle] \in Outcomes
    BY <1>2, <2>2 DEF Meanings
  <2>. QED
    BY <2>1, <2>2, <2>3, OutcomesTyped DEF LoopRule
<1>3. F \in [[Nat -> Meanings] -> [Nat -> Meanings]]
  <2>1. ASSUME NEW g \in [Nat -> Meanings], NEW k \in Nat
        PROVE  [o \in Booleans |-> LoopRule(g, once, k, o)] \in Meanings
    <3>1. k # 0 => k - 1 \in Nat
      OBVIOUS
    <3>2. \A o \in Booleans : LoopRule(g, once, k, o) \in Outcomes
      BY <1>2, <3>1
    <3>. QED
      BY <3>2 DEF Meanings
  <2>. QED
    BY <2>1
<1>4. ASSUME NEW g \in [Nat -> Meanings], NEW h \in [Nat -> Meanings], NEW k \in Nat,
             \A m \in Nat : <<m, k>> \in R => g[m] = h[m]
      PROVE  F[g][k] = F[h][k]
  <2>1. k # 0 => k - 1 \in Nat /\ k - 1 < k
    OBVIOUS
  <2>2. k # 0 => g[k - 1] = h[k - 1]
    BY <1>1, <1>4, <2>1
  <2>3. \A o \in Booleans : LoopRule(g, once, k, o) = LoopRule(h, once, k, o)
    BY <2>2 DEF LoopRule
  <2>. QED
    BY <2>3
<1>5. Meanings # {} /\ [Nat -> Meanings] # {}
  <2>1. [o \in Booleans |-> Nothing(o)] \in Meanings
    BY OutcomesTyped DEF Meanings
  <2>2. [k \in Nat |-> [o \in Booleans |-> Nothing(o)]] \in [Nat -> Meanings]
    BY <2>1
  <2>. QED
    BY <2>1, <2>2
<1>. HIDE DEF R, F
<1>6. PICK g \in [Nat -> Meanings] : g = F[g]
  <2>1. Determined(F, R, Nat, Meanings)
    BY <1>4 DEF Determined
  <2>2. WellDefined(F, R, Nat, Meanings)
    BY <1>1, <1>3, <1>5, <2>1 DEF WellDefined
  <2>. QED
    BY <2>2, RecursiveFunction
<1>7. Loop(once) = CHOOSE f : f = [k \in Nat |-> [o \in Booleans |-> LoopRule(f, once, k, o)]]
  BY DEF Loop, Booleans
<1>8. g = [k \in Nat |-> [o \in Booleans |-> LoopRule(g, once, k, o)]]
  BY <1>6 DEF F
<1>. DEFINE L == Loop(once)
<1>9. L = [k \in Nat |-> [o \in Booleans |-> LoopRule(L, once, k, o)]]
  BY <1>7, <1>8
<1>. HIDE DEF L
<1>10. /\ L = [k \in Nat |-> L[k]]
       /\ \A k \in Nat : L[k] = [o \in Booleans |-> LoopRule(L, once, k, o)]
  BY <1>9
<1>. DEFINE T == {k \in Nat : L[k] \in Meanings}
<1>11. ASSUME NEW k \in Nat, k # 0 => k - 1 \in T PROVE k \in T
  <2>1. \A o \in Booleans : LoopRule(L, once, k, o) \in Outcomes
    BY <1>2, <1>11
  <2>. QED
    <3>1. [o \in Booleans |-> LoopRule(L, once, k, o)] \in Meanings
      BY <2>1 DEF Meanings
    <3>. QED
      BY <1>10, <3>1
<1>12. Nat \subseteq T
  <2>1. 0 \in T
    BY <1>11
  <2>2. ASSUME NEW k \in Nat, k \in T PROVE k + 1 \in T
    <3>1. k + 1 \in Nat /\ (k + 1) - 1 = k
      OBVIOUS
    <3>. HIDE DEF T
    <3>. QED
      BY <1>11, <2>2, <3>1
  <2>. HIDE DEF T
  <2>. QED
    BY <2>1, <2>2, NaturalCover
<1>13. \A k \in Nat : \A o \in Booleans : L[k][o] = LoopRule(L, once, k, o)
  BY <1>10
<1>. QED
  BY <1>10, <1>12, <1>13 DEF L

(* What a tree does depends on what is below it does only.                 *)
LEMMA RunLocal ==
  ASSUME NEW t \in Tree, NEW g, NEW h, \A s \in Below(t) : g[s] = h[s], NEW o
  PROVE  RunRule(g, t, o) = RunRule(h, t, o)
<1>1. \A s \in Children(t) : g[s] = h[s]
  BY DEF Below
<1>2. CASE t.kind \in {"none", "simple", "return"}
  BY <1>2 DEF RunRule
<1>3. CASE t.kind = "suite"
  BY <1>1, <1>3 DEF RunRule, Children
<1>4. CASE t.kind = "block"
  BY <1>1, <1>4 DEF RunRule, Children
<1>5. CASE t.kind = "if"
  BY <1>1, <1>5 DEF RunRule, Children
<1>6. CASE t.kind = "ifelse"
  BY <1>1, <1>6 DEF RunRule, Children
<1>7. CASE t.kind = "while"
  BY <1>1, <1>7 DEF RunRule, Children
<1>. QED
  BY <1>2, <1>3, <1>4, <1>5, <1>6, <1>7, TreeKinds

(* It yields outcomes from outcomes.                                       *)
LEMMA RunTyped ==
  ASSUME NEW t \in Tree, NEW g, \A s \in Below(t) : g[s] \in Meanings, NEW o \in Booleans
  PROVE  RunRule(g, t, o) \in Outcomes
<1>1. \A s \in Children(t) : g[s] \in Meanings
  BY DEF Below
<1>2. /\ \A m \in Meanings : \A p \in Booleans : m[p] \in Outcomes
      /\ \A r \in Outcomes : r.oracle \in Booleans
  BY DEF Meanings, Outcomes
<1>3. /\ Rest(o) \in Booleans /\ Len(o) \in Nat
      /\ t.id \in Ids
      /\ Nothing(o) \in Outcomes /\ Nothing(Rest(o)) \in Outcomes
      /\ Step(t.id, TRUE, o) \in Outcomes /\ Step(t.id, FALSE, o) \in Outcomes
  BY RestTyped, OutcomesTyped DEF Ids
<1>4. CASE t.kind \in {"none", "simple", "return"}
  BY <1>3, <1>4 DEF RunRule
<1>5. CASE t.kind = "suite"
  BY <1>1, <1>2, <1>5, OutcomesTyped DEF RunRule, Children
<1>6. CASE t.kind = "block"
  BY <1>1, <1>2, <1>6 DEF RunRule, Children
<1>7. CASE t.kind = "if"
  BY <1>1, <1>2, <1>3, <1>7 DEF RunRule, Children
<1>8. CASE t.kind = "ifelse"
  <2>1. \A c \in {t.then, t.else} : g[c][Rest(o)] \in Outcomes
    BY <1>1, <1>2, <1>3, <1>8 DEF Children
  <2>2. RunRule(g, t, o) = g[IF Truth(o) THEN t.then ELSE t.else][Rest(o)]
    BY <1>8 DEF RunRule
  <2>. QED
    BY <2>1, <2>2
<1>9. CASE t.kind = "while"
  <2>1. g[t.do] \in Meanings
    BY <1>1, <1>9 DEF Children
  <2>2. Loop(g[t.do])[Len(o)] \in Meanings
    BY <1>3, <2>1, LoopIs
  <2>. QED
    BY <1>2, <1>9, <2>2 DEF RunRule
<1>. QED
  BY <1>4, <1>5, <1>6, <1>7, <1>8, <1>9, TreeKinds

(* The run of the source follows its rule, and has outcomes.               *)
LEMMA RunIs ==
  ASSUME FiniteTrees
  PROVE  /\ Run \in [Tree -> Meanings]
         /\ \A t \in Tree : \A o \in Booleans : Run[t][o] = RunRule(Run, t, o)
<1>. DEFINE F == [g \in [Tree -> Meanings] |->
                    [t \in Tree |-> [o \in Booleans |-> RunRule(g, t, o)]]]
<1>1. \A g \in [Tree -> Meanings] : \A t \in Tree : \A o \in Booleans :
        RunRule(g, t, o) \in Outcomes
  BY RunTyped, ChildrenAreTrees
<1>2. F \in [[Tree -> Meanings] -> [Tree -> Meanings]]
  BY <1>1 DEF Meanings
<1>3. ASSUME NEW g \in [Tree -> Meanings], NEW h \in [Tree -> Meanings], NEW t \in Tree,
             \A s \in Tree : <<s, t>> \in BelowIn => g[s] = h[s]
      PROVE  F[g][t] = F[h][t]
  <2>1. \A s \in Below(t) : g[s] = h[s]
    BY <1>3, ChildrenAreTrees
  <2>2. \A o \in Booleans : RunRule(g, t, o) = RunRule(h, t, o)
    BY <2>1, RunLocal
  <2>. QED
    BY <2>2
<1>4. Meanings # {}
  <2>1. [o \in Booleans |-> Nothing(o)] \in Meanings
    BY OutcomesTyped DEF Meanings
  <2>. QED
    BY <2>1
<1>. HIDE DEF F
<1>5. PICK f \in [Tree -> Meanings] : f = F[f]
  <2>1. Determined(F, BelowIn, Tree, Meanings)
    BY <1>3 DEF Determined
  <2>2. WellDefined(F, BelowIn, Tree, Meanings)
    BY <1>2, <1>4, <2>1 DEF WellDefined, FiniteTrees
  <2>. QED
    BY <2>2, RecursiveFunction
<1>6. Run = CHOOSE g : g = [t \in Tree |-> [o \in Booleans |-> RunRule(g, t, o)]]
  BY DEF Run, Booleans
<1>7. f = [t \in Tree |-> [o \in Booleans |-> RunRule(f, t, o)]]
  BY <1>5 DEF F
<1>8. Run = [t \in Tree |-> [o \in Booleans |-> RunRule(Run, t, o)]]
  BY <1>6, <1>7
<1>9. /\ Run = [t \in Tree |-> Run[t]]
      /\ \A t \in Tree : Run[t] = [o \in Booleans |-> RunRule(Run, t, o)]
  BY <1>8
<1>10. \A t \in Tree : \A o \in Booleans : Run[t][o] = RunRule(Run, t, o)
  BY <1>9
<1>. DEFINE T == {t \in Tree : Run[t] \in Meanings}
<1>11. ASSUME NEW t \in Tree, \A s \in Below(t) : s \in T PROVE t \in T
  <2>1. \A o \in Booleans : RunRule(Run, t, o) \in Outcomes
    BY <1>11, RunTyped
  <2>2. [o \in Booleans |-> RunRule(Run, t, o)] \in Meanings
    BY <2>1 DEF Meanings
  <2>3. Run[t] \in Meanings
    BY <1>9, <2>2
  <2>. QED
    BY <2>3
<1>12. Tree \subseteq T
  <2>. HIDE DEF T
  <2>. QED
    BY <1>11, TreeInduction
<1>. QED
  BY <1>9, <1>10, <1>12

(* The fields of outcomes put together.                                    *)
LEMMA OutcomeFields ==
  /\ \A o : Nothing(o).trace = <<>> /\ Nothing(o).done = FALSE /\ Nothing(o).oracle = o
  /\ \A id, done, o : /\ Step(id, done, o).trace = <<id>>
                      /\ Step(id, done, o).done = done
                      /\ Step(id, done, o).oracle = o
  BY DEF Nothing, Step

(* One after the other: the traces are put together, the rest is the       *)
(* second's.                                                               *)
LEMMA AfterFields ==
  ASSUME NEW r \in Outcomes, NEW s \in Outcomes
  PROVE  /\ After(r, s).trace = r.trace \o s.trace
         /\ After(r, s).done = s.done
         /\ After(r, s).oracle = s.oracle
  BY DEF After, Outcomes

(* It takes truth values and gives none back.                              *)
Shortens(m) == \A o \in Booleans : Len(m[o].oracle) <= Len(o)

(* What the parts of an outcome are.                                       *)
LEMMA OutcomeTyped ==
  ASSUME NEW m \in Meanings, NEW o \in Booleans
  PROVE  /\ m[o] \in Outcomes
         /\ m[o].trace \in Seq(Ids) /\ m[o].done \in BOOLEAN
         /\ m[o].oracle \in Booleans /\ Len(m[o].oracle) \in Nat
<1>1. m[o] \in Outcomes
  BY DEF Meanings
<1>2. m[o].oracle \in Booleans
  BY <1>1 DEF Outcomes
<1>. QED
  BY <1>1, <1>2, RestTyped DEF Outcomes

(* A loop takes truth values and gives none back when its body does so.    *)
LEMMA LoopShortens ==
  ASSUME NEW once \in Meanings, Shortens(once), NEW k \in Nat
  PROVE  Shortens(Loop(once)[k])
<1>. DEFINE L == Loop(once)
            T == {n \in Nat : Shortens(L[n])}
<1>1. /\ L \in [Nat -> Meanings]
      /\ \A n \in Nat : \A o \in Booleans : L[n][o] = LoopRule(L, once, n, o)
  BY LoopIs
<1>. HIDE DEF L
<1>2. ASSUME NEW n \in Nat, n # 0 => Shortens(L[n - 1]), NEW o \in Booleans
      PROVE  Len(L[n][o].oracle) <= Len(o)
  <2>1. /\ Rest(o) \in Booleans /\ Len(o) \in Nat /\ Len(Rest(o)) \in Nat
        /\ Len(Rest(o)) <= Len(o)
    BY RestTyped
  <2>2. L[n][o] = LoopRule(L, once, n, o)
    BY <1>1
  <2>. DEFINE r == once[Rest(o)]
  <2>3. /\ r \in Outcomes /\ r.oracle \in Booleans /\ Len(r.oracle) \in Nat
        /\ Len(r.oracle) <= Len(Rest(o))
    BY <2>1, OutcomeTyped DEF Shortens
  <2>4. CASE n = 0 \/ ~Truth(o)
    BY <2>1, <2>2, <2>4, OutcomeFields DEF LoopRule
  <2>5. CASE n # 0 /\ Truth(o) /\ r.done
    BY <2>1, <2>2, <2>3, <2>5 DEF LoopRule
  <2>6. CASE n # 0 /\ Truth(o) /\ ~r.done
    <3>1. n - 1 \in Nat
      BY <2>6
    <3>. DEFINE s == L[n - 1][r.oracle]
    <3>2. s \in Outcomes /\ Len(s.oracle) \in Nat /\ Len(s.oracle) <= Len(r.oracle)
      BY <1>1, <1>2, <2>3, <2>6, <3>1, OutcomeTyped DEF Shortens
    <3>3. L[n][o] = After(r, s)
      BY <2>2, <2>6 DEF LoopRule
    <3>4. L[n][o].oracle = s.oracle
      <4>. HIDE DEF r, s
      <4>. QED
        <5>1. After(r, s).oracle = s.oracle
          BY <2>3, <3>2, AfterFields
        <5>. QED
          BY <3>3, <5>1
    <3>. HIDE DEF r, s
    <3>. QED
      BY <2>1, <2>3, <3>2, <3>4
  <2>. QED
    BY <2>4, <2>5, <2>6
<1>3. 0 \in T
  BY <1>2 DEF Shortens
<1>4. ASSUME NEW n \in Nat, n \in T PROVE n + 1 \in T
  <2>1. n + 1 \in Nat /\ (n + 1) - 1 = n
    OBVIOUS
  <2>2. Shortens(L[(n + 1) - 1])
    BY <1>4, <2>1
  <2>3. \A o \in Booleans : Len(L[n + 1][o].oracle) <= Len(o)
    BY <1>2, <2>1, <2>2
  <2>. QED
    BY <2>1, <2>3 DEF Shortens
<1>5. Nat \subseteq T
  <2>. HIDE DEF T
  <2>. QED
    BY <1>3, <1>4, NaturalCover
<1>. QED
  BY <1>5 DEF L

(* Fuel for as many rounds as there are truth values is enough.            *)
LEMMA LoopStable ==
  ASSUME NEW once \in Meanings, Shortens(once),
         NEW k \in Nat, NEW o \in Booleans, Len(o) <= k
  PROVE  Loop(once)[k][o] = Loop(once)[Len(o)][o]
<1>. DEFINE L == Loop(once)
            T == {n \in Nat : \A p \in Booleans : \A i, j \in Nat :
                    Len(p) <= n /\ Len(p) <= i /\ Len(p) <= j => L[i][p] = L[j][p]}
<1>1. /\ L \in [Nat -> Meanings]
      /\ \A n \in Nat : \A p \in Booleans : L[n][p] = LoopRule(L, once, n, p)
  BY LoopIs
<1>. HIDE DEF L
<1>2. ASSUME NEW n \in Nat, n # 0 => n - 1 \in T,
             NEW p \in Booleans, NEW i \in Nat, NEW j \in Nat,
             Len(p) <= n, Len(p) <= i, Len(p) <= j
      PROVE  L[i][p] = L[j][p]
  <2>1. L[i][p] = LoopRule(L, once, i, p) /\ L[j][p] = LoopRule(L, once, j, p)
    BY <1>1
  <2>2. CASE ~Truth(p)
    BY <2>1, <2>2 DEF LoopRule
  <2>3. CASE Truth(p)
    <3>1. Rest(p) \in Booleans /\ Len(p) \in Nat /\ Len(p) # 0 /\ Len(Rest(p)) = Len(p) - 1
      BY <2>3, RestTyped
    <3>. DEFINE q == once[Rest(p)].oracle
    <3>2. q \in Booleans /\ Len(q) \in Nat /\ Len(q) <= Len(p) - 1
      BY <3>1, OutcomeTyped DEF Shortens
    <3>3. /\ i # 0 /\ j # 0 /\ n # 0
          /\ i - 1 \in Nat /\ j - 1 \in Nat /\ n - 1 \in Nat
          /\ Len(q) <= i - 1 /\ Len(q) <= j - 1 /\ Len(q) <= n - 1
      <4>. HIDE DEF q
      <4>. QED
        BY <1>2, <3>1, <3>2
    <3>4. L[i - 1][q] = L[j - 1][q]
      <4>. HIDE DEF q
      <4>. QED
        BY <1>2, <3>2, <3>3
    <3>. QED
      BY <2>1, <2>3, <3>3, <3>4 DEF LoopRule
  <2>. QED
    BY <2>2, <2>3
<1>3. 0 \in T
  BY <1>2
<1>4. ASSUME NEW n \in Nat, n \in T PROVE n + 1 \in T
  <2>1. n + 1 \in Nat /\ (n + 1) - 1 = n
    OBVIOUS
  <2>2. (n + 1) - 1 \in T
    BY <1>4, <2>1
  <2>. HIDE DEF T
  <2>3. \A p \in Booleans : \A i, j \in Nat :
          Len(p) <= n + 1 /\ Len(p) <= i /\ Len(p) <= j => L[i][p] = L[j][p]
    BY <1>2, <2>1, <2>2
  <2>. QED
    BY <2>1, <2>3 DEF T
<1>5. Nat \subseteq T
  <2>. HIDE DEF T
  <2>. QED
    BY <1>3, <1>4, NaturalCover
<1>6. Len(o) \in Nat
  BY RestTyped
<1>. QED
  BY <1>5, <1>6 DEF L

(* A tree takes truth values and gives none back.                          *)
LEMMA RunShortens ==
  ASSUME FiniteTrees, NEW x \in Tree
  PROVE  Shortens(Run[x])
<1>. DEFINE T == {t \in Tree : Shortens(Run[t])}
<1>1. ASSUME NEW t \in Tree, \A s \in Below(t) : s \in T, NEW o \in Booleans
      PROVE  Len(Run[t][o].oracle) <= Len(o)
  <2>1. \A s \in Children(t) : s \in Tree /\ Run[s] \in Meanings /\ Shortens(Run[s])
    BY <1>1, RunIs, ChildrenAreTrees DEF Below
  <2>2. Run[t][o] = RunRule(Run, t, o)
    BY RunIs
  <2>3. /\ Rest(o) \in Booleans /\ Len(o) \in Nat /\ Len(Rest(o)) \in Nat
        /\ Len(Rest(o)) <= Len(o)
    BY RestTyped
  <2>4. \A s \in Children(t) : \A p \in Booleans :
          /\ Run[s][p] \in Outcomes /\ Run[s][p].oracle \in Booleans
          /\ Len(Run[s][p].oracle) \in Nat /\ Len(Run[s][p].oracle) <= Len(p)
    BY <2>1, OutcomeTyped DEF Shortens
  <2>5. CASE t.kind \in {"none", "simple", "return"}
    <3>1. Run[t][o] \in {Nothing(o), Step(t.id, FALSE, o), Step(t.id, TRUE, o)}
      BY <2>2, <2>5 DEF RunRule
    <3>2. Run[t][o].oracle = o
      BY <3>1 DEF Nothing, Step
    <3>. QED
      BY <2>3, <3>2
  <2>6. CASE t.kind = "suite"
    <3>. DEFINE r == Run[t.first][o]
                s == Run[t.next][r.oracle]
    <3>1. /\ r \in Outcomes /\ r.oracle \in Booleans /\ Len(r.oracle) \in Nat
          /\ Len(r.oracle) <= Len(o)
      BY <2>4, <2>6 DEF Children
    <3>2. s \in Outcomes /\ Len(s.oracle) \in Nat /\ Len(s.oracle) <= Len(r.oracle)
      BY <2>4, <2>6, <3>1 DEF Children
    <3>3. Run[t][o] = IF r.done THEN r ELSE After(r, s)
      BY <2>2, <2>6 DEF RunRule
    <3>. HIDE DEF r, s
    <3>4. After(r, s).oracle = s.oracle
      BY <3>1, <3>2, AfterFields
    <3>. QED
      BY <2>3, <3>1, <3>2, <3>3, <3>4
  <2>7. CASE t.kind = "block"
    BY <2>2, <2>4, <2>7 DEF RunRule, Children
  <2>8. CASE t.kind = "if"
    <3>1. Run[t][o] = IF Truth(o) THEN Run[t.then][Rest(o)] ELSE Nothing(Rest(o))
      BY <2>2, <2>8 DEF RunRule
    <3>2. /\ Len(Run[t.then][Rest(o)].oracle) \in Nat
          /\ Len(Run[t.then][Rest(o)].oracle) <= Len(Rest(o))
      BY <2>3, <2>4, <2>8 DEF Children
    <3>. QED
      BY <2>3, <3>1, <3>2, OutcomeFields
  <2>9. CASE t.kind = "ifelse"
    <3>. DEFINE s == IF Truth(o) THEN t.then ELSE t.else
    <3>1. Run[t][o] = Run[s][Rest(o)] /\ s \in Children(t)
      BY <2>2, <2>9 DEF RunRule, Children
    <3>2. Len(Run[s][Rest(o)].oracle) \in Nat /\ Len(Run[s][Rest(o)].oracle) <= Len(Rest(o))
      BY <2>3, <2>4, <3>1
    <3>. HIDE DEF s
    <3>. QED
      BY <2>3, <3>1, <3>2
  <2>10. CASE t.kind = "while"
    <3>1. Run[t][o] = Loop(Run[t.do])[Len(o)][o]
      BY <2>2, <2>10 DEF RunRule
    <3>2. Shortens(Loop(Run[t.do])[Len(o)])
      BY <2>1, <2>3, <2>10, LoopShortens DEF Children
    <3>. QED
      BY <3>1, <3>2 DEF Shortens
  <2>. QED
    BY <2>5, <2>6, <2>7, <2>8, <2>9, <2>10, TreeKinds
<1>2. ASSUME NEW t \in Tree, \A s \in Below(t) : s \in T PROVE t \in T
  <2>1. \A o \in Booleans : Len(Run[t][o].oracle) <= Len(o)
    BY <1>1, <1>2
  <2>. QED
    BY <2>1 DEF Shortens
<1>3. Tree \subseteq T
  <2>. HIDE DEF T
  <2>. QED
    BY <1>2, TreeInduction
<1>. QED
  BY <1>3

-----------------------------------------------------------------------------
(* check_control_flow.                                                     *)
Verdicts == [returns : BOOLEAN, g : AllGlobals]
Checks == [AllGlobals \X Nat -> Verdicts]

(* The parts of the globals and of verdicts.                               *)
LEMMA GlobalsTyped ==
  /\ \A g \in AllGlobals : /\ g.scope_level \in Int /\ g.flow_count \in Int
                           /\ g.has_control_flow \in BOOLEAN
                           /\ \A n \in Int : /\ [g EXCEPT !.flow_count = n] \in AllGlobals
                                             /\ [g EXCEPT !.scope_level = n] \in AllGlobals
  /\ \A s, f \in Int, h \in BOOLEAN : Globals(s, f, h) \in AllGlobals
  /\ \A g \in AllGlobals, r \in BOOLEAN : Checked(r, g) \in Verdicts
  /\ \A v \in Verdicts : v.returns \in BOOLEAN /\ v.g \in AllGlobals
<1>1. \A g \in AllGlobals :
        /\ g.scope_level \in Int /\ g.flow_count \in Int /\ g.has_control_flow \in BOOLEAN
        /\ \A n \in Int : /\ [g EXCEPT !.flow_count = n] \in AllGlobals
                          /\ [g EXCEPT !.scope_level = n] \in AllGlobals
  BY DEF AllGlobals
<1>2. \A s, f \in Int, h \in BOOLEAN : Globals(s, f, h) \in AllGlobals
  BY DEF Globals, AllGlobals
<1>3. \A g \in AllGlobals, r \in BOOLEAN : Checked(r, g) \in Verdicts
  BY DEF Checked, Verdicts
<1>4. \A v \in Verdicts : v.returns \in BOOLEAN /\ v.g \in AllGlobals
  BY DEF Verdicts
<1>. QED
  BY <1>1, <1>2, <1>3, <1>4

(* A return is a verdict.                                                  *)
LEMMA FoundTyped ==
  ASSUME NEW g \in AllGlobals, NEW off \in Nat
  PROVE  FoundReturn(g, off) \in Verdicts
<1>1. g.flow_count - off \in Int /\ 0 \in Int
  BY GlobalsTyped
<1>. QED
  BY <1>1, GlobalsTyped DEF FoundReturn

(* What check_ifelse finds is a verdict, and depends on the branches only. *)
LEMMA IfElseTyped ==
  ASSUME NEW check, NEW n, check[n.then] \in Checks, check[n.else] \in Checks,
         NEW g \in AllGlobals
  PROVE  CheckIfElse(check, n, g) \in Verdicts
<1>. DEFINE into == Globals(g.scope_level + 1, g.flow_count + 1, TRUE)
            then == check[n.then][<<into, 0>>]
            else == check[n.else][<<then.g, 0>>]
            out == [else.g EXCEPT !.scope_level = @ - 1]
<1>1. into \in AllGlobals
  <2>1. g.scope_level + 1 \in Int /\ g.flow_count + 1 \in Int
    BY DEF AllGlobals
  <2>. QED
    BY <2>1 DEF Globals, AllGlobals
<1>2. then \in Verdicts /\ then.g \in AllGlobals
  BY <1>1, GlobalsTyped DEF Checks
<1>3. else \in Verdicts /\ else.g \in AllGlobals
  BY <1>2, GlobalsTyped DEF Checks
<1>. HIDE DEF then, else
<1>4. out \in AllGlobals
  BY <1>3 DEF AllGlobals
<1>. HIDE DEF out
<1>5. [out EXCEPT !.flow_count = @ - 1] \in AllGlobals
  BY <1>4 DEF AllGlobals
<1>6. CheckIfElse(check, n, g) = IF then.returns /\ else.returns
                                 THEN Checked(TRUE, [out EXCEPT !.flow_count = @ - 1])
                                 ELSE Checked(FALSE, out)
  BY DEF CheckIfElse, then, else, out
<1>. QED
  BY <1>4, <1>5, <1>6, GlobalsTyped

(* check_ifelse looks at the branches only.                                *)
LEMMA IfElseLocal ==
  ASSUME NEW c, NEW d, NEW n, c[n.then] = d[n.then], c[n.else] = d[n.else], NEW g
  PROVE  CheckIfElse(c, n, g) = CheckIfElse(d, n, g)
  BY DEF CheckIfElse

(* The rule for a tree looks at what is below it only.                     *)
LEMMA CheckLocal ==
  ASSUME NEW t \in Tree, NEW c, NEW d, \A s \in Below(t) : c[s] = d[s], NEW g, NEW off
  PROVE  CheckRule(c, t, g, off) = CheckRule(d, t, g, off)
<1>1. \A s \in Children(t) : c[s] = d[s] /\ \A r \in Children(s) : c[r] = d[r]
  BY DEF Below
<1>2. CASE t.kind = "suite"
  <2>1. c[t.next] = d[t.next] /\ \A r \in Children(t.first) : c[r] = d[r]
    BY <1>1, <1>2 DEF Children
  <2>2. CASE t.first.kind = "ifelse"
    <3>1. CheckIfElse(c, t.first, g) = CheckIfElse(d, t.first, g)
      BY <2>1, <2>2, IfElseLocal DEF Children
    <3>. QED
      BY <1>2, <2>1, <2>2, <3>1 DEF CheckRule, RecCheck
  <2>3. CASE t.first.kind = "return"
    BY <1>2, <2>3 DEF CheckRule, RecCheck
  <2>4. CASE t.first.kind = "block"
    BY <1>2, <2>1, <2>4 DEF CheckRule, RecCheck, Children
  <2>5. CASE t.first.kind \notin {"ifelse", "return", "block"}
    BY <1>2, <2>1, <2>5 DEF CheckRule, RecCheck
  <2>. QED
    BY <2>2, <2>3, <2>4, <2>5
<1>3. CASE t.kind = "block"
  BY <1>1, <1>3 DEF CheckRule, Children
<1>4. CASE t.kind = "ifelse"
  <2>1. CheckIfElse(c, t, g) = CheckIfElse(d, t, g)
    BY <1>1, <1>4, IfElseLocal DEF Children
  <2>. QED
    BY <1>4, <2>1 DEF CheckRule
<1>5. CASE t.kind \notin {"suite", "block", "ifelse"}
  BY <1>5 DEF CheckRule
<1>. QED
  BY <1>2, <1>3, <1>4, <1>5

(* It yields a verdict.                                                    *)
LEMMA CheckTyped ==
  ASSUME NEW t \in Tree, NEW c, \A s \in Below(t) : c[s] \in Checks,
         NEW g \in AllGlobals, NEW off \in Nat
  PROVE  CheckRule(c, t, g, off) \in Verdicts
<1>1. \A s \in Children(t) : c[s] \in Checks /\ \A r \in Children(s) : c[r] \in Checks
  BY DEF Below
<1>2. \A d \in Checks : \A h \in AllGlobals : \A n \in Nat :
        d[<<h, n>>] \in Verdicts /\ d[<<h, n>>].g \in AllGlobals
  BY GlobalsTyped DEF Checks
<1>3. CASE t.kind = "suite"
  <2>1. c[t.next] \in Checks /\ \A r \in Children(t.first) : c[r] \in Checks
    BY <1>1, <1>3 DEF Children
  <2>2. CASE t.first.kind = "ifelse"
    <3>. DEFINE group == CheckIfElse(c, t.first, g)
    <3>1. c[t.first.then] \in Checks /\ c[t.first.else] \in Checks
      BY <2>1, <2>2 DEF Children
    <3>2. group \in Verdicts /\ group.g \in AllGlobals
      BY <3>1, IfElseTyped, GlobalsTyped
    <3>. HIDE DEF group
    <3>3. c[t.next][<<group.g, off + 1>>] \in Verdicts
      BY <1>2, <2>1, <3>2
    <3>4. CheckRule(c, t, g, off) = IF group.returns THEN group
                                    ELSE c[t.next][<<group.g, off + 1>>]
      BY <1>3, <2>2 DEF CheckRule, RecCheck, group
    <3>. QED
      BY <3>2, <3>3, <3>4
  <2>3. CASE t.first.kind = "return"
    BY <1>3, <2>3, FoundTyped DEF CheckRule, RecCheck
  <2>4. CASE t.first.kind = "block"
    <3>. DEFINE inner == c[t.first.suite][<<g, 0>>]
    <3>1. inner.g \in AllGlobals
      BY <1>2, <2>1, <2>4 DEF Children
    <3>. HIDE DEF inner
    <3>2. CheckRule(c, t, g, off) = IF inner.returns THEN FoundReturn(inner.g, off)
                                    ELSE c[t.next][<<inner.g, off>>]
      BY <1>3, <2>4 DEF CheckRule, RecCheck, inner
    <3>. QED
      BY <1>2, <2>1, <3>1, <3>2, FoundTyped
  <2>5. CASE t.first.kind \notin {"ifelse", "return", "block"}
    <3>1. CheckRule(c, t, g, off) =
            IF RunsOff(t, g) THEN Checked(FALSE, [g EXCEPT !.flow_count = -1])
            ELSE c[t.next][<<g, off>>]
      BY <1>3, <2>5 DEF CheckRule, RecCheck
    <3>2. Checked(FALSE, [g EXCEPT !.flow_count = -1]) \in Verdicts
      <4>1. [g EXCEPT !.flow_count = -1] \in AllGlobals
        BY DEF AllGlobals
      <4>. QED
        BY <4>1, GlobalsTyped
    <3>. QED
      BY <1>2, <2>1, <3>1, <3>2
  <2>. QED
    BY <2>2, <2>3, <2>4, <2>5
<1>4. CASE t.kind = "block"
  BY <1>1, <1>2, <1>4 DEF CheckRule, Children
<1>5. CASE t.kind = "ifelse"
  BY <1>1, <1>5, IfElseTyped DEF CheckRule, Children
<1>6. CASE t.kind \notin {"suite", "block", "ifelse"}
  BY <1>6, GlobalsTyped DEF CheckRule
<1>. QED
  BY <1>3, <1>4, <1>5, <1>6

(* check_control_flow follows its rule.                                    *)
LEMMA CheckIs ==
  ASSUME FiniteTrees
  PROVE  /\ Check \in [Tree -> Checks]
         /\ \A t \in Tree : \A g \in AllGlobals : \A off \in Nat :
               Check[t][<<g, off>>] = CheckRule(Check, t, g, off)
<1>. DEFINE D == AllGlobals \X Nat
            F == [c \in [Tree -> Checks] |->
                    [t \in Tree |-> [a \in D |-> CheckRule(c, t, a[1], a[2])]]]
<1>1. ASSUME NEW c, NEW t \in Tree, \A s \in Below(t) : c[s] \in Checks
      PROVE  [a \in D |-> CheckRule(c, t, a[1], a[2])] \in Checks
  <2>1. \A a \in D : CheckRule(c, t, a[1], a[2]) \in Verdicts
    BY <1>1, CheckTyped
  <2>. QED
    BY <2>1 DEF Checks
<1>2. F \in [[Tree -> Checks] -> [Tree -> Checks]]
  <2>1. \A c \in [Tree -> Checks] : \A t \in Tree :
          [a \in D |-> CheckRule(c, t, a[1], a[2])] \in Checks
    BY <1>1, ChildrenAreTrees
  <2>. HIDE DEF D
  <2>. QED
    BY <2>1
<1>3. ASSUME NEW c \in [Tree -> Checks], NEW d \in [Tree -> Checks], NEW t \in Tree,
             \A s \in Tree : <<s, t>> \in BelowIn => c[s] = d[s]
      PROVE  F[c][t] = F[d][t]
  <2>1. \A s \in Below(t) : c[s] = d[s]
    BY <1>3, ChildrenAreTrees
  <2>2. \A a \in D : CheckRule(c, t, a[1], a[2]) = CheckRule(d, t, a[1], a[2])
    BY <2>1, CheckLocal
  <2>. HIDE DEF D
  <2>. QED
    BY <2>2
<1>4. Checks # {}
  <2>1. Checked(FALSE, Globals(0, 0, FALSE)) \in Verdicts
    BY DEF Checked, Globals, Verdicts, AllGlobals
  <2>2. [a \in D |-> Checked(FALSE, Globals(0, 0, FALSE))] \in Checks
    BY <2>1 DEF Checks
  <2>. QED
    BY <2>2
<1>. HIDE DEF F
<1>5. PICK f \in [Tree -> Checks] : f = F[f]
  <2>1. Determined(F, BelowIn, Tree, Checks)
    BY <1>3 DEF Determined
  <2>2. WellDefined(F, BelowIn, Tree, Checks)
    BY <1>2, <1>4, <2>1 DEF WellDefined, FiniteTrees
  <2>. QED
    BY <2>2, RecursiveFunction
<1>6. Check = CHOOSE c : c = [t \in Tree |-> [a \in D |-> CheckRule(c, t, a[1], a[2])]]
  BY DEF Check
<1>7. f = [t \in Tree |-> [a \in D |-> CheckRule(f, t, a[1], a[2])]]
  <2>. HIDE DEF D
  <2>. QED
    BY <1>5 DEF F
<1>8. Check = [t \in Tree |-> [a \in D |-> CheckRule(Check, t, a[1], a[2])]]
  <2>. HIDE DEF D
  <2>. QED
    BY <1>6, <1>7
<1>9. /\ Check = [t \in Tree |-> Check[t]]
      /\ \A t \in Tree : Check[t] = [a \in D |-> CheckRule(Check, t, a[1], a[2])]
  <2>. HIDE DEF D
  <2>. QED
    BY <1>8
<1>10. \A t \in Tree : \A g \in AllGlobals : \A off \in Nat :
         Check[t][<<g, off>>] = CheckRule(Check, t, g, off)
  <2>. SUFFICES ASSUME NEW t \in Tree, NEW g \in AllGlobals, NEW off \in Nat
                PROVE  Check[t][<<g, off>>] = CheckRule(Check, t, g, off)
    OBVIOUS
  <2>1. <<g, off>> \in D
    OBVIOUS
  <2>. HIDE DEF D
  <2>. QED
    BY <1>9, <2>1
<1>. DEFINE T == {t \in Tree : Check[t] \in Checks}
<1>11. ASSUME NEW t \in Tree, \A s \in Below(t) : s \in T PROVE t \in T
  <2>1. [a \in D |-> CheckRule(Check, t, a[1], a[2])] \in Checks
    BY <1>1, <1>11
  <2>. HIDE DEF D
  <2>. QED
    BY <1>9, <2>1
<1>12. Tree \subseteq T
  <2>. HIDE DEF T
  <2>. QED
    BY <1>11, TreeInduction
<1>. QED
  BY <1>9, <1>10, <1>12

-----------------------------------------------------------------------------
(* What the verdicts say.                                                  *)
AlwaysDone(t) == \A o \in Booleans : Run[t][o].done

(* Every path through a tree ends in a return when every path through the  *)
(* right parts of it does.                                                 *)
LEMMA DoneFromParts ==
  ASSUME FiniteTrees, NEW t \in Tree
  PROVE  /\ t.kind = "return" => AlwaysDone(t)
         /\ t.kind = "suite" /\ AlwaysDone(t.first) => AlwaysDone(t)
         /\ t.kind = "suite" /\ AlwaysDone(t.next) => AlwaysDone(t)
         /\ t.kind = "block" /\ AlwaysDone(t.suite) => AlwaysDone(t)
         /\ t.kind = "ifelse" /\ AlwaysDone(t.then) /\ AlwaysDone(t.else) => AlwaysDone(t)
<1>1. \A o \in Booleans : Run[t][o] = RunRule(Run, t, o)
  BY RunIs
<1>2. \A s \in Children(t) : Run[s] \in Meanings
  BY RunIs, ChildrenAreTrees
<1>3. ASSUME t.kind = "return" PROVE AlwaysDone(t)
  <2>1. \A o \in Booleans : Run[t][o] = Step(t.id, TRUE, o)
    BY <1>1, <1>3 DEF RunRule
  <2>2. \A id, o : Step(id, TRUE, o).done = TRUE
    BY DEF Step
  <2>3. \A o \in Booleans : Run[t][o].done = TRUE
    BY <2>1, <2>2
  <2>. QED
    BY <2>3 DEF AlwaysDone
<1>4. ASSUME t.kind = "suite", AlwaysDone(t.first) PROVE AlwaysDone(t)
  BY <1>1, <1>4 DEF RunRule, AlwaysDone
<1>5. ASSUME t.kind = "suite", AlwaysDone(t.next), NEW o \in Booleans
      PROVE  Run[t][o].done
  <2>. DEFINE r == Run[t.first][o]
              s == Run[t.next][r.oracle]
  <2>1. r \in Outcomes /\ r.oracle \in Booleans
    BY <1>2, <1>5, OutcomeTyped DEF Children
  <2>2. s \in Outcomes /\ s.done
    BY <1>2, <1>5, <2>1, OutcomeTyped DEF Children, AlwaysDone
  <2>3. Run[t][o] = IF r.done THEN r ELSE After(r, s)
    BY <1>1, <1>5 DEF RunRule
  <2>. HIDE DEF r, s
  <2>. QED
    BY <2>1, <2>2, <2>3, AfterFields
<1>6. ASSUME t.kind = "block", AlwaysDone(t.suite) PROVE AlwaysDone(t)
  BY <1>1, <1>6 DEF RunRule, AlwaysDone
<1>7. ASSUME t.kind = "ifelse", AlwaysDone(t.then), AlwaysDone(t.else), NEW o \in Booleans
      PROVE  Run[t][o].done
  <2>1. Rest(o) \in Booleans
    BY RestTyped
  <2>2. Run[t][o] = Run[IF Truth(o) THEN t.then ELSE t.else][Rest(o)]
    BY <1>1, <1>7 DEF RunRule
  <2>. QED
    BY <1>7, <2>1, <2>2 DEF AlwaysDone
<1>. QED
  BY <1>3, <1>4, <1>5, <1>6, <1>7 DEF AlwaysDone

(* Within an if-else flow_count never falls below what it was where the    *)
(* branch began, by what off has counted at most; and what is said to      *)
(* return does.                                                            *)
Sound(t, g, off, c) ==
  /\ c \in Verdicts
  /\ c.g.scope_level = g.scope_level
  /\ g.has_control_flow => c.g.has_control_flow
  /\ c.returns => AlwaysDone(t) /\ c.g.flow_count >= g.flow_count - off
  /\ ~c.returns => c.g.flow_count >= g.flow_count

SoundWithin(t) ==
  \A g \in AllGlobals : \A off \in Nat :
    g.scope_level >= 1 => Sound(t, g, off, Check[t][<<g, off>>])

(* An if-else that is not left open returns in both branches, and has its  *)
(* group counted off; one that is left open has it counted.                *)
LEMMA IfElseSound ==
  ASSUME FiniteTrees, NEW n \in Tree, n.kind = "ifelse",
         SoundWithin(n.then), SoundWithin(n.else),
         NEW g \in AllGlobals, g.scope_level >= 0
  PROVE  LET c == CheckIfElse(Check, n, g) IN
         /\ c \in Verdicts
         /\ c.g.scope_level = g.scope_level
         /\ c.g.has_control_flow
         /\ c.returns => AlwaysDone(n) /\ c.g.flow_count >= g.flow_count
         /\ ~c.returns => c.g.flow_count >= g.flow_count + 1
<1>. DEFINE into == Globals(g.scope_level + 1, g.flow_count + 1, TRUE)
            then == Check[n.then][<<into, 0>>]
            else == Check[n.else][<<then.g, 0>>]
            out == [else.g EXCEPT !.scope_level = @ - 1]
            off == [out EXCEPT !.flow_count = @ - 1]
<1>1. /\ into \in AllGlobals /\ g.scope_level \in Int /\ g.flow_count \in Int
      /\ into.scope_level = g.scope_level + 1 /\ into.flow_count = g.flow_count + 1
      /\ into.has_control_flow
  BY DEF Globals, AllGlobals
<1>2. Sound(n.then, into, 0, then)
  <2>. HIDE DEF into
  <2>1. into.scope_level >= 1
    BY <1>1
  <2>. QED
    BY <1>1, <2>1 DEF SoundWithin
<1>. HIDE DEF into, then
<1>3. /\ then.g \in AllGlobals /\ then.g.scope_level = g.scope_level + 1
      /\ then.g.has_control_flow /\ then.g.flow_count \in Int
      /\ then.g.flow_count >= g.flow_count + 1
      /\ then.returns \in BOOLEAN
      /\ then.returns => AlwaysDone(n.then)
  <2>1. then.g \in AllGlobals /\ then.returns \in BOOLEAN
    BY <1>2 DEF Sound, Verdicts
  <2>2. then.g.flow_count \in Int
    BY <2>1 DEF AllGlobals
  <2>. QED
    BY <1>1, <1>2, <2>1, <2>2 DEF Sound
<1>4. Sound(n.else, then.g, 0, else)
  <2>1. then.g.scope_level >= 1
    BY <1>1, <1>3
  <2>. QED
    BY <1>3, <2>1 DEF SoundWithin
<1>. HIDE DEF else
<1>5. /\ else.g \in AllGlobals /\ else.g.scope_level = g.scope_level + 1
      /\ else.g.has_control_flow /\ else.g.flow_count \in Int
      /\ else.g.flow_count >= g.flow_count + 1
      /\ else.returns \in BOOLEAN
      /\ else.returns => AlwaysDone(n.else)
  <2>1. else.g \in AllGlobals /\ else.returns \in BOOLEAN
    BY <1>4 DEF Sound, Verdicts
  <2>2. else.g.flow_count \in Int
    BY <2>1 DEF AllGlobals
  <2>. QED
    BY <1>1, <1>3, <1>4, <2>1, <2>2 DEF Sound
<1>6. /\ out \in AllGlobals /\ out.scope_level = g.scope_level
      /\ out.has_control_flow /\ out.flow_count = else.g.flow_count
  BY <1>1, <1>5 DEF AllGlobals
<1>7. /\ off \in AllGlobals /\ off.scope_level = g.scope_level
      /\ off.has_control_flow /\ off.flow_count = else.g.flow_count - 1
  <2>. HIDE DEF out
  <2>. QED
    BY <1>5, <1>6 DEF AllGlobals
<1>8. CheckIfElse(Check, n, g) = IF then.returns /\ else.returns THEN Checked(TRUE, off)
                                 ELSE Checked(FALSE, out)
  BY DEF CheckIfElse, then, else, into
<1>. HIDE DEF out, off
<1>9. then.returns /\ else.returns => AlwaysDone(n)
  BY <1>3, <1>5, DoneFromParts
<1>10. CASE then.returns /\ else.returns
  <2>1. CheckIfElse(Check, n, g) = [returns |-> TRUE, g |-> off]
    BY <1>8, <1>10 DEF Checked
  <2>2. [returns |-> TRUE, g |-> off] \in Verdicts
    BY <1>7 DEF Verdicts
  <2>3. off.flow_count >= g.flow_count
    BY <1>1, <1>5, <1>7
  <2>. QED
    BY <1>7, <1>9, <1>10, <2>1, <2>2, <2>3
<1>11. CASE ~(then.returns /\ else.returns)
  <2>1. CheckIfElse(Check, n, g) = [returns |-> FALSE, g |-> out]
    BY <1>8, <1>11 DEF Checked
  <2>2. [returns |-> FALSE, g |-> out] \in Verdicts
    BY <1>6 DEF Verdicts
  <2>. QED
    BY <1>5, <1>6, <2>1, <2>2
<1>. QED
  BY <1>10, <1>11

(* Within a branch the verdicts are sound.                                 *)
LEMMA WithinSound ==
  ASSUME FiniteTrees, NEW x \in Tree
  PROVE  SoundWithin(x)
<1>. DEFINE T == {t \in Tree : SoundWithin(t)}
<1>1. ASSUME NEW t \in Tree, \A s \in Below(t) : s \in T,
             NEW g \in AllGlobals, NEW off \in Nat, g.scope_level >= 1
      PROVE  Sound(t, g, off, Check[t][<<g, off>>])
  <2>1. \A s \in Children(t) : /\ s \in Tree /\ SoundWithin(s)
                               /\ \A r \in Children(s) : r \in Tree /\ SoundWithin(r)
    BY <1>1, ChildrenAreTrees DEF Below
  <2>2. /\ g.scope_level \in Int /\ g.flow_count \in Int /\ g.has_control_flow \in BOOLEAN
        /\ g.scope_level >= 0 /\ g.scope_level # 0
    BY <1>1 DEF AllGlobals
  <2>. DEFINE c == Check[t][<<g, off>>]
  <2>. SUFFICES Sound(t, g, off, c)
    OBVIOUS
  <2>3. c = CheckRule(Check, t, g, off) /\ c \in Verdicts
    <3>1. <<g, off>> \in AllGlobals \X Nat
      OBVIOUS
    <3>. QED
      BY <3>1, CheckIs DEF Checks
  <2>. HIDE DEF c
  <2>4. \A s \in Children(t) : \A h \in AllGlobals : \A n \in Nat :
          h.scope_level = g.scope_level => Sound(s, h, n, Check[s][<<h, n>>])
    BY <1>1, <2>1 DEF SoundWithin
  <2>5. CASE t.kind = "suite"
    <3>1. t.first \in Tree /\ t.next \in Tree
      BY <2>1, <2>5 DEF Children
    <3>2. CASE t.first.kind = "ifelse"
      <4>. DEFINE group == CheckIfElse(Check, t.first, g)
                  rest == Check[t.next][<<group.g, off + 1>>]
      <4>1. SoundWithin(t.first.then) /\ SoundWithin(t.first.else)
        BY <2>1, <2>5, <3>2 DEF Children
      <4>2. /\ group \in Verdicts
            /\ group.g.scope_level = g.scope_level
            /\ group.g.has_control_flow
            /\ group.returns => AlwaysDone(t.first) /\ group.g.flow_count >= g.flow_count
            /\ ~group.returns => group.g.flow_count >= g.flow_count + 1
        BY <2>2, <3>1, <3>2, <4>1, IfElseSound
      <4>. HIDE DEF group
      <4>3. group.g \in AllGlobals /\ group.g.flow_count \in Int /\ off + 1 \in Nat
        BY <4>2 DEF Verdicts, AllGlobals
      <4>4. Sound(t.next, group.g, off + 1, rest)
        BY <2>4, <2>5, <4>2, <4>3 DEF Children
      <4>5. c = IF group.returns THEN group ELSE rest
        BY <2>3, <2>5, <3>2 DEF CheckRule, RecCheck, group
      <4>. HIDE DEF rest
      <4>6. CASE group.returns
        <5>1. AlwaysDone(t)
          BY <2>5, <4>2, <4>6, DoneFromParts
        <5>2. group.g.flow_count >= g.flow_count - off
          BY <2>2, <4>2, <4>3, <4>6
        <5>. QED
          BY <4>2, <4>5, <4>6, <5>1, <5>2 DEF Sound
      <4>7. CASE ~group.returns
        <5>1. rest.g.flow_count \in Int /\ rest.returns \in BOOLEAN
          BY <4>4 DEF Sound, Verdicts, AllGlobals
        <5>2. rest.returns => AlwaysDone(t)
          BY <2>5, <4>4, DoneFromParts DEF Sound
        <5>3. rest.returns => rest.g.flow_count >= g.flow_count - off
          BY <2>2, <4>2, <4>3, <4>4, <4>7, <5>1 DEF Sound
        <5>4. ~rest.returns => rest.g.flow_count >= g.flow_count
          BY <2>2, <4>2, <4>3, <4>4, <4>7, <5>1 DEF Sound
        <5>. QED
          BY <4>2, <4>4, <4>5, <4>7, <5>2, <5>3, <5>4 DEF Sound
      <4>. QED
        BY <4>6, <4>7
    <3>3. CASE t.first.kind = "return"
      <4>1. c = FoundReturn(g, off)
        BY <2>3, <2>5, <3>3 DEF CheckRule, RecCheck
      <4>2. c = [returns |-> TRUE, g |-> [g EXCEPT !.flow_count = @ - off]]
        BY <2>2, <4>1 DEF FoundReturn, Checked
      <4>3. AlwaysDone(t)
        BY <2>5, <3>1, <3>3, DoneFromParts
      <4>. DEFINE h == [g EXCEPT !.flow_count = @ - off]
      <4>4. /\ h.scope_level = g.scope_level /\ h.has_control_flow = g.has_control_flow
            /\ h.flow_count = g.flow_count - off
        BY DEF AllGlobals
      <4>5. h.flow_count >= g.flow_count - off
        BY <2>2, <4>4
      <4>6. c = [returns |-> TRUE, g |-> h]
        BY <4>2
      <4>. HIDE DEF h
      <4>. QED
        BY <2>3, <4>3, <4>4, <4>5, <4>6 DEF Sound
    <3>4. CASE t.first.kind = "block"
      <4>. DEFINE inner == Check[t.first.suite][<<g, 0>>]
                  rest == Check[t.next][<<inner.g, off>>]
      <4>1. SoundWithin(t.first.suite) /\ t.first.suite \in Tree
        BY <2>1, <2>5, <3>4 DEF Children
      <4>2. Sound(t.first.suite, g, 0, inner)
        BY <1>1, <4>1 DEF SoundWithin
      <4>. HIDE DEF inner
      <4>3. /\ inner.g \in AllGlobals /\ inner.g.flow_count \in Int
            /\ inner.g.flow_count >= g.flow_count /\ inner.g.scope_level = g.scope_level
            /\ g.has_control_flow => inner.g.has_control_flow
        <5>1. inner.g \in AllGlobals /\ inner.g.flow_count \in Int /\ inner.returns \in BOOLEAN
          BY <4>2 DEF Sound, Verdicts, AllGlobals
        <5>. QED
          BY <2>2, <4>2, <5>1 DEF Sound
      <4>4. Sound(t.next, inner.g, off, rest)
        BY <2>4, <2>5, <4>3 DEF Children
      <4>5. c = IF inner.returns THEN FoundReturn(inner.g, off) ELSE rest
        BY <2>3, <2>5, <3>4 DEF CheckRule, RecCheck, inner
      <4>. HIDE DEF rest
      <4>6. CASE inner.returns
        <5>. DEFINE h == [inner.g EXCEPT !.flow_count = @ - off]
        <5>1. c = [returns |-> TRUE, g |-> h]
          BY <2>2, <4>3, <4>5, <4>6 DEF FoundReturn, Checked
        <5>2. AlwaysDone(t)
          BY <2>5, <3>1, <3>4, <4>2, <4>6, DoneFromParts DEF Sound
        <5>3. /\ h \in AllGlobals /\ h.scope_level = g.scope_level
              /\ h.has_control_flow = inner.g.has_control_flow
              /\ h.flow_count = inner.g.flow_count - off
          BY <4>3 DEF AllGlobals
        <5>. HIDE DEF h
        <5>4. h.flow_count >= g.flow_count - off
          BY <2>2, <4>3, <5>3
        <5>5. c \in Verdicts
          BY <5>1, <5>3 DEF Verdicts
        <5>. QED
          BY <4>3, <5>1, <5>2, <5>3, <5>4, <5>5 DEF Sound
      <4>7. CASE ~inner.returns
        <5>1. rest.g.flow_count \in Int /\ rest.returns \in BOOLEAN
          BY <4>4 DEF Sound, Verdicts, AllGlobals
        <5>2. rest.returns => AlwaysDone(t)
          BY <2>5, <4>4, DoneFromParts DEF Sound
        <5>3. rest.returns => rest.g.flow_count >= g.flow_count - off
          BY <2>2, <4>3, <4>4, <5>1 DEF Sound
        <5>4. ~rest.returns => rest.g.flow_count >= g.flow_count
          BY <2>2, <4>3, <4>4, <5>1 DEF Sound
        <5>. QED
          BY <4>3, <4>4, <4>5, <4>7, <5>2, <5>3, <5>4 DEF Sound
      <4>. QED
        BY <4>6, <4>7
    <3>5. CASE t.first.kind \notin {"ifelse", "return", "block"}
      <4>1. c = Check[t.next][<<g, off>>]
        BY <2>2, <2>3, <2>5, <3>5 DEF CheckRule, RecCheck, RunsOff
      <4>2. Sound(t.next, g, off, c)
        BY <2>4, <2>5, <4>1 DEF Children
      <4>3. AlwaysDone(t.next) => AlwaysDone(t)
        BY <2>5, DoneFromParts
      <4>. QED
        BY <4>2, <4>3 DEF Sound
    <3>. QED
      BY <3>2, <3>3, <3>4, <3>5
  <2>6. CASE t.kind = "block"
    <3>1. c = Check[t.suite][<<g, 0>>]
      BY <2>3, <2>6 DEF CheckRule
    <3>2. Sound(t.suite, g, 0, c)
      BY <2>4, <2>6, <3>1 DEF Children
    <3>3. AlwaysDone(t.suite) => AlwaysDone(t)
      BY <2>6, DoneFromParts
    <3>4. c.g.flow_count \in Int
      BY <3>2 DEF Sound, Verdicts, AllGlobals
    <3>5. c.returns => c.g.flow_count >= g.flow_count - off
      BY <2>2, <3>2, <3>4 DEF Sound
    <3>. QED
      BY <3>2, <3>3, <3>5 DEF Sound
  <2>7. CASE t.kind = "ifelse"
    <3>1. SoundWithin(t.then) /\ SoundWithin(t.else)
      BY <2>1, <2>7 DEF Children
    <3>2. c = CheckIfElse(Check, t, g)
      BY <2>3, <2>7 DEF CheckRule
    <3>3. /\ c \in Verdicts
          /\ c.g.scope_level = g.scope_level
          /\ c.g.has_control_flow
          /\ c.returns => AlwaysDone(t) /\ c.g.flow_count >= g.flow_count
          /\ ~c.returns => c.g.flow_count >= g.flow_count + 1
      BY <2>2, <2>7, <3>1, <3>2, IfElseSound
    <3>4. c.g.flow_count \in Int
      BY <3>3 DEF Verdicts, AllGlobals
    <3>5. /\ c.returns => c.g.flow_count >= g.flow_count - off
          /\ ~c.returns => c.g.flow_count >= g.flow_count
      BY <2>2, <3>3, <3>4
    <3>. QED
      BY <3>3, <3>5 DEF Sound
  <2>8. CASE t.kind = "return"
    <3>1. c = [returns |-> TRUE, g |-> g]
      BY <2>3, <2>8 DEF CheckRule, Checked
    <3>2. AlwaysDone(t)
      BY <2>8, DoneFromParts
    <3>3. g.flow_count >= g.flow_count - off
      BY <2>2
    <3>. QED
      BY <2>3, <3>1, <3>2, <3>3 DEF Sound
  <2>9. CASE t.kind \notin {"suite", "block", "ifelse", "return"}
    <3>1. c = [returns |-> FALSE, g |-> g]
      BY <2>3, <2>9 DEF CheckRule, Checked
    <3>2. g.flow_count >= g.flow_count
      BY <2>2
    <3>. QED
      BY <2>3, <3>1, <3>2 DEF Sound
  <2>. QED
    BY <2>5, <2>6, <2>7, <2>8, <2>9
<1>2. ASSUME NEW t \in Tree, \A s \in Below(t) : s \in T PROVE t \in T
  BY <1>1, <1>2 DEF SoundWithin
<1>3. Tree \subseteq T
  <2>. HIDE DEF T
  <2>. QED
    BY <1>2, TreeInduction
<1>. QED
  BY <1>3

-----------------------------------------------------------------------------
(* The body itself.  A block that is a statement of its own is compiled    *)
(* and checked otherwise than the source says (see the README), and an     *)
(* empty body is accepted.                                                 *)
NoBlockStatements == \A t \in Tree : t.kind = "suite" => t.first.kind # "block"
NoEmptyBodies == \A b \in Bodies : b.kind = "suite"

(* At the level of the body: from a place in its list where no group is    *)
(* open or flow_count tells so, a verdict that does not say it returns     *)
(* leaves flow_count other than 0.                                         *)
SoundBody(t) ==
  \A g \in AllGlobals : \A off \in Nat :
    /\ g.scope_level = 0 /\ g.flow_count >= 0
    /\ g.has_control_flow => g.flow_count >= 1
    /\ t.kind = "suite" \/ (t.kind = "none" /\ g.has_control_flow)
    => LET c == Check[t][<<g, off>>] IN
       /\ c.returns => AlwaysDone(t)
       /\ ~c.returns => c.g.flow_count # 0

(* The verdicts on lists are sound at the level of the body.               *)
LEMMA BodySound ==
  ASSUME FiniteTrees, NoBlockStatements, NEW x \in Tree
  PROVE  SoundBody(x)
<1>. DEFINE T == {t \in Tree : SoundBody(t)}
<1>1. ASSUME NEW t \in Tree, \A s \in Below(t) : s \in T,
             NEW g \in AllGlobals, NEW off \in Nat,
             g.scope_level = 0, g.flow_count >= 0,
             g.has_control_flow => g.flow_count >= 1,
             t.kind = "suite" \/ (t.kind = "none" /\ g.has_control_flow)
      PROVE  LET c == Check[t][<<g, off>>] IN
             /\ c.returns => AlwaysDone(t)
             /\ ~c.returns => c.g.flow_count # 0
  <2>. DEFINE c == Check[t][<<g, off>>]
  <2>. SUFFICES /\ c.returns => AlwaysDone(t)
                /\ ~c.returns => c.g.flow_count # 0
    OBVIOUS
  <2>1. c = CheckRule(Check, t, g, off)
    BY CheckIs
  <2>. HIDE DEF c
  <2>2. g.flow_count \in Int /\ g.has_control_flow \in BOOLEAN
    BY DEF AllGlobals
  <2>3. CASE t.kind = "none"
    <3>1. c = [returns |-> FALSE, g |-> g] /\ g.has_control_flow
      BY <1>1, <2>1, <2>3 DEF CheckRule, Checked
    <3>2. g.flow_count # 0
      BY <1>1, <2>2, <3>1
    <3>. QED
      BY <3>1, <3>2
  <2>4. CASE t.kind = "suite"
    <3>1. /\ t.first \in Tree /\ t.next \in Tree /\ t.next.kind \in {"none", "suite"}
          /\ SoundBody(t.next) /\ t.first.kind # "block"
      BY <1>1, <2>4, ChildrenAreTrees, BranchBelow, TreeAssumption
      DEF NoBlockStatements, IsSuite, IsStatement
    <3>2. CASE t.first.kind = "ifelse"
      <4>. DEFINE group == CheckIfElse(Check, t.first, g)
                  rest == Check[t.next][<<group.g, off + 1>>]
      <4>1. SoundWithin(t.first.then) /\ SoundWithin(t.first.else)
        BY <3>1, <3>2, WithinSound, ChildrenAreTrees DEF Children
      <4>2. /\ group \in Verdicts
            /\ group.g.scope_level = g.scope_level
            /\ group.g.has_control_flow
            /\ group.returns => AlwaysDone(t.first)
            /\ ~group.returns => group.g.flow_count >= g.flow_count + 1
        <5>1. g.scope_level >= 0
          BY <1>1
        <5>. QED
          BY <3>1, <3>2, <4>1, <5>1, IfElseSound
      <4>3. c = IF group.returns THEN group ELSE rest
        BY <2>1, <2>4, <3>2 DEF CheckRule, RecCheck
      <4>. HIDE DEF group
      <4>4. CASE group.returns
        BY <2>4, <4>2, <4>3, <4>4, DoneFromParts
      <4>5. CASE ~group.returns
        <5>1. group.g \in AllGlobals /\ group.g.flow_count \in Int /\ off + 1 \in Nat
          BY <4>2 DEF Verdicts, AllGlobals
        <5>2. group.g.flow_count >= 1 /\ group.g.flow_count >= 0
          BY <1>1, <2>2, <4>2, <4>5, <5>1
        <5>3. /\ rest.returns => AlwaysDone(t.next)
              /\ ~rest.returns => rest.g.flow_count # 0
          BY <1>1, <3>1, <4>2, <5>1, <5>2 DEF SoundBody
        <5>. QED
          BY <2>4, <4>3, <4>5, <5>3, DoneFromParts
      <4>. QED
        BY <4>4, <4>5
    <3>3. CASE t.first.kind = "return"
      <4>1. c = FoundReturn(g, off)
        BY <2>1, <2>4, <3>3 DEF CheckRule, RecCheck
      <4>2. c.returns = TRUE
        BY <4>1 DEF FoundReturn, Checked
      <4>. QED
        BY <2>4, <3>1, <3>3, <4>2, DoneFromParts
    <3>4. CASE t.first.kind \notin {"ifelse", "return", "block"}
      <4>1. c = IF RunsOff(t, g) THEN Checked(FALSE, [g EXCEPT !.flow_count = -1])
                ELSE Check[t.next][<<g, off>>]
        BY <2>1, <2>4, <3>4 DEF CheckRule, RecCheck
      <4>2. CASE RunsOff(t, g)
        <5>1. c.returns = FALSE /\ c.g.flow_count = -1
          BY <4>1, <4>2 DEF Checked, AllGlobals
        <5>. QED
          BY <5>1
      <4>3. CASE ~RunsOff(t, g)
        <5>1. t.next.kind = "suite" \/ (t.next.kind = "none" /\ g.has_control_flow)
          BY <1>1, <3>1, <4>3 DEF RunsOff
        <5>2. /\ c.returns => AlwaysDone(t.next)
              /\ ~c.returns => c.g.flow_count # 0
          BY <1>1, <3>1, <4>1, <4>3, <5>1 DEF SoundBody
        <5>. QED
          BY <2>4, <5>2, DoneFromParts
      <4>. QED
        BY <4>2, <4>3
    <3>. QED
      BY <3>1, <3>2, <3>3, <3>4
  <2>. QED
    BY <1>1, <2>3, <2>4
<1>2. ASSUME NEW t \in Tree, \A s \in Below(t) : s \in T PROVE t \in T
  BY <1>1, <1>2 DEF SoundBody
<1>3. Tree \subseteq T
  <2>. HIDE DEF T
  <2>. QED
    BY <1>2, TreeInduction
<1>. QED
  BY <1>3

(* check_control_flow accepts a body only if every path through it ends in *)
(* a return.                                                               *)
THEOREM AcceptedAlwaysReturns ==
  ASSUME FiniteTrees, NoBlockStatements, NEW b \in Tree, b.kind = "suite", Accepted(b)
  PROVE  \A o \in Seq(BOOLEAN) : Run[b][o].done
<1>. DEFINE g == Globals(0, 0, FALSE)
            c == Check[b][<<g, 0>>]
<1>1. /\ g \in AllGlobals /\ g.scope_level = 0 /\ g.flow_count = 0
      /\ g.has_control_flow = FALSE
  BY DEF Globals, AllGlobals
<1>2. c.g.flow_count = 0
  BY DEF Accepted
<1>. HIDE DEF g
<1>3. SoundBody(b)
  BY BodySound
<1>4. g.flow_count >= 0
  BY <1>1
<1>5. /\ c.returns => AlwaysDone(b)
      /\ ~c.returns => c.g.flow_count # 0
  BY <1>1, <1>3, <1>4 DEF SoundBody
<1>6. AlwaysDone(b)
  BY <1>2, <1>5
<1>. QED
  BY <1>6 DEF AlwaysDone, Booleans

-----------------------------------------------------------------------------
(* The labels of a piece of code, and those its jumps name.                *)
Places(c) == {i \in DOMAIN c : c[i][1] = "label"}
LabelsOf(c) == {c[i][2] : i \in Places(c)}
Jumps(c) == {i \in DOMAIN c : c[i][1] \in {"test", "jmp"}}
Targets(c) == {c[i][2] : i \in Jumps(c)}
Own(c) == \A i, j \in Places(c) : c[i][2] = c[j][2] => i = j

(* The instructions are told apart by their names.                         *)
LEMMA OpsDiffer ==
  /\ \A x : /\ Do(x)[1] = "do" /\ Do(x)[2] = x
            /\ Ret(x)[1] = "ret" /\ Ret(x)[2] = x
            /\ Test(x)[1] = "test" /\ Test(x)[2] = x
            /\ Jmp(x)[1] = "jmp" /\ Jmp(x)[2] = x
            /\ Label(x)[1] = "label" /\ Label(x)[2] = x
  /\ End[1] = "end" /\ Abort[1] = "abort"
  BY DEF Do, Ret, Test, Jmp, Label, End, Abort

(* What an instruction is by its name.                                     *)
LEMMA OpKinds ==
  ASSUME NEW x \in Ops
  PROVE  /\ x[1] \in {"do", "ret", "test", "jmp", "label", "end", "abort"}
         /\ x[1] = "label" => x[2] \in Names /\ x = Label(x[2])
         /\ x[1] \in {"test", "jmp"} => x[2] \in Names
         /\ x[1] \in {"do", "ret"} => x[2] \in Ids
<1>1. \/ \E id \in Ids : x = Do(id) \/ x = Ret(id)
      \/ \E label \in Names : x = Test(label) \/ x = Jmp(label) \/ x = Label(label)
      \/ x = End \/ x = Abort
  BY DEF Ops
<1>. QED
  BY <1>1, OpsDiffer

(* Where the instructions of two pieces of code are, one after the other.  *)
LEMMA ConcatPlaces ==
  ASSUME NEW a \in Seq(Ops), NEW b \in Seq(Ops)
  PROVE  /\ a \o b \in Seq(Ops) /\ Len(a) \in Nat /\ Len(b) \in Nat
         /\ Len(a \o b) = Len(a) + Len(b)
         /\ \A i \in DOMAIN a : i \in DOMAIN (a \o b) /\ (a \o b)[i] = a[i]
         /\ \A i \in DOMAIN b : Len(a) + i \in DOMAIN (a \o b) /\ (a \o b)[Len(a) + i] = b[i]
         /\ \A i \in DOMAIN (a \o b) :
               \/ i \in DOMAIN a /\ (a \o b)[i] = a[i]
               \/ i - Len(a) \in DOMAIN b /\ (a \o b)[i] = b[i - Len(a)]
  OBVIOUS

(* The labels of two pieces of code, one after the other.                  *)
LEMMA ConcatLabels ==
  ASSUME NEW a \in Seq(Ops), NEW b \in Seq(Ops)
  PROVE  /\ LabelsOf(a \o b) = LabelsOf(a) \cup LabelsOf(b)
         /\ Targets(a \o b) = Targets(a) \cup Targets(b)
         /\ Own(a) /\ Own(b) /\ LabelsOf(a) \cap LabelsOf(b) = {} => Own(a \o b)
<1>. DEFINE c == a \o b
            n == Len(a)
<1>1. /\ n \in Nat
      /\ DOMAIN a \subseteq Int /\ DOMAIN b \subseteq Int /\ DOMAIN c \subseteq Int
      /\ \A i \in DOMAIN a : i \in DOMAIN c /\ c[i] = a[i]
      /\ \A i \in DOMAIN b : n + i \in DOMAIN c /\ c[n + i] = b[i]
      /\ \A i \in DOMAIN c : \/ i \in DOMAIN a /\ c[i] = a[i]
                             \/ i - n \in DOMAIN b /\ c[i] = b[i - n]
  BY ConcatPlaces
<1>. HIDE DEF c, n
<1>2. LabelsOf(c) = LabelsOf(a) \cup LabelsOf(b)
  <2>1. LabelsOf(c) \subseteq LabelsOf(a) \cup LabelsOf(b)
    BY <1>1 DEF LabelsOf, Places
  <2>2. LabelsOf(a) \subseteq LabelsOf(c) /\ LabelsOf(b) \subseteq LabelsOf(c)
    BY <1>1 DEF LabelsOf, Places
  <2>. QED
    BY <2>1, <2>2
<1>3. Targets(c) = Targets(a) \cup Targets(b)
  <2>1. Targets(c) \subseteq Targets(a) \cup Targets(b)
    BY <1>1 DEF Targets, Jumps
  <2>2. Targets(a) \subseteq Targets(c) /\ Targets(b) \subseteq Targets(c)
    BY <1>1 DEF Targets, Jumps
  <2>. QED
    BY <2>1, <2>2
<1>4. ASSUME Own(a), Own(b), LabelsOf(a) \cap LabelsOf(b) = {},
             NEW i \in Places(c), NEW j \in Places(c), c[i][2] = c[j][2]
      PROVE  i = j
  <2>1. /\ i \in Int /\ j \in Int
        /\ (i \in Places(a) /\ c[i] = a[i]) \/ (i - n \in Places(b) /\ c[i] = b[i - n])
        /\ (j \in Places(a) /\ c[j] = a[j]) \/ (j - n \in Places(b) /\ c[j] = b[j - n])
    BY <1>1 DEF Places
  <2>2. \A x \in Places(a), y \in Places(b) : a[x][2] # b[y][2]
    BY <1>4 DEF LabelsOf
  <2>3. CASE i \in Places(a) /\ c[i] = a[i] /\ j \in Places(a) /\ c[j] = a[j]
    BY <1>4, <2>3 DEF Own
  <2>4. CASE i - n \in Places(b) /\ c[i] = b[i - n] /\ j - n \in Places(b) /\ c[j] = b[j - n]
    <3>1. i - n = j - n
      BY <1>4, <2>4 DEF Own
    <3>. QED
      BY <1>1, <2>1, <3>1
  <2>. QED
    BY <1>4, <2>1, <2>2, <2>3, <2>4
<1>. QED
  BY <1>2, <1>3, <1>4 DEF Own, c

(* The labels of one instruction.                                          *)
LEMMA OneLabel ==
  ASSUME NEW x \in Ops
  PROVE  /\ LabelsOf(<<x>>) = IF x[1] = "label" THEN {x[2]} ELSE {}
         /\ Targets(<<x>>) = IF x[1] \in {"test", "jmp"} THEN {x[2]} ELSE {}
         /\ Own(<<x>>)
<1>1. DOMAIN <<x>> = {1} /\ <<x>>[1] = x
  OBVIOUS
<1>2. Places(<<x>>) = (IF x[1] = "label" THEN {1} ELSE {})
  BY <1>1 DEF Places
<1>3. Jumps(<<x>>) = (IF x[1] \in {"test", "jmp"} THEN {1} ELSE {})
  BY <1>1 DEF Jumps
<1>. QED
  BY <1>1, <1>2, <1>3 DEF LabelsOf, Targets, Own

(* A piece of code with its labels and those its jumps name.               *)
Labelled(c, labels, targets) ==
  /\ c \in Seq(Ops) /\ LabelsOf(c) = labels /\ Targets(c) = targets
  /\ Own(c)

(* No instruction, no label.                                               *)
LEMMA NoneLabelled == Labelled(<<>>, {}, {})
  BY DEF Labelled, LabelsOf, Targets, Own, Places, Jumps

(* An instruction that is neither a jump nor a label.                      *)
LEMMA PlainLabelled ==
  ASSUME NEW x \in Ops, x[1] \notin {"label", "test", "jmp"}
  PROVE  Labelled(<<x>>, {}, {})
<1>1. <<x>> \in Seq(Ops)
  OBVIOUS
<1>. QED
  BY <1>1, OneLabel DEF Labelled

(* A jump, and a label.                                                    *)
LEMMA JumpLabelled ==
  ASSUME NEW name \in Names
  PROVE  /\ Labelled(<<Test(name)>>, {}, {name})
         /\ Labelled(<<Jmp(name)>>, {}, {name})
         /\ Labelled(<<Label(name)>>, {name}, {})
<1>1. Test(name) \in Ops /\ Jmp(name) \in Ops /\ Label(name) \in Ops
  BY DEF Ops
<1>2. /\ <<Test(name)>> \in Seq(Ops) /\ <<Jmp(name)>> \in Seq(Ops)
      /\ <<Label(name)>> \in Seq(Ops)
  BY <1>1
<1>3. /\ Test(name)[1] = "test" /\ Test(name)[2] = name
      /\ Jmp(name)[1] = "jmp" /\ Jmp(name)[2] = name
      /\ Label(name)[1] = "label" /\ Label(name)[2] = name
  BY OpsDiffer
<1>4. Labelled(<<Test(name)>>, {}, {name})
  BY <1>1, <1>2, <1>3, OneLabel DEF Labelled
<1>5. Labelled(<<Jmp(name)>>, {}, {name})
  BY <1>1, <1>2, <1>3, OneLabel DEF Labelled
<1>6. Labelled(<<Label(name)>>, {name}, {})
  BY <1>1, <1>2, <1>3, OneLabel DEF Labelled
<1>. QED
  BY <1>4, <1>5, <1>6

(* Two pieces that share no label, one after the other.                    *)
LEMMA BothLabelled ==
  ASSUME NEW a, NEW A, NEW S, Labelled(a, A, S), NEW b, NEW B, NEW T, Labelled(b, B, T),
         A \cap B = {}
  PROVE  Labelled(a \o b, A \cup B, S \cup T)
<1>1. a \in Seq(Ops) /\ b \in Seq(Ops)
  BY DEF Labelled
<1>2. a \o b \in Seq(Ops)
  BY <1>1, ConcatPlaces
<1>. QED
  BY <1>1, <1>2, ConcatLabels DEF Labelled

(* The labels of a piece of code have the numbers it takes from labelc,    *)
(* one place each, and its jumps stay within it.                           *)
OwnLabels(p, l) ==
  /\ l <= p.labelc
  /\ \A label \in LabelsOf(p.code) : l <= label[2] /\ label[2] < p.labelc
  /\ Targets(p.code) \subseteq LabelsOf(p.code)
  /\ Own(p.code)

(* The names of the labels of a piece of code.                             *)
LEMMA LabelsAreNames ==
  ASSUME NEW c \in Seq(Ops)
  PROVE  LabelsOf(c) \subseteq Names
<1>1. \A i \in Places(c) : c[i] \in Ops /\ c[i][1] = "label"
  BY DEF Places
<1>. QED
  BY <1>1, OpKinds DEF LabelsOf

(* What a piece of code that owns its labels gives to one around it.       *)
LEMMA OwnedParts ==
  ASSUME NEW p \in Pieces, NEW l \in Nat, OwnLabels(p, l)
  PROVE  /\ Labelled(p.code, LabelsOf(p.code), Targets(p.code))
         /\ LabelsOf(p.code) \subseteq Names
         /\ \A label \in LabelsOf(p.code) :
               label[2] \in Nat /\ l <= label[2] /\ label[2] < p.labelc
         /\ Targets(p.code) \subseteq LabelsOf(p.code)
         /\ l <= p.labelc /\ p.labelc \in Nat
<1>1. p.code \in Seq(Ops) /\ p.labelc \in Nat
  BY DEF Pieces
<1>2. LabelsOf(p.code) \subseteq Names
  BY <1>1, LabelsAreNames
<1>3. \A label \in Names : label[2] \in Nat
  BY DEF Names
<1>. QED
  BY <1>1, <1>2, <1>3 DEF OwnLabels, Labelled

(* A piece of code owns its labels if its labels are those it takes.       *)
LEMMA OwnsWhole ==
  ASSUME NEW p \in Pieces, NEW l \in Nat, NEW A, NEW S, Labelled(p.code, A, S),
         l <= p.labelc, S \subseteq A, \A label \in A : l <= label[2] /\ label[2] < p.labelc
  PROVE  OwnLabels(p, l)
  BY DEF OwnLabels, Labelled

(* What a piece of code consists of.                                       *)
LEMMA PieceIs ==
  ASSUME NEW c, NEW m, NEW r, NEW p, p = Piece(c, m, r)
  PROVE  p.code = c /\ p.labelc = m /\ p.returns = r
  BY DEF Piece

(* A pair, as a sequence.                                                  *)
LEMMA PairIs ==
  ASSUME NEW x \in Ops, NEW y \in Ops
  PROVE  <<x, y>> = <<x>> \o <<y>>
<1>1. <<x>> \in Seq(Ops) /\ <<y>> \in Seq(Ops) /\ <<x, y>> \in Seq(Ops)
  OBVIOUS
<1>2. /\ <<x>> \o <<y>> \in Seq(Ops) /\ Len(<<x>> \o <<y>>) = 2
      /\ (<<x>> \o <<y>>)[1] = x /\ (<<x>> \o <<y>>)[2] = y
  BY <1>1
<1>3. Len(<<x, y>>) = 2 /\ <<x, y>>[1] = x /\ <<x, y>>[2] = y
  OBVIOUS
<1>4. \A i \in 1 .. Len(<<x, y>>) : <<x, y>>[i] = (<<x>> \o <<y>>)[i]
  BY <1>2, <1>3
<1>. QED
  BY <1>1, <1>2, <1>3, <1>4, SeqEqual

(* Two instructions are one after the other.                               *)
LEMMA TwoOps ==
  ASSUME NEW a \in Seq(Ops), NEW x \in Ops, NEW y \in Ops
  PROVE  a \o <<x, y>> = a \o <<x>> \o <<y>>
<1>1. <<x>> \in Seq(Ops) /\ <<y>> \in Seq(Ops)
  OBVIOUS
<1>3. <<x, y>> = <<x>> \o <<y>>
  BY PairIs
<1>2. a \o (<<x>> \o <<y>>) = a \o <<x>> \o <<y>>
  BY <1>1, ConcatAssociative
<1>. QED
  BY <1>2, <1>3

(* The piece of code of a statement that is one instruction, and of no     *)
(* statement, and what it consists of.                                     *)
LEMMA LeafCode ==
  ASSUME FiniteTrees, NEW t \in Tree, NEW l \in Nat
  PROVE  /\ t.kind = "none" => Instr[t][l] = Piece(<<>>, l, FALSE)
         /\ t.kind = "simple" => Instr[t][l] = Piece(<<Do(t.id)>>, l, FALSE)
         /\ t.kind = "return" => Instr[t][l] = Piece(<<Ret(t.id)>>, l, TRUE)
<1>1. Instr[t][l] = InstrRule(Instr, t, l)
  BY InstrIs
<1>. QED
  BY <1>1 DEF InstrRule

LEMMA LeafFields ==
  ASSUME FiniteTrees, NEW t \in Tree, NEW l \in Nat
  PROVE  /\ t.kind \in {"none", "simple", "return"} => Instr[t][l].labelc = l
         /\ t.kind = "none" => Instr[t][l].code = <<>>
         /\ t.kind = "simple" => Instr[t][l].code = <<Do(t.id)>>
         /\ t.kind = "return" => Instr[t][l].code = <<Ret(t.id)>>
         /\ t.kind \in {"none", "simple"} => Instr[t][l].returns = FALSE
         /\ t.kind = "return" => Instr[t][l].returns = TRUE
<1>. DEFINE p == Instr[t][l]
<1>1. /\ t.kind = "none" => p = Piece(<<>>, l, FALSE)
      /\ t.kind = "simple" => p = Piece(<<Do(t.id)>>, l, FALSE)
      /\ t.kind = "return" => p = Piece(<<Ret(t.id)>>, l, TRUE)
  BY LeafCode
<1>. HIDE DEF p
<1>2. /\ t.kind \in {"none", "simple", "return"} => p.labelc = l
      /\ t.kind = "none" => p.code = <<>>
      /\ t.kind = "simple" => p.code = <<Do(t.id)>>
      /\ t.kind = "return" => p.code = <<Ret(t.id)>>
      /\ t.kind \in {"none", "simple"} => p.returns = FALSE
      /\ t.kind = "return" => p.returns = TRUE
  BY <1>1 DEF Piece
<1>. QED
  BY <1>2 DEF p

(* The code of a list.                                                     *)
LEMMA SuiteCode ==
  ASSUME FiniteTrees, NEW t \in Tree, t.kind = "suite", NEW l \in Nat
  PROVE  LET first == Instr[t.first][l]
             rest == Instr[t.next][first.labelc]
         IN  /\ first \in Pieces /\ rest \in Pieces
             /\ Instr[t][l].code = first.code \o rest.code /\ Instr[t][l].labelc = rest.labelc
             /\ Instr[t][l].returns =
                  (IF t.next.kind = "none" THEN first.returns ELSE rest.returns)
<1>. DEFINE first == Instr[t.first][l]
            rest == Instr[t.next][first.labelc]
<1>1. t.first \in Tree /\ t.next \in Tree
  BY BranchBelow, ChildrenAreTrees
<1>2. first \in Pieces
  BY <1>1, InstrIs
<1>3. first.labelc \in Nat
  BY <1>2 DEF Pieces
<1>4. rest \in Pieces
  BY <1>1, <1>3, InstrIs
<1>5. Instr[t][l] = InstrRule(Instr, t, l)
  BY InstrIs
<1>6. Instr[t][l] = SuiteInstr(Instr, t, l)
  BY <1>5 DEF InstrRule
<1>7. Instr[t][l] = Piece(first.code \o rest.code, rest.labelc,
                          IF t.next.kind = "none" THEN first.returns ELSE rest.returns)
  BY <1>6 DEF SuiteInstr
<1>. HIDE DEF first, rest
<1>8. /\ Instr[t][l].code = first.code \o rest.code /\ Instr[t][l].labelc = rest.labelc
      /\ Instr[t][l].returns = (IF t.next.kind = "none" THEN first.returns ELSE rest.returns)
  <2>. DEFINE r == IF t.next.kind = "none" THEN first.returns ELSE rest.returns
  <2>1. Instr[t][l] = Piece(first.code \o rest.code, rest.labelc, r)
    BY <1>7
  <2>. DEFINE p == Instr[t][l]
              c == first.code \o rest.code
              m == rest.labelc
  <2>2. p = Piece(c, m, r)
    BY <2>1
  <2>. HIDE DEF p, c, m, r
  <2>3. p.code = c /\ p.labelc = m /\ p.returns = r
    BY <2>2, PieceIs
  <2>. QED
    BY <2>3 DEF p, c, m, r
<1>. QED
  BY <1>2, <1>4, <1>8 DEF first, rest

(* The code of a block where a statement stands.                           *)
LEMMA BlockCode ==
  ASSUME FiniteTrees, NEW t \in Tree, t.kind = "block", NEW l \in Nat
  PROVE  \/ /\ t.suite.kind = "none" /\ Instr[t][l] = Piece(<<Abort>>, l, FALSE)
            /\ Instr[t][l].returns = FALSE
         \/ /\ t.suite.kind # "none" /\ t.suite.first \in Below(t)
            /\ Instr[t.suite.first][l] \in Pieces
            /\ Instr[t][l].code = Instr[t.suite.first][l].code
            /\ Instr[t][l].labelc = Instr[t.suite.first][l].labelc
            /\ Instr[t][l].returns = FALSE
<1>1. Instr[t][l] = InstrRule(Instr, t, l)
  BY InstrIs
<1>2. Instr[t][l] = BlockInstr(Instr, t, l)
  BY <1>1 DEF InstrRule
<1>3. CASE t.suite.kind = "none"
  <2>. DEFINE p == Instr[t][l]
  <2>1. p = Piece(<<Abort>>, l, FALSE)
    BY <1>2, <1>3 DEF BlockInstr
  <2>. HIDE DEF p
  <2>2. p.returns = FALSE
    BY <2>1 DEF Piece
  <2>. QED
    BY <1>3, <2>1, <2>2 DEF p
<1>4. CASE t.suite.kind # "none"
  <2>. DEFINE p == Instr[t.suite.first][l]
  <2>1. t.suite.first \in Below(t) /\ t.suite.first \in Tree
    BY <1>4, BranchBelow, ChildrenAreTrees
  <2>2. p \in Pieces
    BY <2>1, InstrIs
  <2>3. Instr[t][l] = [p EXCEPT !.returns = FALSE]
    BY <1>2, <1>4 DEF BlockInstr
  <2>. HIDE DEF p
  <2>4. /\ [p EXCEPT !.returns = FALSE].code = p.code
        /\ [p EXCEPT !.returns = FALSE].labelc = p.labelc
        /\ [p EXCEPT !.returns = FALSE].returns = FALSE
    BY <2>2 DEF Pieces
  <2>. QED
    BY <1>4, <2>1, <2>2, <2>3, <2>4 DEF p
<1>. QED
  BY <1>3, <1>4

(* The code of an if.                                                      *)
LEMMA IfCode ==
  ASSUME FiniteTrees, NEW t \in Tree, t.kind = "if", NEW l \in Nat
  PROVE  LET then == Instr[Branch(t.then)][l + 1]
             F == <<"ENDIF", l>>
         IN  /\ then \in Pieces /\ F \in Names
             /\ Instr[t][l].code = <<Test(F)>> \o then.code \o <<Label(F)>>
             /\ Instr[t][l].labelc = then.labelc /\ Instr[t][l].returns = FALSE
<1>. DEFINE then == Instr[Branch(t.then)][l + 1]
            F == <<"ENDIF", l>>
<1>1. Branch(t.then) \in Tree /\ l + 1 \in Nat
  BY BranchBelow, ChildrenAreTrees
<1>2. then \in Pieces
  BY <1>1, InstrIs
<1>3. Instr[t][l] = InstrRule(Instr, t, l)
  BY InstrIs
<1>4. Instr[t][l] = IfInstr(Instr, t, l)
  BY <1>3 DEF InstrRule
<1>5. Instr[t][l] = Piece(<<Test(F)>> \o then.code \o <<Label(F)>>, then.labelc, FALSE)
  BY <1>4 DEF IfInstr
<1>6. F \in Names
  BY DEF Names
<1>. HIDE DEF then, F
<1>7. /\ Instr[t][l].code = <<Test(F)>> \o then.code \o <<Label(F)>>
      /\ Instr[t][l].labelc = then.labelc /\ Instr[t][l].returns = FALSE
  BY <1>5 DEF Piece
<1>. QED
  BY <1>2, <1>6, <1>7 DEF then, F

(* The code of an if with an else branch.                                  *)
LEMMA IfElseCode ==
  ASSUME FiniteTrees, NEW t \in Tree, t.kind = "ifelse", NEW l \in Nat
  PROVE  LET then == Instr[Branch(t.then)][l + 1]
             else == Instr[Branch(t.else)][then.labelc]
             E == <<"ELSE", l>>
             F == <<"ENDIF", l>>
         IN  /\ then \in Pieces /\ else \in Pieces /\ E \in Names /\ F \in Names
             /\ Instr[t][l].code = <<Test(E)>> \o then.code \o <<Jmp(F)>> \o <<Label(E)>>
                                     \o else.code \o <<Label(F)>>
             /\ Instr[t][l].labelc = else.labelc /\ Instr[t][l].returns = FALSE
<1>. DEFINE then == Instr[Branch(t.then)][l + 1]
            else == Instr[Branch(t.else)][then.labelc]
            E == <<"ELSE", l>>
            F == <<"ENDIF", l>>
<1>1. Branch(t.then) \in Tree /\ Branch(t.else) \in Tree /\ l + 1 \in Nat
  BY BranchBelow, ChildrenAreTrees
<1>2. then \in Pieces
  BY <1>1, InstrIs
<1>3. then.labelc \in Nat /\ then.code \in Seq(Ops)
  BY <1>2 DEF Pieces
<1>4. else \in Pieces
  BY <1>1, <1>3, InstrIs
<1>5. Instr[t][l] = InstrRule(Instr, t, l)
  BY InstrIs
<1>6. Instr[t][l] = IfElseInstr(Instr, t, l)
  BY <1>5 DEF InstrRule
<1>7. Instr[t][l] = Piece(<<Test(E)>> \o then.code \o <<Jmp(F), Label(E)>>
                            \o else.code \o <<Label(F)>>, else.labelc, FALSE)
  BY <1>6 DEF IfElseInstr
<1>8. E \in Names /\ F \in Names
  BY DEF Names
<1>9. Test(E) \in Ops /\ Jmp(F) \in Ops /\ Label(E) \in Ops
  BY <1>8 DEF Ops
<1>10. <<Test(E)>> \o then.code \in Seq(Ops)
  BY <1>3, <1>9
<1>11. <<Test(E)>> \o then.code \o <<Jmp(F), Label(E)>>
         = <<Test(E)>> \o then.code \o <<Jmp(F)>> \o <<Label(E)>>
  BY <1>9, <1>10, TwoOps
<1>. HIDE DEF then, else, E, F
<1>12. /\ Instr[t][l].code = <<Test(E)>> \o then.code \o <<Jmp(F), Label(E)>>
                               \o else.code \o <<Label(F)>>
       /\ Instr[t][l].labelc = else.labelc /\ Instr[t][l].returns = FALSE
  <2>. DEFINE c == <<Test(E)>> \o then.code \o <<Jmp(F), Label(E)>>
                     \o else.code \o <<Label(F)>>
  <2>1. Instr[t][l] = Piece(c, else.labelc, FALSE)
    BY <1>7
  <2>. HIDE DEF c
  <2>2. Instr[t][l].code = c /\ Instr[t][l].labelc = else.labelc /\ Instr[t][l].returns = FALSE
    BY <2>1 DEF Piece
  <2>. QED
    BY <2>2 DEF c
<1>. QED
  BY <1>2, <1>4, <1>8, <1>11, <1>12 DEF then, else, E, F

(* The code of a loop.                                                     *)
LEMMA WhileCode ==
  ASSUME FiniteTrees, NEW t \in Tree, t.kind = "while", NEW l \in Nat
  PROVE  LET do == Instr[Branch(t.do)][l + 1]
             W == <<"WHILE", l>>
             E == <<"ENDWHILE", l>>
         IN  /\ do \in Pieces /\ W \in Names /\ E \in Names
             /\ Instr[t][l].code = <<Label(W)>> \o <<Test(E)>> \o do.code
                                     \o <<Jmp(W)>> \o <<Label(E)>>
             /\ Instr[t][l].labelc = do.labelc /\ Instr[t][l].returns = FALSE
<1>. DEFINE do == Instr[Branch(t.do)][l + 1]
            W == <<"WHILE", l>>
            E == <<"ENDWHILE", l>>
<1>1. Branch(t.do) \in Tree /\ l + 1 \in Nat
  BY BranchBelow, ChildrenAreTrees
<1>2. do \in Pieces
  BY <1>1, InstrIs
<1>3. do.code \in Seq(Ops)
  BY <1>2 DEF Pieces
<1>4. Instr[t][l] = InstrRule(Instr, t, l)
  BY InstrIs
<1>5. Instr[t][l] = WhileInstr(Instr, t, l)
  BY <1>4 DEF InstrRule
<1>6. Instr[t][l] = Piece(<<Label(W), Test(E)>> \o do.code \o <<Jmp(W), Label(E)>>,
                          do.labelc, FALSE)
  BY <1>5 DEF WhileInstr
<1>7. W \in Names /\ E \in Names
  BY DEF Names
<1>8. Label(W) \in Ops /\ Test(E) \in Ops /\ Jmp(W) \in Ops /\ Label(E) \in Ops
  BY <1>7 DEF Ops
<1>9. <<Label(W), Test(E)>> = <<Label(W)>> \o <<Test(E)>>
  BY <1>8, PairIs
<1>10. <<Label(W)>> \o <<Test(E)>> \o do.code \in Seq(Ops)
  BY <1>3, <1>8
<1>11. <<Label(W)>> \o <<Test(E)>> \o do.code \o <<Jmp(W), Label(E)>>
         = <<Label(W)>> \o <<Test(E)>> \o do.code \o <<Jmp(W)>> \o <<Label(E)>>
  BY <1>8, <1>10, TwoOps
<1>. HIDE DEF do, W, E
<1>12. /\ Instr[t][l].code = <<Label(W), Test(E)>> \o do.code \o <<Jmp(W), Label(E)>>
       /\ Instr[t][l].labelc = do.labelc /\ Instr[t][l].returns = FALSE
  BY <1>6 DEF Piece
<1>. QED
  BY <1>2, <1>7, <1>9, <1>11, <1>12 DEF do, W, E

(* Every piece of code has labels of its own.                              *)
LEMMA InstrOwnsLabels ==
  ASSUME FiniteTrees, NEW x \in Tree, NEW n \in Nat
  PROVE  OwnLabels(Instr[x][n], n)
<1>. DEFINE T == {t \in Tree : \A l \in Nat : OwnLabels(Instr[t][l], l)}
<1>1. ASSUME NEW t \in Tree, \A s \in Below(t) : s \in T, NEW l \in Nat
      PROVE  OwnLabels(Instr[t][l], l)
  <2>. DEFINE p == Instr[t][l]
  <2>1. p \in Pieces /\ p.code \in Seq(Ops) /\ p.labelc \in Nat
    BY InstrIs DEF Pieces
  <2>2. \A s \in Below(t) : \A m \in Nat : OwnLabels(Instr[s][m], m)
    BY <1>1
  <2>. SUFFICES OwnLabels(p, l)
    OBVIOUS
  <2>4. ASSUME p.labelc = l, Labelled(p.code, {}, {})
        PROVE  OwnLabels(p, l)
    <3>. HIDE DEF p
    <3>1. l <= p.labelc
      BY <2>4
    <3>2. LabelsOf(p.code) = {} /\ Targets(p.code) = {} /\ Own(p.code)
      BY <2>4 DEF Labelled
    <3>. QED
      BY <3>1, <3>2 DEF OwnLabels
  <2>5. CASE t.kind \in {"none", "simple", "return"}
    <3>1. Do(t.id) \in Ops /\ Ret(t.id) \in Ops
      BY DEF Ops, Ids
    <3>2. p.labelc = l /\ p.code \in {<<>>, <<Do(t.id)>>, <<Ret(t.id)>>}
      <4>1. \E c \in {<<>>, <<Do(t.id)>>, <<Ret(t.id)>>}, r \in BOOLEAN : p = Piece(c, l, r)
        BY <2>5, LeafCode
      <4>. HIDE DEF p
      <4>. QED
        BY <4>1, PieceIs
    <3>3. Labelled(<<Do(t.id)>>, {}, {}) /\ Labelled(<<Ret(t.id)>>, {}, {})
      BY <3>1, PlainLabelled, OpsDiffer
    <3>. QED
      BY <2>4, <3>2, <3>3, NoneLabelled
  <2>6. CASE t.kind = "suite"
    <3>. DEFINE first == Instr[t.first][l]
                rest == Instr[t.next][first.labelc]
                A == LabelsOf(first.code)
                B == LabelsOf(rest.code)
                S == Targets(first.code)
                U == Targets(rest.code)
    <3>1. /\ first \in Pieces /\ rest \in Pieces
          /\ p.code = first.code \o rest.code /\ p.labelc = rest.labelc
      BY <2>6, SuiteCode
    <3>2. first.labelc \in Nat
      BY <3>1 DEF Pieces
    <3>3. OwnLabels(first, l) /\ OwnLabels(rest, first.labelc)
      BY <2>2, <2>6, <3>2, BranchBelow
    <3>. HIDE DEF p, first, rest
    <3>4. /\ Labelled(first.code, A, S) /\ S \subseteq A /\ l <= first.labelc
          /\ \A name \in A : name[2] \in Nat /\ l <= name[2] /\ name[2] < first.labelc
      BY <3>1, <3>3, OwnedParts
    <3>5. /\ Labelled(rest.code, B, U) /\ U \subseteq B /\ first.labelc <= rest.labelc
          /\ \A name \in B :
                name[2] \in Nat /\ first.labelc <= name[2] /\ name[2] < rest.labelc
          /\ rest.labelc \in Nat
      BY <3>1, <3>2, <3>3, OwnedParts
    <3>. HIDE DEF A, B, S, U
    <3>6. A \cap B = {}
      BY <3>2, <3>4, <3>5
    <3>7. Labelled(p.code, A \cup B, S \cup U)
      BY <3>1, <3>4, <3>5, <3>6, BothLabelled
    <3>8. \A name \in A \cup B : l <= name[2] /\ name[2] < p.labelc
      BY <3>1, <3>2, <3>4, <3>5
    <3>9. l <= p.labelc /\ S \cup U \subseteq A \cup B
      BY <3>1, <3>2, <3>4, <3>5
    <3>. QED
      BY <2>1, <3>7, <3>8, <3>9, OwnsWhole
  <2>7. CASE t.kind = "block"
    <3>1. CASE t.suite.kind = "none" /\ p = Piece(<<Abort>>, l, FALSE)
      <4>1. Abort \in Ops
        BY DEF Ops
      <4>2. Labelled(<<Abort>>, {}, {})
        BY <4>1, PlainLabelled, OpsDiffer
      <4>. QED
        <5>. HIDE DEF p
        <5>1. p.labelc = l /\ p.code = <<Abort>>
          BY <3>1 DEF Piece
        <5>. QED
          BY <2>4, <4>2, <5>1
    <3>2. CASE /\ t.suite.first \in Below(t)
               /\ p.code = Instr[t.suite.first][l].code
               /\ p.labelc = Instr[t.suite.first][l].labelc
      <4>1. OwnLabels(Instr[t.suite.first][l], l)
        BY <2>2, <3>2
      <4>. QED
        BY <3>2, <4>1 DEF OwnLabels
    <3>. QED
      BY <2>7, <3>1, <3>2, BlockCode
  <2>8. CASE t.kind = "if"
    <3>. DEFINE then == Instr[Branch(t.then)][l + 1]
                F == <<"ENDIF", l>>
                A == LabelsOf(then.code)
                S == Targets(then.code)
    <3>1. /\ then \in Pieces /\ F \in Names
          /\ p.code = <<Test(F)>> \o then.code \o <<Label(F)>> /\ p.labelc = then.labelc
      BY <2>8, IfCode
    <3>2. OwnLabels(then, l + 1) /\ l + 1 \in Nat /\ F[2] = l
      BY <2>2, <2>8, BranchBelow
    <3>. HIDE DEF p, then, F
    <3>3. /\ Labelled(then.code, A, S) /\ S \subseteq A /\ l + 1 <= then.labelc
          /\ \A name \in A : name[2] \in Nat /\ l + 1 <= name[2] /\ name[2] < then.labelc
          /\ then.labelc \in Nat
      BY <3>1, <3>2, OwnedParts
    <3>. HIDE DEF A, S
    <3>4. A \cap {F} = {}
      BY <3>2, <3>3
    <3>5. Labelled(<<Test(F)>>, {}, {F}) /\ Labelled(<<Label(F)>>, {F}, {})
      BY <3>1, JumpLabelled
    <3>6. Labelled(<<Test(F)>> \o then.code, {} \cup A, {F} \cup S)
      BY <3>3, <3>5, BothLabelled
    <3>7. Labelled(p.code, {} \cup A \cup {F}, {F} \cup S \cup {})
      BY <3>1, <3>4, <3>5, <3>6, BothLabelled, SMTT(30)
    <3>. DEFINE L == A \cup {F}
                V == S \cup {F}
    <3>8. {} \cup A \cup {F} = L /\ {F} \cup S \cup {} = V
      OBVIOUS
    <3>9. Labelled(p.code, L, V)
      BY <3>7, <3>8
    <3>10. \A name \in L : l <= name[2] /\ name[2] < p.labelc
      BY <3>1, <3>2, <3>3
    <3>11. l <= p.labelc /\ V \subseteq L
      BY <3>1, <3>3
    <3>. HIDE DEF L, V
    <3>. QED
      BY <2>1, <3>9, <3>10, <3>11, OwnsWhole
  <2>9. CASE t.kind = "ifelse"
    <3>. DEFINE then == Instr[Branch(t.then)][l + 1]
                else == Instr[Branch(t.else)][then.labelc]
                E == <<"ELSE", l>>
                F == <<"ENDIF", l>>
                A == LabelsOf(then.code)
                B == LabelsOf(else.code)
                S == Targets(then.code)
                U == Targets(else.code)
    <3>1. /\ then \in Pieces /\ else \in Pieces /\ E \in Names /\ F \in Names
          /\ p.code = <<Test(E)>> \o then.code \o <<Jmp(F)>> \o <<Label(E)>>
                        \o else.code \o <<Label(F)>>
          /\ p.labelc = else.labelc
      BY <2>9, IfElseCode
    <3>2. then.labelc \in Nat
      BY <3>1 DEF Pieces
    <3>3. /\ OwnLabels(then, l + 1) /\ l + 1 \in Nat
          /\ OwnLabels(else, then.labelc)
          /\ E[2] = l /\ F[2] = l /\ E # F
      BY <2>2, <2>9, <3>2, BranchBelow
    <3>. HIDE DEF p, then, else, E, F
    <3>4. /\ Labelled(then.code, A, S) /\ S \subseteq A /\ l + 1 <= then.labelc
          /\ \A name \in A : name[2] \in Nat /\ l + 1 <= name[2] /\ name[2] < then.labelc
      BY <3>1, <3>3, OwnedParts
    <3>5. /\ Labelled(else.code, B, U) /\ U \subseteq B /\ then.labelc <= else.labelc
          /\ \A name \in B :
                name[2] \in Nat /\ then.labelc <= name[2] /\ name[2] < else.labelc
          /\ else.labelc \in Nat
      BY <3>1, <3>2, <3>3, OwnedParts
    <3>. HIDE DEF A, B, S, U
    <3>6. E \notin A /\ F \notin A /\ E \notin B /\ F \notin B /\ A \cap B = {}
      BY <3>2, <3>3, <3>4, <3>5
    <3>7. /\ Labelled(<<Test(E)>>, {}, {E}) /\ Labelled(<<Label(E)>>, {E}, {})
          /\ Labelled(<<Jmp(F)>>, {}, {F}) /\ Labelled(<<Label(F)>>, {F}, {})
      BY <3>1, JumpLabelled
    <3>8. Labelled(<<Test(E)>> \o then.code, {} \cup A, {E} \cup S)
      BY <3>4, <3>7, BothLabelled
    <3>9. Labelled(<<Test(E)>> \o then.code \o <<Jmp(F)>>, {} \cup A \cup {}, {E} \cup S \cup {F})
      BY <3>7, <3>8, BothLabelled
    <3>10. Labelled(<<Test(E)>> \o then.code \o <<Jmp(F)>> \o <<Label(E)>>,
                    {} \cup A \cup {} \cup {E}, {E} \cup S \cup {F} \cup {})
      <4>1. ({} \cup A \cup {}) \cap {E} = {}
        BY <3>6
      <4>. QED
        BY <3>7, <3>9, <4>1, BothLabelled
    <3>11. Labelled(<<Test(E)>> \o then.code \o <<Jmp(F)>> \o <<Label(E)>> \o else.code,
                    {} \cup A \cup {} \cup {E} \cup B, {E} \cup S \cup {F} \cup {} \cup U)
      <4>1. ({} \cup A \cup {} \cup {E}) \cap B = {}
        BY <3>6
      <4>. QED
        BY <3>5, <3>10, <4>1, BothLabelled
    <3>12. Labelled(<<Test(E)>> \o then.code \o <<Jmp(F)>> \o <<Label(E)>> \o else.code
                      \o <<Label(F)>>,
                    {} \cup A \cup {} \cup {E} \cup B \cup {F},
                    {E} \cup S \cup {F} \cup {} \cup U \cup {})
      <4>1. ({} \cup A \cup {} \cup {E} \cup B) \cap {F} = {}
        BY <3>3, <3>6
      <4>. QED
        BY <3>7, <3>11, <4>1, BothLabelled
    <3>. DEFINE L == A \cup B \cup {E, F}
                V == S \cup U \cup {E, F}
    <3>13. /\ {} \cup A \cup {} \cup {E} \cup B \cup {F} = L
           /\ {E} \cup S \cup {F} \cup {} \cup U \cup {} = V
      OBVIOUS
    <3>14. Labelled(p.code, L, V)
      BY <3>1, <3>12, <3>13
    <3>15. \A name \in L : l <= name[2] /\ name[2] < p.labelc
      BY <3>1, <3>2, <3>3, <3>4, <3>5
    <3>16. l <= p.labelc /\ V \subseteq L
      BY <3>1, <3>2, <3>4, <3>5
    <3>. HIDE DEF L, V
    <3>. QED
      BY <2>1, <3>14, <3>15, <3>16, OwnsWhole
  <2>10. CASE t.kind = "while"
    <3>. DEFINE do == Instr[Branch(t.do)][l + 1]
                W == <<"WHILE", l>>
                E == <<"ENDWHILE", l>>
                A == LabelsOf(do.code)
                S == Targets(do.code)
    <3>1. /\ do \in Pieces /\ W \in Names /\ E \in Names
          /\ p.code = <<Label(W)>> \o <<Test(E)>> \o do.code \o <<Jmp(W)>> \o <<Label(E)>>
          /\ p.labelc = do.labelc
      BY <2>10, WhileCode
    <3>2. OwnLabels(do, l + 1) /\ l + 1 \in Nat /\ W[2] = l /\ E[2] = l /\ W # E
      BY <2>2, <2>10, BranchBelow
    <3>. HIDE DEF p, do, W, E
    <3>3. /\ Labelled(do.code, A, S) /\ S \subseteq A /\ l + 1 <= do.labelc
          /\ \A name \in A : name[2] \in Nat /\ l + 1 <= name[2] /\ name[2] < do.labelc
          /\ do.labelc \in Nat
      BY <3>1, <3>2, OwnedParts
    <3>. HIDE DEF A, S
    <3>4. W \notin A /\ E \notin A
      BY <3>2, <3>3
    <3>5. /\ Labelled(<<Label(W)>>, {W}, {}) /\ Labelled(<<Test(E)>>, {}, {E})
          /\ Labelled(<<Jmp(W)>>, {}, {W}) /\ Labelled(<<Label(E)>>, {E}, {})
      BY <3>1, JumpLabelled
    <3>6. Labelled(<<Label(W)>> \o <<Test(E)>>, {W} \cup {}, {} \cup {E})
      BY <3>5, BothLabelled
    <3>7. Labelled(<<Label(W)>> \o <<Test(E)>> \o do.code, {W} \cup {} \cup A, {} \cup {E} \cup S)
      <4>1. ({W} \cup {}) \cap A = {}
        BY <3>4
      <4>. QED
        BY <3>3, <3>6, <4>1, BothLabelled
    <3>8. Labelled(<<Label(W)>> \o <<Test(E)>> \o do.code \o <<Jmp(W)>>,
                   {W} \cup {} \cup A \cup {}, {} \cup {E} \cup S \cup {W})
      BY <3>5, <3>7, BothLabelled
    <3>9. Labelled(<<Label(W)>> \o <<Test(E)>> \o do.code \o <<Jmp(W)>> \o <<Label(E)>>,
                   {W} \cup {} \cup A \cup {} \cup {E}, {} \cup {E} \cup S \cup {W} \cup {})
      <4>1. ({W} \cup {} \cup A \cup {}) \cap {E} = {}
        BY <3>2, <3>4
      <4>. QED
        BY <3>5, <3>8, <4>1, BothLabelled
    <3>. DEFINE B == {W, E} \cup A
                U == {E, W} \cup S
    <3>10. /\ {W} \cup {} \cup A \cup {} \cup {E} = B
           /\ {} \cup {E} \cup S \cup {W} \cup {} = U
      OBVIOUS
    <3>11. Labelled(p.code, B, U)
      BY <3>1, <3>9, <3>10
    <3>12. \A name \in B : l <= name[2] /\ name[2] < p.labelc
      BY <3>1, <3>2, <3>3
    <3>13. l <= p.labelc /\ U \subseteq B
      BY <3>1, <3>3
    <3>. HIDE DEF B, U
    <3>. QED
      BY <2>1, <3>11, <3>12, <3>13, OwnsWhole
  <2>. QED
    BY <2>5, <2>6, <2>7, <2>8, <2>9, <2>10, TreeKinds
<1>2. ASSUME NEW t \in Tree, \A s \in Below(t) : s \in T PROVE t \in T
  BY <1>1, <1>2
<1>3. Tree \subseteq T
  <2>. HIDE DEF T
  <2>. QED
    BY <1>2, TreeInduction
<1>. QED
  BY <1>3

-----------------------------------------------------------------------------
(* The run of the code of a body.                                          *)

(* What Code appends, if anything.                                         *)
LEMMA BodyCode ==
  ASSUME FiniteTrees, NEW b \in Bodies
  PROVE  LET piece == Instr[b][0] IN
         /\ b \in Tree /\ IsSuite(b) /\ piece \in Pieces
         /\ Code(b) = (IF piece.returns THEN piece.code ELSE piece.code \o <<End>>)
         /\ Code(b) \in Seq(Ops)
<1>. DEFINE piece == Instr[b][0]
<1>1. b \in Tree /\ IsSuite(b)
  BY BodiesAssumption DEF IsSuite
<1>2. piece \in Pieces
  BY <1>1, InstrIs
<1>3. piece.code \in Seq(Ops) /\ End \in Ops /\ <<End>> \in Seq(Ops)
  BY <1>2 DEF Pieces, Ops
<1>4. Code(b) = (IF piece.returns THEN piece.code ELSE Append(piece.code, End))
  BY DEF Code
<1>. HIDE DEF piece
<1>5. Append(piece.code, End) = piece.code \o <<End>> /\ piece.code \o <<End>> \in Seq(Ops)
  BY <1>3, AppendIsConcat
<1>. QED
  BY <1>1, <1>2, <1>3, <1>4, <1>5 DEF piece

(* The body compiled, and its code, stay.                                  *)
Compiled == body \in Bodies /\ code = Code(body)

LEMMA StaysCompiled == Spec => []Compiled
<1>1. Init => Compiled
  BY DEF Init, Compiled
<1>2. Compiled /\ [Next]_vars => Compiled'
  BY DEF Compiled, vars, Next, DoSimple, DoReturn, DoTest, DoJump, DoLabel, DoEnd, Fetch
<1>. QED
  BY <1>1, <1>2, PTL DEF Spec

(* Every label stands in one place of the code and every jump has a label  *)
(* to go to, whatever the body: labelc is threaded through if_else_instr   *)
(* and while_instr so that no two structures share a number.               *)
THEOREM LabelsHold == ASSUME FiniteTrees PROVE Spec => []LabelsUnique
<1>1. ASSUME Compiled PROVE LabelsUnique
  <2>. DEFINE p == Instr[body][0]
  <2>1. /\ body \in Tree /\ p \in Pieces /\ code \in Seq(Ops)
        /\ code = (IF p.returns THEN p.code ELSE p.code \o <<End>>)
    BY <1>1, BodyCode DEF Compiled
  <2>2. OwnLabels(p, 0)
    BY <2>1, InstrOwnsLabels
  <2>. DEFINE A == LabelsOf(p.code)
              S == Targets(p.code)
  <2>. HIDE DEF p
  <2>3. Labelled(p.code, A, S) /\ S \subseteq A
    BY <2>1, <2>2, OwnedParts
  <2>. HIDE DEF A, S
  <2>4. Labelled(<<End>>, {}, {})
    <3>1. End \in Ops
      BY DEF Ops
    <3>. QED
      BY <3>1, PlainLabelled, OpsDiffer
  <2>5. Labelled(p.code \o <<End>>, A \cup {}, S \cup {})
    BY <2>3, <2>4, BothLabelled
  <2>6. Labelled(code, A, S)
    BY <2>1, <2>3, <2>5
  <2>7. /\ Own(code) /\ LabelsOf(code) = A /\ Targets(code) = S
        /\ \A i \in DOMAIN code : code[i] \in Ops
    BY <2>1, <2>6 DEF Labelled
  <2>8. ASSUME NEW i \in DOMAIN code, NEW j \in DOMAIN code,
               code[i][1] = "label", code[i] = code[j]
        PROVE  i = j
    BY <2>7, <2>8 DEF Own, Places
  <2>9. ASSUME NEW i \in DOMAIN code, code[i][1] \in {"test", "jmp"}
        PROVE  Contains(code, Label(code[i][2]))
    <3>1. code[i][2] \in A
      BY <2>3, <2>7, <2>9 DEF Targets, Jumps
    <3>2. PICK j \in Places(code) : code[j][2] = code[i][2]
      BY <2>7, <3>1 DEF LabelsOf
    <3>3. j \in DOMAIN code /\ code[j] = Label(code[i][2])
      BY <2>7, <3>2, OpKinds DEF Places
    <3>4. DOMAIN code = 1 .. Len(code)
      BY <2>1
    <3>. QED
      BY <3>3, <3>4 DEF Contains
  <2>. QED
    BY <2>8, <2>9 DEF LabelsUnique
<1>. QED
  BY <1>1, StaysCompiled, PTL

-----------------------------------------------------------------------------
(* Code that control does not run off: its last instruction stops.         *)
Ends(c) == c # <<>> /\ c[Len(c)][1] \in {"ret", "end"}

(* Code ends as its second part does.                                      *)
LEMMA EndsConcat ==
  ASSUME NEW a \in Seq(Ops), NEW b \in Seq(Ops), Ends(b)
  PROVE  Ends(a \o b)
<1>1. /\ Len(a) \in Nat /\ Len(b) \in Nat /\ Len(b) # 0
      /\ Len(a \o b) = Len(a) + Len(b) /\ (a \o b)[Len(a) + Len(b)] = b[Len(b)]
  BY DEF Ends
<1>2. a \o b # <<>>
  BY <1>1
<1>. QED
  BY <1>1, <1>2 DEF Ends

(* Code that instr or suite_instr says returns ends in a return.           *)
LEMMA ReturnsEnds ==
  ASSUME FiniteTrees, NEW x \in Tree, NEW n \in Nat, Instr[x][n].returns
  PROVE  Ends(Instr[x][n].code)
<1>. DEFINE T == {t \in Tree : \A l \in Nat : Instr[t][l].returns => Ends(Instr[t][l].code)}
<1>1. ASSUME NEW t \in Tree, \A s \in Below(t) : s \in T, NEW l \in Nat, Instr[t][l].returns
      PROVE  Ends(Instr[t][l].code)
  <2>1. CASE t.kind = "return"
    <3>1. Instr[t][l].code = <<Ret(t.id)>>
      BY <2>1, LeafFields
    <3>2. <<Ret(t.id)>> # <<>> /\ Len(<<Ret(t.id)>>) = 1 /\ <<Ret(t.id)>>[1] = Ret(t.id)
      OBVIOUS
    <3>. QED
      BY <3>1, <3>2, OpsDiffer DEF Ends
  <2>2. CASE t.kind = "suite"
    <3>. DEFINE first == Instr[t.first][l]
                rest == Instr[t.next][first.labelc]
    <3>1. /\ first \in Pieces /\ rest \in Pieces
          /\ Instr[t][l].code = first.code \o rest.code
          /\ Instr[t][l].returns =
               (IF t.next.kind = "none" THEN first.returns ELSE rest.returns)
      BY <2>2, SuiteCode
    <3>2. first.labelc \in Nat /\ first.code \in Seq(Ops) /\ rest.code \in Seq(Ops)
      BY <3>1 DEF Pieces
    <3>3. /\ t.first \in Below(t) /\ t.next \in Below(t) /\ t.next \in Tree
      BY <2>2, BranchBelow, ChildrenAreTrees
    <3>4. CASE t.next.kind = "none"
      <4>1. rest.code = <<>>
        BY <3>2, <3>3, <3>4, LeafFields
      <4>2. Ends(first.code)
        BY <1>1, <3>1, <3>3, <3>4
      <4>3. first.code \o <<>> = first.code
        BY <3>2
      <4>. QED
        BY <3>1, <4>1, <4>2, <4>3
    <3>5. CASE t.next.kind # "none"
      <4>1. Ends(rest.code)
        BY <1>1, <3>1, <3>2, <3>3, <3>5
      <4>. QED
        BY <3>1, <3>2, <4>1, EndsConcat
    <3>. QED
      BY <3>4, <3>5
  <2>3. CASE t.kind \in {"none", "simple"}
    <3>1. Instr[t][l].returns = FALSE
      BY <2>3, LeafFields
    <3>. QED
      BY <1>1, <3>1
  <2>4. CASE t.kind = "block"
    <3>1. Instr[t][l].returns = FALSE
      BY <2>4, BlockCode
    <3>. QED
      BY <1>1, <3>1
  <2>5. CASE t.kind = "if"
    <3>1. Instr[t][l].returns = FALSE
      BY <2>5, IfCode
    <3>. QED
      BY <1>1, <3>1
  <2>6. CASE t.kind = "ifelse"
    <3>1. Instr[t][l].returns = FALSE
      BY <2>6, IfElseCode
    <3>. QED
      BY <1>1, <3>1
  <2>7. CASE t.kind = "while"
    <3>1. Instr[t][l].returns = FALSE
      BY <2>7, WhileCode
    <3>. QED
      BY <1>1, <3>1
  <2>. QED
    BY <2>1, <2>2, <2>3, <2>4, <2>5, <2>6, <2>7, TreeKinds
<1>2. ASSUME NEW t \in Tree, \A s \in Below(t) : s \in T PROVE t \in T
  BY <1>1, <1>2
<1>3. Tree \subseteq T
  <2>. HIDE DEF T
  <2>. QED
    BY <1>2, TreeInduction
<1>. QED
  BY <1>3

(* So does the code of a function.                                         *)
LEMMA BodyEnds ==
  ASSUME FiniteTrees, NEW b \in Bodies
  PROVE  Ends(Code(b))
<1>. DEFINE piece == Instr[b][0]
<1>1. /\ b \in Tree /\ piece \in Pieces
      /\ Code(b) = (IF piece.returns THEN piece.code ELSE piece.code \o <<End>>)
  BY BodyCode
<1>2. piece.code \in Seq(Ops) /\ <<End>> \in Seq(Ops)
  BY <1>1 DEF Pieces, Ops
<1>3. Ends(<<End>>)
  <2>1. <<End>> # <<>> /\ Len(<<End>>) = 1 /\ <<End>>[1] = End
    OBVIOUS
  <2>. QED
    BY <2>1, OpsDiffer DEF Ends
<1>4. CASE piece.returns
  BY <1>1, <1>4, ReturnsEnds
<1>5. CASE ~piece.returns
  BY <1>1, <1>2, <1>3, <1>5, EndsConcat
<1>. QED
  BY <1>4, <1>5

(* Control stays in the code of the function, which a return or            *)
(* decl_fonct's RET ends, and never goes on in the code that follows.      *)
THEOREM NeverThroughHolds == ASSUME FiniteTrees PROVE Spec => []NeverThrough
<1>1. ASSUME Compiled PROVE code \in Seq(Ops) /\ Ends(code)
  BY <1>1, BodyCode, BodyEnds DEF Compiled
<1>2. Init => NeverThrough
  <2>. SUFFICES ASSUME Init PROVE NeverThrough
    OBVIOUS
  <2>1. Compiled /\ pc = 1
    BY DEF Init, Compiled
  <2>. QED
    BY <1>1, <2>1 DEF Ends, NeverThrough
<1>3. Compiled /\ NeverThrough /\ [Next]_vars => NeverThrough'
  <2>. SUFFICES ASSUME Compiled, NeverThrough, [Next]_vars PROVE NeverThrough'
    OBVIOUS
  <2>1. /\ DOMAIN code = 1 .. Len(code) /\ Len(code) \in Nat
        /\ code[Len(code)][1] \in {"ret", "end"}
    BY <1>1 DEF Ends
  <2>2. ASSUME status = "run", code' = code, pc \in DOMAIN code,
               code[pc][1] \notin {"ret", "end"}, pc' = pc + 1
        PROVE  NeverThrough'
    BY <2>1, <2>2 DEF NeverThrough
  <2>3. ASSUME code' = code, NEW label, Jump(label)
        PROVE  NeverThrough'
    BY <2>3 DEF Jump, NeverThrough
  <2>4. CASE DoSimple
    BY <2>2, <2>4 DEF DoSimple, Fetch
  <2>5. CASE DoReturn
    BY <2>5 DEF DoReturn, NeverThrough
  <2>6. CASE DoTest
    BY <2>2, <2>3, <2>6 DEF DoTest, Fetch
  <2>7. CASE DoJump
    BY <2>3, <2>7 DEF DoJump, Fetch
  <2>8. CASE DoLabel
    BY <2>2, <2>8 DEF DoLabel, Fetch
  <2>9. CASE DoEnd
    BY <2>9 DEF DoEnd, NeverThrough
  <2>10. CASE UNCHANGED vars
    BY <2>10 DEF vars, NeverThrough
  <2>. QED
    BY <2>4, <2>5, <2>6, <2>7, <2>8, <2>9, <2>10 DEF Next
<1>. QED
  BY <1>2, <1>3, StaysCompiled, PTL DEF Spec

-----------------------------------------------------------------------------
(* The code does what the source says.  An instruction means what remains  *)
(* to be done from it on: a meaning, next, is given to what follows it,    *)
(* and env gives one to every label.                                       *)
Then(r, out) == IF r.done THEN r ELSE After(r, out[r.oracle])

Cont(m, out) == [o \in Booleans |-> Then(m[o], out)]

Envs == [Names -> Meanings]

Holds(x, k, next, env) ==
  /\ x[1] = "do" => \A o \in Booleans : k[o] = After(Step(x[2], FALSE, o), next[o])
  /\ x[1] = "ret" => \A o \in Booleans : k[o] = Step(x[2], TRUE, o)
  /\ x[1] = "test" => \A o \in Booleans :
        k[o] = IF Truth(o) THEN next[Rest(o)] ELSE env[x[2]][Rest(o)]
  /\ x[1] = "jmp" => k = env[x[2]]
  /\ x[1] = "label" => k = next /\ env[x[2]] = k
  /\ x[1] = "end" => \A o \in Booleans : k[o] = Nothing(o)

(* The meanings K of the places of the code, and of what follows it.       *)
Means(c, K, env) ==
  /\ K \in [1 .. Len(c) + 1 -> Meanings]
  /\ \A i \in 1 .. Len(c) : Holds(c[i], K[i], K[i + 1], env)

Linked(c, k, out, env) ==
  \E K : Means(c, K, env) /\ K[1] = k /\ K[Len(c) + 1] = out

(* Outcomes one after the other.                                           *)
LEMMA OutcomeEqual ==
  ASSUME NEW r \in Outcomes, NEW s \in Outcomes,
         r.trace = s.trace, r.done = s.done, r.oracle = s.oracle
  PROVE  r = s
  BY DEF Outcomes

LEMMA ThenTyped ==
  ASSUME NEW r \in Outcomes, NEW out \in Meanings
  PROVE  Then(r, out) \in Outcomes
<1>1. r.oracle \in Booleans
  BY DEF Outcomes
<1>2. out[r.oracle] \in Outcomes
  BY <1>1, OutcomeTyped
<1>. QED
  BY <1>2, OutcomesTyped DEF Then

LEMMA ContTyped ==
  ASSUME NEW m \in Meanings, NEW out \in Meanings
  PROVE  /\ Cont(m, out) \in Meanings
         /\ \A o \in Booleans : Cont(m, out)[o] = Then(m[o], out)
<1>1. \A o \in Booleans : Then(m[o], out) \in Outcomes
  BY OutcomeTyped, ThenTyped
<1>. QED
  BY <1>1 DEF Cont, Meanings

(* Nothing done first leaves what comes after.                             *)
LEMMA AfterNothing ==
  ASSUME NEW o \in Booleans, NEW s \in Outcomes
  PROVE  After(Nothing(o), s) = s /\ Nothing(o) \in Outcomes
<1>1. Nothing(o) \in Outcomes /\ Nothing(o).trace = <<>>
  BY OutcomesTyped, OutcomeFields
<1>2. s.trace \in Seq(Ids)
  BY DEF Outcomes
<1>3. <<>> \o s.trace = s.trace
  BY <1>2
<1>4. /\ After(Nothing(o), s) \in Outcomes /\ After(Nothing(o), s).trace = s.trace
      /\ After(Nothing(o), s).done = s.done /\ After(Nothing(o), s).oracle = s.oracle
  BY <1>1, <1>3, AfterFields, OutcomesTyped
<1>. QED
  BY <1>1, <1>4, OutcomeEqual

(* So does nothing done after.                                             *)
LEMMA ThenNothing ==
  ASSUME NEW r \in Outcomes, NEW out \in Meanings, \A o \in Booleans : out[o] = Nothing(o)
  PROVE  Then(r, out) = r
<1>1. r.trace \in Seq(Ids) /\ r.oracle \in Booleans /\ r.done \in BOOLEAN
  BY DEF Outcomes
<1>2. CASE ~r.done
  <2>. DEFINE n == Nothing(r.oracle)
  <2>1. Then(r, out) = After(r, n)
    BY <1>1, <1>2 DEF Then
  <2>2. /\ n \in Outcomes /\ n.trace = <<>> /\ n.done = FALSE /\ n.oracle = r.oracle
    BY <1>1, OutcomesTyped, OutcomeFields
  <2>. HIDE DEF n
  <2>3. /\ After(r, n) \in Outcomes /\ After(r, n).trace = r.trace \o <<>>
        /\ After(r, n).done = FALSE /\ After(r, n).oracle = r.oracle
    <3>1. /\ After(r, n).trace = r.trace \o n.trace
          /\ After(r, n).done = n.done /\ After(r, n).oracle = n.oracle
      BY <2>2, AfterFields
    <3>2. After(r, n) \in Outcomes
      BY <2>2, OutcomesTyped
    <3>. QED
      BY <2>2, <3>1, <3>2
  <2>4. r.trace \o <<>> = r.trace
    BY <1>1
  <2>5. r.done = FALSE
    BY <1>1, <1>2
  <2>. QED
    BY <2>1, <2>3, <2>4, <2>5, OutcomeEqual
<1>. QED
  BY <1>2 DEF Then

(* A first, a second and what comes after both, in either grouping.        *)
LEMMA AfterAssociative ==
  ASSUME NEW r \in Outcomes, NEW s \in Outcomes, NEW u \in Outcomes
  PROVE  After(After(r, s), u) = After(r, After(s, u))
<1>. DEFINE p == After(r, s)
            q == After(s, u)
            a == r.trace
            b == s.trace
            c == u.trace
<1>1. a \in Seq(Ids) /\ b \in Seq(Ids) /\ c \in Seq(Ids)
  BY DEF Outcomes
<1>2. /\ p \in Outcomes /\ p.trace = a \o b
      /\ q \in Outcomes /\ q.trace = b \o c /\ q.done = u.done /\ q.oracle = u.oracle
  BY AfterFields, OutcomesTyped
<1>. SUFFICES After(p, u) = After(r, q)
  OBVIOUS
<1>. HIDE DEF p, q
<1>3. /\ After(p, u) \in Outcomes /\ After(p, u).trace = p.trace \o u.trace
      /\ After(p, u).done = u.done /\ After(p, u).oracle = u.oracle
  BY <1>2, AfterFields, OutcomesTyped
<1>4. /\ After(r, q) \in Outcomes /\ After(r, q).trace = r.trace \o q.trace
      /\ After(r, q).done = u.done /\ After(r, q).oracle = u.oracle
  BY <1>2, AfterFields, OutcomesTyped
<1>5. p.trace \o c = a \o q.trace
  <2>. HIDE DEF a, b, c
  <2>1. (a \o b) \o c = a \o (b \o c)
    BY <1>1, ConcatAssociative
  <2>. QED
    BY <1>2, <2>1
<1>. QED
  BY <1>3, <1>4, <1>5, OutcomeEqual

LEMMA ThenAfter ==
  ASSUME NEW r \in Outcomes, NEW s \in Outcomes, NEW out \in Meanings
  PROVE  Then(After(r, s), out) = After(r, Then(s, out))
<1>1. /\ After(r, s) \in Outcomes /\ After(r, s).done = s.done
      /\ After(r, s).oracle = s.oracle /\ s.oracle \in Booleans /\ s.done \in BOOLEAN
  BY OutcomesTyped, AfterFields DEF Outcomes
<1>2. out[s.oracle] \in Outcomes
  BY <1>1, OutcomeTyped
<1>3. CASE s.done
  <2>1. Then(s, out) = s /\ Then(After(r, s), out) = After(r, s)
    BY <1>1, <1>3 DEF Then
  <2>. QED
    BY <2>1
<1>4. CASE ~s.done
  <2>1. /\ Then(s, out) = After(s, out[s.oracle])
        /\ Then(After(r, s), out) = After(After(r, s), out[s.oracle])
    BY <1>1, <1>4 DEF Then
  <2>. QED
    BY <1>2, <2>1, AfterAssociative
<1>. QED
  BY <1>3, <1>4

(* No instruction means what follows it.                                   *)
LEMMA NoneLinked ==
  ASSUME NEW out \in Meanings, NEW env
  PROVE  Linked(<<>>, out, out, env)
<1>. DEFINE K == [i \in 1 .. 1 |-> out]
<1>1. Len(<<>>) = 0 /\ K \in [1 .. 1 -> Meanings] /\ K[1] = out
  OBVIOUS
<1>2. Means(<<>>, K, env)
  <2>. HIDE DEF K
  <2>. QED
    BY <1>1 DEF Means
<1>3. K[1] = out /\ K[Len(<<>>) + 1] = out
  BY <1>1
<1>. QED
  BY <1>2, <1>3 DEF Linked

(* One instruction.                                                        *)
LEMMA OneLinked ==
  ASSUME NEW x, NEW k \in Meanings, NEW out \in Meanings, NEW env, Holds(x, k, out, env)
  PROVE  Linked(<<x>>, k, out, env)
<1>. DEFINE K == [i \in 1 .. 2 |-> IF i = 1 THEN k ELSE out]
<1>1. /\ Len(<<x>>) = 1 /\ <<x>>[1] = x
      /\ K \in [1 .. 2 -> Meanings] /\ K[1] = k /\ K[2] = out
  OBVIOUS
<1>. HIDE DEF K
<1>2. Means(<<x>>, K, env)
  BY <1>1 DEF Means
<1>3. K[1] = k /\ K[Len(<<x>>) + 1] = out
  BY <1>1
<1>. QED
  BY <1>2, <1>3 DEF Linked

(* One piece of code after another.                                        *)
LEMMA BothLinked ==
  ASSUME NEW a \in Seq(Ops), NEW b \in Seq(Ops), NEW k, NEW mid, NEW out, NEW env,
         Linked(a, k, mid, env), Linked(b, mid, out, env)
  PROVE  Linked(a \o b, k, out, env)
<1>. DEFINE n == Len(a)
            m == Len(b)
            c == a \o b
<1>1. PICK K : Means(a, K, env) /\ K[1] = k /\ K[n + 1] = mid
  BY DEF Linked
<1>2. PICK J : Means(b, J, env) /\ J[1] = mid /\ J[m + 1] = out
  BY DEF Linked
<1>. DEFINE H == [i \in 1 .. (n + m) + 1 |-> IF i <= n THEN K[i] ELSE J[i - n]]
<1>3. /\ n \in Nat /\ m \in Nat /\ Len(c) = n + m
      /\ \A i \in 1 .. n : c[i] = a[i]
      /\ \A i \in 1 .. (n + m) : i > n => c[i] = b[i - n]
  OBVIOUS
<1>. HIDE DEF c, n, m
<1>4. /\ K \in [1 .. n + 1 -> Meanings] /\ J \in [1 .. m + 1 -> Meanings]
      /\ \A i \in 1 .. n : Holds(a[i], K[i], K[i + 1], env)
      /\ \A i \in 1 .. m : Holds(b[i], J[i], J[i + 1], env)
  BY <1>1, <1>2 DEF Means, n, m
<1>5. /\ \A i \in 1 .. n : H[i] = K[i]
      /\ \A i \in 1 .. (n + m) + 1 : i > n => H[i] = J[i - n]
      /\ H \in [1 .. (n + m) + 1 -> Meanings]
  BY <1>3, <1>4
<1>6. H[n + 1] = K[n + 1]
  BY <1>1, <1>2, <1>3, <1>5
<1>. HIDE DEF H
<1>7. ASSUME NEW i \in 1 .. (n + m) PROVE Holds(c[i], H[i], H[i + 1], env)
  <2>1. CASE i <= n
    <3>1. i \in 1 .. n /\ c[i] = a[i] /\ H[i] = K[i]
      BY <1>3, <1>5, <2>1
    <3>2. H[i + 1] = K[i + 1]
      BY <1>3, <1>5, <1>6, <2>1
    <3>. QED
      BY <1>4, <3>1, <3>2
  <2>2. CASE i > n
    <3>1. i - n \in 1 .. m /\ c[i] = b[i - n] /\ H[i] = J[i - n]
      BY <1>3, <1>5, <2>2
    <3>2. H[i + 1] = J[(i - n) + 1]
      <4>1. i + 1 \in 1 .. (n + m) + 1 /\ i + 1 > n /\ (i + 1) - n = (i - n) + 1
        BY <1>3, <2>2
      <4>. QED
        BY <1>5, <4>1
    <3>. QED
      BY <1>4, <3>1, <3>2
  <2>. QED
    BY <1>3, <2>1, <2>2
<1>8. Means(c, H, env)
  BY <1>3, <1>5, <1>7 DEF Means
<1>9. H[1] = k
  BY <1>1, <1>2, <1>3, <1>5, <1>6
<1>10. H[Len(c) + 1] = out
  <2>1. (n + m) + 1 \in 1 .. (n + m) + 1 /\ (n + m) + 1 > n /\ ((n + m) + 1) - n = m + 1
    BY <1>3
  <2>. QED
    BY <1>2, <1>3, <1>5, <2>1
<1>. QED
  BY <1>8, <1>9, <1>10 DEF Linked, c

(* The meanings of the labels of the code are all that counts.             *)
LEMMA SameLabelsLinked ==
  ASSUME NEW c \in Seq(Ops), NEW k, NEW out, NEW env, Linked(c, k, out, env),
         NEW other, \A name \in LabelsOf(c) \cup Targets(c) : other[name] = env[name]
  PROVE  Linked(c, k, out, other)
<1>1. PICK K : Means(c, K, env) /\ K[1] = k /\ K[Len(c) + 1] = out
  BY DEF Linked
<1>2. ASSUME NEW i \in 1 .. Len(c) PROVE Holds(c[i], K[i], K[i + 1], other)
  <2>1. Holds(c[i], K[i], K[i + 1], env) /\ i \in DOMAIN c
    BY <1>1 DEF Means
  <2>2. c[i][1] \in {"test", "jmp", "label"} => other[c[i][2]] = env[c[i][2]]
    BY <2>1 DEF LabelsOf, Targets, Places, Jumps
  <2>. QED
    BY <2>1, <2>2 DEF Holds
<1>3. Means(c, K, other)
  BY <1>1, <1>2 DEF Means
<1>. QED
  BY <1>1, <1>3 DEF Linked

-----------------------------------------------------------------------------
(* The code of a tree means what the tree does, then what follows.         *)
Translated(t, l) ==
  \A out \in Meanings : \E env \in Envs :
    Linked(Instr[t][l].code, Cont(Run[t], out), out, env)

(* A piece with labels of its own keeps its meaning in a larger one.       *)
LEMMA Within ==
  ASSUME NEW p \in Pieces, NEW l \in Nat, OwnLabels(p, l), NEW k, NEW out, NEW env,
         Linked(p.code, k, out, env),
         NEW other, \A name \in LabelsOf(p.code) : other[name] = env[name]
  PROVE  Linked(p.code, k, out, other)
<1>1. p.code \in Seq(Ops) /\ Targets(p.code) \subseteq LabelsOf(p.code)
  BY DEF Pieces, OwnLabels
<1>. QED
  BY <1>1, SameLabelsLinked

(* The first statement and the rest of a list.                             *)
LEMMA SuiteTranslated ==
  ASSUME FiniteTrees, NEW t \in Tree, t.kind = "suite", NEW l \in Nat,
         Translated(t.first, l), \A m \in Nat : Translated(t.next, m)
  PROVE  Translated(t, l)
<1>. SUFFICES ASSUME NEW out \in Meanings
              PROVE  \E env \in Envs : Linked(Instr[t][l].code, Cont(Run[t], out), out, env)
  BY DEF Translated
<1>. DEFINE first == Instr[t.first][l]
            rest == Instr[t.next][first.labelc]
            mid == Cont(Run[t.next], out)
            k == Cont(Run[t.first], mid)
<1>1. first \in Pieces /\ rest \in Pieces /\ Instr[t][l].code = first.code \o rest.code
  BY SuiteCode
<1>2. /\ t.first \in Tree /\ t.next \in Tree /\ first.labelc \in Nat
      /\ first.code \in Seq(Ops) /\ rest.code \in Seq(Ops)
  BY <1>1, BranchBelow, ChildrenAreTrees DEF Pieces
<1>3. OwnLabels(first, l) /\ OwnLabels(rest, first.labelc)
  BY <1>2, InstrOwnsLabels
<1>4. Run[t] \in Meanings /\ Run[t.first] \in Meanings /\ Run[t.next] \in Meanings
  BY <1>2, RunIs
<1>5. mid \in Meanings /\ k \in Meanings
  BY <1>4, ContTyped
<1>6. k = Cont(Run[t], out)
  <2>1. ASSUME NEW o \in Booleans PROVE Then(Run[t.first][o], mid) = Then(Run[t][o], out)
    <3>. DEFINE r == Run[t.first][o]
                s == Run[t.next][r.oracle]
    <3>1. r \in Outcomes /\ r.oracle \in Booleans /\ r.done \in BOOLEAN /\ s \in Outcomes
      BY <1>4, OutcomeTyped
    <3>2. Run[t][o] = IF r.done THEN r ELSE After(r, s)
      <4>1. Run[t][o] = RunRule(Run, t, o)
        BY RunIs
      <4>. QED
        BY <4>1 DEF RunRule
    <3>3. mid[r.oracle] = Then(s, out)
      BY <1>4, <3>1, ContTyped
    <3>. HIDE DEF r, s, mid
    <3>4. CASE r.done
      BY <3>2, <3>4 DEF Then, r
    <3>5. CASE ~r.done
      <4>1. Then(r, mid) = After(r, Then(s, out)) /\ Run[t][o] = After(r, s)
        BY <3>2, <3>3, <3>5 DEF Then
      <4>2. Then(After(r, s), out) = After(r, Then(s, out))
        BY <3>1, ThenAfter
      <4>. QED
        BY <4>1, <4>2 DEF r
    <3>. QED
      BY <3>4, <3>5
  <2>. QED
    BY <2>1 DEF Cont
<1>7. PICK e \in Envs : Linked(first.code, k, mid, e)
  BY <1>5 DEF Translated
<1>8. PICK f \in Envs : Linked(rest.code, mid, out, f)
  BY <1>2 DEF Translated
<1>. DEFINE A == LabelsOf(first.code)
            B == LabelsOf(rest.code)
            g == [name \in Names |-> IF name \in A THEN e[name] ELSE f[name]]
<1>. HIDE DEF first, rest, mid, k
<1>9. /\ A \subseteq Names /\ B \subseteq Names
      /\ \A name \in A : name[2] \in Nat /\ name[2] < first.labelc
      /\ \A name \in B : name[2] \in Nat /\ first.labelc <= name[2]
  BY <1>1, <1>2, <1>3, OwnedParts
<1>. HIDE DEF A, B
<1>10. \A name \in B : name \notin A
  BY <1>2, <1>9
<1>11. g \in Envs
  BY DEF Envs
<1>12. (\A name \in A : g[name] = e[name]) /\ (\A name \in B : g[name] = f[name])
  BY <1>9, <1>10
<1>. HIDE DEF g
<1>13. Linked(first.code, k, mid, g)
  BY <1>1, <1>3, <1>7, <1>12, Within DEF A
<1>14. Linked(rest.code, mid, out, g)
  BY <1>1, <1>2, <1>3, <1>8, <1>12, Within DEF B
<1>15. Linked(first.code \o rest.code, k, out, g)
  BY <1>2, <1>13, <1>14, BothLinked
<1>. QED
  BY <1>1, <1>6, <1>11, <1>15

(* A branch of a control structure: what it does, and its code.            *)
LEMMA BranchRun ==
  ASSUME FiniteTrees, NEW t \in Tree, IsStatement(t)
  PROVE  Branch(t) \in Tree /\ Run[t] \in Meanings /\ Run[Branch(t)] = Run[t]
<1>1. CASE t.kind = "block"
  <2>1. t.suite \in Tree /\ Branch(t) = t.suite
    BY <1>1, BranchBelow, ChildrenAreTrees DEF Branch
  <2>2. \A o \in Booleans : Run[t][o] = Run[t.suite][o]
    <3>1. \A o \in Booleans : Run[t][o] = RunRule(Run, t, o)
      BY RunIs
    <3>. QED
      BY <1>1, <3>1 DEF RunRule
  <2>3. Run[t] \in Meanings /\ Run[t.suite] \in Meanings
    BY <2>1, RunIs
  <2>. QED
    BY <2>1, <2>2, <2>3 DEF Meanings
<1>2. CASE t.kind # "block"
  BY <1>2, RunIs DEF Branch
<1>. QED
  BY <1>1, <1>2

(* Single instructions.                                                    *)
LEMMA TestLinked ==
  ASSUME NEW name, NEW env, NEW k \in Meanings, NEW next \in Meanings,
         \A o \in Booleans : k[o] = IF Truth(o) THEN next[Rest(o)] ELSE env[name][Rest(o)]
  PROVE  Linked(<<Test(name)>>, k, next, env)
<1>1. Test(name)[1] = "test" /\ Test(name)[2] = name
  BY OpsDiffer
<1>2. Holds(Test(name), k, next, env)
  BY <1>1 DEF Holds
<1>. QED
  BY <1>2, OneLinked

LEMMA JmpLinked ==
  ASSUME NEW name, NEW env, NEW k \in Meanings, NEW next \in Meanings, k = env[name]
  PROVE  Linked(<<Jmp(name)>>, k, next, env)
<1>1. Jmp(name)[1] = "jmp" /\ Jmp(name)[2] = name
  BY OpsDiffer
<1>2. Holds(Jmp(name), k, next, env)
  BY <1>1 DEF Holds
<1>. QED
  BY <1>2, OneLinked

LEMMA LabelLinked ==
  ASSUME NEW name, NEW env, NEW k \in Meanings, k = env[name]
  PROVE  Linked(<<Label(name)>>, k, k, env)
<1>1. Label(name)[1] = "label" /\ Label(name)[2] = name
  BY OpsDiffer
<1>2. Holds(Label(name), k, k, env)
  BY <1>1 DEF Holds
<1>. QED
  BY <1>2, OneLinked

(* A jump and a label, as code.                                            *)
LEMMA OneSeq ==
  ASSUME NEW name \in Names
  PROVE  /\ <<Test(name)>> \in Seq(Ops) /\ <<Jmp(name)>> \in Seq(Ops)
         /\ <<Label(name)>> \in Seq(Ops)
  BY JumpLabelled DEF Labelled

(* An if.                                                                  *)
LEMMA IfTranslated ==
  ASSUME FiniteTrees, NEW t \in Tree, t.kind = "if", NEW l \in Nat,
         \A m \in Nat : Translated(Branch(t.then), m)
  PROVE  Translated(t, l)
<1>. SUFFICES ASSUME NEW out \in Meanings
              PROVE  \E env \in Envs : Linked(Instr[t][l].code, Cont(Run[t], out), out, env)
  BY DEF Translated
<1>. DEFINE then == Instr[Branch(t.then)][l + 1]
            F == <<"ENDIF", l>>
            k == Cont(Run[t.then], out)
            K == Cont(Run[t], out)
<1>1. /\ then \in Pieces /\ F \in Names
      /\ Instr[t][l].code = <<Test(F)>> \o then.code \o <<Label(F)>>
  BY IfCode
<1>2. then.code \in Seq(Ops) /\ l + 1 \in Nat /\ F[2] = l
  <2>1. l + 1 \in Nat /\ F[2] = l
    OBVIOUS
  <2>. HIDE DEF then
  <2>2. then.code \in Seq(Ops)
    BY <1>1 DEF Pieces
  <2>. QED
    BY <2>1, <2>2
<1>3. IsStatement(t.then)
  BY TreeAssumption
<1>4. /\ Run[t.then] \in Meanings /\ Run[t] \in Meanings
      /\ Branch(t.then) \in Tree /\ Run[Branch(t.then)] = Run[t.then]
  <2>1. Run[t] \in Meanings
    BY RunIs
  <2>2. t.then \in Tree
    BY <1>3 DEF IsStatement
  <2>. QED
    BY <1>3, <2>1, <2>2, BranchRun
<1>5. OwnLabels(then, l + 1)
  BY <1>2, <1>4, InstrOwnsLabels
<1>6. k \in Meanings /\ K \in Meanings
  BY <1>4, ContTyped
<1>7. PICK e \in Envs : Linked(then.code, k, out, e)
  BY <1>2, <1>4 DEF Translated
<1>8. ASSUME NEW o \in Booleans
      PROVE  K[o] = IF Truth(o) THEN k[Rest(o)] ELSE out[Rest(o)]
  <2>1. Rest(o) \in Booleans
    BY RestTyped
  <2>2. Run[t][o] = IF Truth(o) THEN Run[t.then][Rest(o)] ELSE Nothing(Rest(o))
    <3>1. Run[t][o] = RunRule(Run, t, o)
      BY RunIs
    <3>. QED
      BY <3>1 DEF RunRule
  <2>3. K[o] = Then(Run[t][o], out) /\ k[Rest(o)] = Then(Run[t.then][Rest(o)], out)
    BY <1>4, <2>1, ContTyped
  <2>4. Then(Nothing(Rest(o)), out) = out[Rest(o)]
    <3>1. /\ Nothing(Rest(o)).done = FALSE /\ Nothing(Rest(o)).oracle = Rest(o)
      BY OutcomeFields
    <3>2. out[Rest(o)] \in Outcomes
      BY <2>1, OutcomeTyped
    <3>3. Then(Nothing(Rest(o)), out) = After(Nothing(Rest(o)), out[Rest(o)])
      BY <3>1 DEF Then
    <3>. QED
      BY <2>1, <3>2, <3>3, AfterNothing
  <2>. HIDE DEF k, K
  <2>. QED
    BY <2>2, <2>3, <2>4
<1>. DEFINE A == LabelsOf(then.code)
            g == [name \in Names |-> IF name = F THEN out ELSE e[name]]
<1>. HIDE DEF then, F, k, K
<1>9. A \subseteq Names /\ \A name \in A : name[2] \in Nat /\ l + 1 <= name[2]
  BY <1>1, <1>2, <1>5, OwnedParts
<1>. HIDE DEF A
<1>10. \A name \in A : name # F
  BY <1>2, <1>9
<1>11. g \in Envs /\ g[F] = out /\ \A name \in A : g[name] = e[name]
  BY <1>1, <1>9, <1>10 DEF Envs
<1>. HIDE DEF g
<1>12. Linked(then.code, k, out, g)
  BY <1>1, <1>2, <1>5, <1>7, <1>11, Within DEF A
<1>13. Linked(<<Test(F)>>, K, k, g)
  BY <1>6, <1>8, <1>11, TestLinked
<1>14. Linked(<<Label(F)>>, out, out, g)
  BY <1>11, LabelLinked
<1>15. /\ <<Test(F)>> \in Seq(Ops) /\ <<Label(F)>> \in Seq(Ops)
       /\ <<Test(F)>> \o then.code \in Seq(Ops)
  BY <1>1, <1>2, OneSeq, ConcatPlaces
<1>16. Linked(<<Test(F)>> \o then.code, K, out, g)
  BY <1>2, <1>12, <1>13, <1>15, BothLinked
<1>17. Linked(<<Test(F)>> \o then.code \o <<Label(F)>>, K, out, g)
  BY <1>14, <1>15, <1>16, BothLinked
<1>. QED
  BY <1>1, <1>11, <1>17 DEF K

(* An if with an else branch.                                              *)
LEMMA IfElseTranslated ==
  ASSUME FiniteTrees, NEW t \in Tree, t.kind = "ifelse", NEW l \in Nat,
         \A m \in Nat : Translated(Branch(t.then), m) /\ Translated(Branch(t.else), m)
  PROVE  Translated(t, l)
<1>. SUFFICES ASSUME NEW out \in Meanings
              PROVE  \E env \in Envs : Linked(Instr[t][l].code, Cont(Run[t], out), out, env)
  BY DEF Translated
<1>. DEFINE then == Instr[Branch(t.then)][l + 1]
            else == Instr[Branch(t.else)][then.labelc]
            E == <<"ELSE", l>>
            F == <<"ENDIF", l>>
            k == Cont(Run[t.then], out)
            j == Cont(Run[t.else], out)
            K == Cont(Run[t], out)
<1>1. /\ then \in Pieces /\ else \in Pieces /\ E \in Names /\ F \in Names
      /\ Instr[t][l].code = <<Test(E)>> \o then.code \o <<Jmp(F)>> \o <<Label(E)>>
                              \o else.code \o <<Label(F)>>
  BY IfElseCode
<1>2. /\ then.code \in Seq(Ops) /\ else.code \in Seq(Ops) /\ then.labelc \in Nat
      /\ l + 1 \in Nat /\ E[2] = l /\ F[2] = l /\ E # F
  <2>1. E[2] = l /\ F[2] = l /\ E # F /\ l + 1 \in Nat
    OBVIOUS
  <2>. HIDE DEF then, else
  <2>2. then.code \in Seq(Ops) /\ else.code \in Seq(Ops) /\ then.labelc \in Nat
    BY <1>1 DEF Pieces
  <2>. QED
    BY <2>1, <2>2
<1>3. IsStatement(t.then) /\ IsStatement(t.else)
  BY TreeAssumption
<1>4. /\ Run[t.then] \in Meanings /\ Run[t.else] \in Meanings /\ Run[t] \in Meanings
      /\ Branch(t.then) \in Tree /\ Run[Branch(t.then)] = Run[t.then]
      /\ Branch(t.else) \in Tree /\ Run[Branch(t.else)] = Run[t.else]
  <2>1. Run[t] \in Meanings
    BY RunIs
  <2>2. t.then \in Tree /\ t.else \in Tree
    BY <1>3 DEF IsStatement
  <2>. QED
    BY <1>3, <2>1, <2>2, BranchRun
<1>5. OwnLabels(then, l + 1) /\ OwnLabels(else, then.labelc)
  BY <1>2, <1>4, InstrOwnsLabels
<1>6. k \in Meanings /\ j \in Meanings /\ K \in Meanings
  BY <1>4, ContTyped
<1>7. PICK e \in Envs : Linked(then.code, k, out, e)
  BY <1>2, <1>4 DEF Translated
<1>8. PICK f \in Envs : Linked(else.code, j, out, f)
  BY <1>2, <1>4 DEF Translated
<1>9. ASSUME NEW o \in Booleans
      PROVE  K[o] = IF Truth(o) THEN k[Rest(o)] ELSE j[Rest(o)]
  <2>1. Rest(o) \in Booleans
    BY RestTyped
  <2>2. Run[t][o] = IF Truth(o) THEN Run[t.then][Rest(o)] ELSE Run[t.else][Rest(o)]
    <3>1. Run[t][o] = RunRule(Run, t, o)
      BY RunIs
    <3>. QED
      BY <3>1 DEF RunRule
  <2>3. /\ K[o] = Then(Run[t][o], out) /\ k[Rest(o)] = Then(Run[t.then][Rest(o)], out)
        /\ j[Rest(o)] = Then(Run[t.else][Rest(o)], out)
    BY <1>4, <2>1, ContTyped
  <2>. HIDE DEF k, j, K
  <2>. QED
    BY <2>2, <2>3
<1>. DEFINE A == LabelsOf(then.code)
            B == LabelsOf(else.code)
            g == [name \in Names |-> IF name = F THEN out ELSE IF name = E THEN j
                                     ELSE IF name \in A THEN e[name] ELSE f[name]]
<1>. HIDE DEF then, else, E, F, k, j, K
<1>10. /\ A \subseteq Names /\ B \subseteq Names
       /\ \A name \in A : name[2] \in Nat /\ l + 1 <= name[2] /\ name[2] < then.labelc
       /\ \A name \in B : name[2] \in Nat /\ then.labelc <= name[2]
       /\ l + 1 <= then.labelc
  BY <1>1, <1>2, <1>5, OwnedParts
<1>. HIDE DEF A, B
<1>11. (\A name \in A : name # E /\ name # F) /\ (\A name \in B : name # E /\ name # F)
  BY <1>2, <1>10
<1>12. \A name \in B : name \notin A
  BY <1>2, <1>10
<1>13. g \in Envs
  BY <1>6 DEF Envs
<1>14. /\ g[F] = out /\ g[E] = j
       /\ \A name \in A : g[name] = e[name]
       /\ \A name \in B : g[name] = f[name]
  BY <1>1, <1>2, <1>10, <1>11, <1>12
<1>. HIDE DEF g
<1>15. Linked(then.code, k, out, g)
  BY <1>1, <1>2, <1>5, <1>7, <1>14, Within DEF A
<1>16. Linked(else.code, j, out, g)
  BY <1>1, <1>2, <1>5, <1>8, <1>14, Within DEF B
<1>17. Linked(<<Test(E)>>, K, k, g)
  BY <1>6, <1>9, <1>14, TestLinked
<1>18. Linked(<<Jmp(F)>>, out, j, g) /\ Linked(<<Label(E)>>, j, j, g)
       /\ Linked(<<Label(F)>>, out, out, g)
  BY <1>6, <1>14, JmpLinked, LabelLinked
<1>. DEFINE c1 == <<Test(E)>> \o then.code
            c2 == c1 \o <<Jmp(F)>>
            c3 == c2 \o <<Label(E)>>
            c4 == c3 \o else.code
            c5 == c4 \o <<Label(F)>>
<1>19. /\ <<Test(E)>> \in Seq(Ops) /\ <<Jmp(F)>> \in Seq(Ops)
       /\ <<Label(E)>> \in Seq(Ops) /\ <<Label(F)>> \in Seq(Ops)
  BY <1>1, OneSeq
<1>20. Instr[t][l].code = c5
  BY <1>1
<1>. HIDE DEF c5
<1>21. c1 \in Seq(Ops) /\ Linked(c1, K, out, g)
  BY <1>2, <1>15, <1>17, <1>19, BothLinked, ConcatPlaces
<1>. HIDE DEF c1
<1>22. c2 \in Seq(Ops) /\ Linked(c2, K, j, g)
  BY <1>18, <1>19, <1>21, BothLinked, ConcatPlaces
<1>. HIDE DEF c2
<1>23. c3 \in Seq(Ops) /\ Linked(c3, K, j, g)
  BY <1>18, <1>19, <1>22, BothLinked, ConcatPlaces
<1>. HIDE DEF c3
<1>24. c4 \in Seq(Ops) /\ Linked(c4, K, out, g)
  BY <1>2, <1>16, <1>23, BothLinked, ConcatPlaces
<1>. HIDE DEF c4
<1>25. Linked(c5, K, out, g)
  BY <1>18, <1>19, <1>24, BothLinked DEF c5
<1>. QED
  BY <1>13, <1>20, <1>25 DEF K

(* One round of a loop, then the loop.                                     *)
LEMMA WhileRound ==
  ASSUME FiniteTrees, NEW t \in Tree, t.kind = "while", NEW o \in Booleans
  PROVE  LET r == Run[t.do][Rest(o)] IN
         /\ r \in Outcomes /\ r.oracle \in Booleans /\ r.done \in BOOLEAN
         /\ Run[t.do] \in Meanings /\ Run[t] \in Meanings
         /\ Run[t][o] = IF ~Truth(o) THEN Nothing(Rest(o))
                        ELSE IF r.done THEN r ELSE After(r, Run[t][r.oracle])
<1>. DEFINE once == Run[t.do]
            r == once[Rest(o)]
            L == Loop(once)
<1>1. t.do \in Tree
  BY ChildrenAreTrees DEF Children, Below
<1>2. once \in Meanings /\ Run[t] \in Meanings /\ Shortens(once)
  BY <1>1, RunIs, RunShortens
<1>3. /\ Rest(o) \in Booleans /\ Len(Rest(o)) \in Nat /\ Len(o) \in Nat
      /\ o # <<>> => Len(Rest(o)) = Len(o) - 1
      /\ Truth(o) => o # <<>> /\ Len(o) # 0
  BY RestTyped
<1>4. \A p \in Booleans : Run[t][p] = L[Len(p)][p]
  <2>1. \A p \in Booleans : Run[t][p] = RunRule(Run, t, p)
    BY RunIs
  <2>. QED
    BY <2>1 DEF RunRule
<1>. HIDE DEF once
<1>5. r \in Outcomes /\ r.oracle \in Booleans /\ r.done \in BOOLEAN /\ Len(r.oracle) \in Nat
  BY <1>2, <1>3, OutcomeTyped
<1>6. Len(r.oracle) <= Len(Rest(o))
  BY <1>2, <1>3 DEF Shortens
<1>7. L[Len(o)][o] = LoopRule(L, once, Len(o), o)
  BY <1>2, <1>3, LoopIs
<1>8. CASE ~Truth(o)
  BY <1>2, <1>3, <1>4, <1>5, <1>7, <1>8 DEF LoopRule, once
<1>9. CASE Truth(o)
  <2>1. Len(o) - 1 \in Nat /\ Len(r.oracle) <= Len(o) - 1
    BY <1>3, <1>5, <1>6, <1>9
  <2>2. L[Len(o) - 1][r.oracle] = L[Len(r.oracle)][r.oracle]
    BY <1>2, <1>5, <2>1, LoopStable
  <2>3. L[Len(o) - 1][r.oracle] = Run[t][r.oracle]
    BY <1>4, <1>5, <2>2
  <2>. HIDE DEF L, r
  <2>4. L[Len(o)][o] = IF r.done THEN r ELSE After(r, L[Len(o) - 1][r.oracle])
    BY <1>3, <1>7, <1>9 DEF LoopRule, r
  <2>5. Run[t][o] = IF r.done THEN r ELSE After(r, Run[t][r.oracle])
    BY <1>4, <2>3, <2>4
  <2>. QED
    BY <1>2, <1>5, <1>9, <2>5 DEF r, once
<1>. QED
  BY <1>8, <1>9

(* A loop.                                                                 *)
LEMMA WhileTranslated ==
  ASSUME FiniteTrees, NEW t \in Tree, t.kind = "while", NEW l \in Nat,
         \A m \in Nat : Translated(Branch(t.do), m)
  PROVE  Translated(t, l)
<1>. SUFFICES ASSUME NEW out \in Meanings
              PROVE  \E env \in Envs : Linked(Instr[t][l].code, Cont(Run[t], out), out, env)
  BY DEF Translated
<1>. DEFINE do == Instr[Branch(t.do)][l + 1]
            W == <<"WHILE", l>>
            E == <<"ENDWHILE", l>>
            K == Cont(Run[t], out)
            k == Cont(Run[t.do], K)
<1>1. /\ do \in Pieces /\ W \in Names /\ E \in Names
      /\ Instr[t][l].code = <<Label(W)>> \o <<Test(E)>> \o do.code
                              \o <<Jmp(W)>> \o <<Label(E)>>
  BY WhileCode
<1>2. do.code \in Seq(Ops) /\ l + 1 \in Nat /\ W[2] = l /\ E[2] = l /\ W # E
  <2>1. W[2] = l /\ E[2] = l /\ W # E /\ l + 1 \in Nat
    OBVIOUS
  <2>. HIDE DEF do
  <2>. QED
    BY <1>1, <2>1 DEF Pieces
<1>3. IsStatement(t.do)
  BY TreeAssumption
<1>4. /\ Run[t.do] \in Meanings /\ Run[t] \in Meanings
      /\ Branch(t.do) \in Tree /\ Run[Branch(t.do)] = Run[t.do]
  <2>1. Run[t] \in Meanings
    BY RunIs
  <2>2. t.do \in Tree
    BY <1>3 DEF IsStatement
  <2>. QED
    BY <1>3, <2>1, <2>2, BranchRun
<1>5. OwnLabels(do, l + 1)
  BY <1>2, <1>4, InstrOwnsLabels
<1>6. K \in Meanings
  BY <1>4, ContTyped
<1>7. k \in Meanings
  <2>. HIDE DEF K
  <2>. QED
    BY <1>4, <1>6, ContTyped
<1>8. PICK e \in Envs : Linked(do.code, k, K, e)
  <2>. HIDE DEF K
  <2>. QED
    BY <1>2, <1>4, <1>6 DEF Translated
<1>9. ASSUME NEW o \in Booleans
      PROVE  K[o] = IF Truth(o) THEN k[Rest(o)] ELSE out[Rest(o)]
  <2>. DEFINE r == Run[t.do][Rest(o)]
              s == Run[t][r.oracle]
  <2>1. Rest(o) \in Booleans
    BY RestTyped
  <2>2. /\ r \in Outcomes /\ r.oracle \in Booleans /\ r.done \in BOOLEAN
        /\ Run[t][o] = IF ~Truth(o) THEN Nothing(Rest(o))
                       ELSE IF r.done THEN r ELSE After(r, s)
    BY WhileRound
  <2>3. s \in Outcomes
    BY <1>4, <2>2, OutcomeTyped
  <2>4. K[o] = Then(Run[t][o], out) /\ K[r.oracle] = Then(s, out)
    BY <1>4, <2>2, ContTyped
  <2>5. k[Rest(o)] = Then(r, K)
    <3>. HIDE DEF K
    <3>. QED
      BY <1>4, <1>6, <2>1, ContTyped
  <2>. HIDE DEF r, s, K, k
  <2>6. CASE ~Truth(o)
    <3>1. /\ Nothing(Rest(o)).done = FALSE /\ Nothing(Rest(o)).oracle = Rest(o)
      BY OutcomeFields
    <3>2. out[Rest(o)] \in Outcomes
      BY <2>1, OutcomeTyped
    <3>3. Then(Nothing(Rest(o)), out) = After(Nothing(Rest(o)), out[Rest(o)])
      BY <3>1 DEF Then
    <3>4. Then(Nothing(Rest(o)), out) = out[Rest(o)]
      BY <2>1, <3>2, <3>3, AfterNothing
    <3>. QED
      BY <2>2, <2>4, <2>6, <3>4
  <2>7. CASE Truth(o) /\ r.done
    <3>1. Then(r, K) = r /\ Then(r, out) = r
      BY <2>7 DEF Then
    <3>. QED
      BY <2>2, <2>4, <2>5, <2>7, <3>1
  <2>8. CASE Truth(o) /\ ~r.done
    <3>1. Then(r, K) = After(r, Then(s, out))
      BY <2>4, <2>8 DEF Then
    <3>2. Then(After(r, s), out) = After(r, Then(s, out))
      BY <2>2, <2>3, ThenAfter
    <3>. QED
      BY <2>2, <2>4, <2>5, <2>8, <3>1, <3>2
  <2>. QED
    BY <2>6, <2>7, <2>8
<1>. DEFINE A == LabelsOf(do.code)
            g == [name \in Names |-> IF name = W THEN K ELSE IF name = E THEN out
                                     ELSE e[name]]
<1>. HIDE DEF do, W, E, k, K
<1>10. A \subseteq Names /\ \A name \in A : name[2] \in Nat /\ l + 1 <= name[2]
  BY <1>1, <1>2, <1>5, OwnedParts
<1>. HIDE DEF A
<1>11. \A name \in A : name # W /\ name # E
  BY <1>2, <1>10
<1>12. g \in Envs
  BY <1>6 DEF Envs
<1>13. g[W] = K /\ g[E] = out /\ \A name \in A : g[name] = e[name]
  BY <1>1, <1>2, <1>10, <1>11
<1>. HIDE DEF g
<1>14. Linked(do.code, k, K, g)
  BY <1>1, <1>2, <1>5, <1>8, <1>13, Within DEF A
<1>15. Linked(<<Test(E)>>, K, k, g)
  BY <1>6, <1>7, <1>9, <1>13, TestLinked
<1>16. /\ Linked(<<Label(W)>>, K, K, g) /\ Linked(<<Jmp(W)>>, K, out, g)
       /\ Linked(<<Label(E)>>, out, out, g)
  BY <1>6, <1>13, JmpLinked, LabelLinked
<1>. DEFINE c1 == <<Label(W)>> \o <<Test(E)>>
            c2 == c1 \o do.code
            c3 == c2 \o <<Jmp(W)>>
            c4 == c3 \o <<Label(E)>>
<1>17. /\ <<Label(W)>> \in Seq(Ops) /\ <<Test(E)>> \in Seq(Ops)
       /\ <<Jmp(W)>> \in Seq(Ops) /\ <<Label(E)>> \in Seq(Ops)
  BY <1>1, OneSeq
<1>18. Instr[t][l].code = c4
  BY <1>1
<1>. HIDE DEF c4
<1>19. c1 \in Seq(Ops) /\ Linked(c1, K, k, g)
  BY <1>15, <1>16, <1>17, BothLinked, ConcatPlaces
<1>. HIDE DEF c1
<1>20. c2 \in Seq(Ops) /\ Linked(c2, K, K, g)
  BY <1>2, <1>14, <1>19, BothLinked, ConcatPlaces
<1>. HIDE DEF c2
<1>21. c3 \in Seq(Ops) /\ Linked(c3, K, out, g)
  BY <1>16, <1>17, <1>20, BothLinked, ConcatPlaces
<1>. HIDE DEF c3
<1>22. Linked(c4, K, out, g)
  BY <1>16, <1>17, <1>21, BothLinked DEF c4
<1>. QED
  BY <1>12, <1>18, <1>22 DEF K

(* No statement, a simple one and a return.                                *)
LEMMA LeafTranslated ==
  ASSUME FiniteTrees, NEW t \in Tree, t.kind \in {"none", "simple", "return"}, NEW l \in Nat
  PROVE  Translated(t, l)
<1>. SUFFICES ASSUME NEW out \in Meanings
              PROVE  \E env \in Envs : Linked(Instr[t][l].code, Cont(Run[t], out), out, env)
  BY DEF Translated
<1>. DEFINE K == Cont(Run[t], out)
<1>1. /\ t.id \in Ids /\ Run[t] \in Meanings
      /\ \A o \in Booleans : Run[t][o] = RunRule(Run, t, o)
  BY RunIs DEF Ids
<1>2. K \in Meanings /\ \A o \in Booleans : K[o] = Then(Run[t][o], out)
  BY <1>1, ContTyped
<1>. HIDE DEF K
<1>3. PICK env : env \in Envs
  <2>1. [name \in Names |-> out] \in Envs
    BY DEF Envs
  <2>. QED
    BY <2>1
<1>4. ASSUME NEW c, Instr[t][l].code = c, Linked(c, K, out, env)
      PROVE  \E e \in Envs : Linked(Instr[t][l].code, Cont(Run[t], out), out, e)
  BY <1>3, <1>4 DEF K
<1>5. CASE t.kind = "none"
  <2>1. ASSUME NEW o \in Booleans PROVE K[o] = out[o]
    <3>1. Run[t][o] = Nothing(o) /\ Nothing(o).done = FALSE /\ Nothing(o).oracle = o
      BY <1>1, <1>5, OutcomeFields DEF RunRule
    <3>2. Then(Nothing(o), out) = After(Nothing(o), out[o]) /\ out[o] \in Outcomes
      BY <3>1, OutcomeTyped DEF Then
    <3>. QED
      BY <1>2, <3>1, <3>2, AfterNothing
  <2>2. K = out
    BY <1>2, <2>1 DEF Meanings
  <2>3. Instr[t][l].code = <<>>
    BY <1>5, LeafFields
  <2>. QED
    BY <1>4, <2>2, <2>3, NoneLinked
<1>6. CASE t.kind = "simple"
  <2>1. ASSUME NEW o \in Booleans PROVE K[o] = After(Step(t.id, FALSE, o), out[o])
    <3>1. Run[t][o] = Step(t.id, FALSE, o)
      BY <1>1, <1>6 DEF RunRule
    <3>2. Step(t.id, FALSE, o).done = FALSE /\ Step(t.id, FALSE, o).oracle = o
      BY DEF Step
    <3>. QED
      BY <1>2, <3>1, <3>2 DEF Then
  <2>2. Holds(Do(t.id), K, out, env)
    <3>1. Do(t.id)[1] = "do" /\ Do(t.id)[2] = t.id
      BY OpsDiffer
    <3>. QED
      BY <2>1, <3>1 DEF Holds
  <2>3. Instr[t][l].code = <<Do(t.id)>>
    BY <1>6, LeafFields
  <2>. QED
    BY <1>2, <1>4, <2>2, <2>3, OneLinked
<1>7. CASE t.kind = "return"
  <2>1. ASSUME NEW o \in Booleans PROVE K[o] = Step(t.id, TRUE, o)
    <3>1. Run[t][o] = Step(t.id, TRUE, o) /\ Step(t.id, TRUE, o).done = TRUE
      BY <1>1, <1>7, OutcomeFields DEF RunRule
    <3>. QED
      BY <1>2, <3>1 DEF Then
  <2>2. Holds(Ret(t.id), K, out, env)
    <3>1. Ret(t.id)[1] = "ret" /\ Ret(t.id)[2] = t.id
      BY OpsDiffer
    <3>. QED
      BY <2>1, <3>1 DEF Holds
  <2>3. Instr[t][l].code = <<Ret(t.id)>>
    BY <1>7, LeafFields
  <2>. QED
    BY <1>2, <1>4, <2>2, <2>3, OneLinked
<1>. QED
  BY <1>5, <1>6, <1>7

(* Every tree but a block that stands for a statement.                     *)
LEMMA EveryTranslated ==
  ASSUME FiniteTrees, NoBlockStatements, NEW x \in Tree, x.kind # "block", NEW n \in Nat
  PROVE  Translated(x, n)
<1>. DEFINE T == {t \in Tree : t.kind # "block" => \A l \in Nat : Translated(t, l)}
<1>1. ASSUME NEW t \in Tree, \A s \in Below(t) : s \in T, t.kind # "block", NEW l \in Nat
      PROVE  Translated(t, l)
  <2>1. \A s \in Below(t) : s.kind # "block" => \A m \in Nat : Translated(s, m)
    BY <1>1
  <2>2. ASSUME NEW s \in Tree, IsStatement(s), Branch(s) \in Below(t)
        PROVE  \A m \in Nat : Translated(Branch(s), m)
    <3>1. Branch(s).kind # "block"
      <4>1. CASE s.kind = "block"
        <5>1. IsSuite(s.suite)
          BY <4>1, TreeAssumption
        <5>. QED
          BY <4>1, <5>1 DEF Branch, IsSuite
      <4>2. CASE s.kind # "block"
        BY <4>2 DEF Branch
      <4>. QED
        BY <4>1, <4>2
    <3>. QED
      BY <2>1, <2>2, <3>1
  <2>3. CASE t.kind \in {"none", "simple", "return"}
    BY <2>3, LeafTranslated
  <2>4. CASE t.kind = "suite"
    <3>1. t.first \in Below(t) /\ t.next \in Below(t)
      BY <2>4, BranchBelow
    <3>2. t.first.kind # "block" /\ t.next.kind # "block"
      <4>1. IsSuite(t.next)
        BY <2>4, TreeAssumption
      <4>. QED
        BY <2>4, <4>1 DEF NoBlockStatements, IsSuite
    <3>3. \A m \in Nat : Translated(t.first, m) /\ Translated(t.next, m)
      BY <2>1, <3>1, <3>2
    <3>. QED
      BY <2>4, <3>3, SuiteTranslated
  <2>5. CASE t.kind = "if"
    <3>1. t.then \in Tree /\ IsStatement(t.then) /\ Branch(t.then) \in Below(t)
      BY <2>5, TreeAssumption, BranchBelow DEF IsStatement
    <3>. QED
      BY <2>2, <2>5, <3>1, IfTranslated
  <2>6. CASE t.kind = "ifelse"
    <3>1. /\ t.then \in Tree /\ IsStatement(t.then) /\ Branch(t.then) \in Below(t)
          /\ t.else \in Tree /\ IsStatement(t.else) /\ Branch(t.else) \in Below(t)
      BY <2>6, TreeAssumption, BranchBelow DEF IsStatement
    <3>. QED
      BY <2>2, <2>6, <3>1, IfElseTranslated
  <2>7. CASE t.kind = "while"
    <3>1. t.do \in Tree /\ IsStatement(t.do) /\ Branch(t.do) \in Below(t)
      BY <2>7, TreeAssumption, BranchBelow DEF IsStatement
    <3>. QED
      BY <2>2, <2>7, <3>1, WhileTranslated
  <2>. QED
    BY <1>1, <2>3, <2>4, <2>5, <2>6, <2>7, TreeKinds
<1>2. ASSUME NEW t \in Tree, \A s \in Below(t) : s \in T PROVE t \in T
  BY <1>1, <1>2
<1>3. Tree \subseteq T
  <2>. HIDE DEF T
  <2>. QED
    BY <1>2, TreeInduction
<1>. QED
  BY <1>3

-----------------------------------------------------------------------------
(* What remains to be executed, at every place of the code, is what        *)
(* remains of the source program's run.                                    *)
Explained(K, env) ==
  /\ Means(code, K, env)
  /\ status = "run" /\ pc \in DOMAIN code =>
       /\ wanted.trace = trace \o K[pc][oracle].trace
       /\ wanted.done = K[pc][oracle].done

Follows ==
  /\ oracle \in Booleans /\ trace \in Seq(Ids)
  /\ status \in {"run", "return", "end"}
  /\ \E K : \E env \in Envs : Explained(K, env)
  /\ status = "return" => wanted.trace = trace /\ wanted.done = TRUE
  /\ status = "end" => wanted.trace = trace /\ wanted.done = FALSE
  /\ wanted \in Outcomes /\ \E o \in Booleans : wanted = Run[body][o]

(* The code of a body starts out meaning the whole of it.                  *)
LEMMA BodyLinked ==
  ASSUME FiniteTrees, NoBlockStatements, NEW b \in Bodies
  PROVE  \E out \in Meanings : \E env \in Envs :
           /\ \A o \in Booleans : out[o] = Nothing(o)
           /\ Linked(Code(b), Cont(Run[b], out), out, env)
<1>. DEFINE out == [o \in Booleans |-> Nothing(o)]
            piece == Instr[b][0]
            k == Cont(Run[b], out)
<1>1. out \in Meanings /\ \A o \in Booleans : out[o] = Nothing(o)
  BY OutcomesTyped DEF Meanings
<1>2. /\ b \in Tree /\ b.kind # "block" /\ piece \in Pieces
      /\ Code(b) = (IF piece.returns THEN piece.code ELSE piece.code \o <<End>>)
  BY BodyCode DEF IsSuite
<1>3. piece.code \in Seq(Ops) /\ <<End>> \in Seq(Ops)
  BY <1>2 DEF Pieces, Ops
<1>4. PICK env \in Envs : Linked(piece.code, k, out, env)
  <2>1. Translated(b, 0)
    BY <1>2, EveryTranslated
  <2>. HIDE DEF out
  <2>. QED
    BY <1>1, <2>1 DEF Translated
<1>. HIDE DEF out, piece, k
<1>5. Linked(<<End>>, out, out, env)
  <2>1. Holds(End, out, out, env)
    <3>1. End[1] = "end"
      BY OpsDiffer
    <3>. QED
      BY <1>1, <3>1 DEF Holds
  <2>. QED
    BY <1>1, <2>1, OneLinked
<1>6. Linked(piece.code \o <<End>>, k, out, env)
  BY <1>3, <1>4, <1>5, BothLinked
<1>7. Linked(Code(b), k, out, env)
  BY <1>2, <1>4, <1>6
<1>. QED
  BY <1>1, <1>7 DEF k

LEMMA InitFollows ==
  ASSUME FiniteTrees, NoBlockStatements, Init
  PROVE  Follows
<1>1. /\ body \in Bodies /\ code = Code(body) /\ oracle \in Booleans /\ pc = 1
      /\ trace = <<>> /\ status = "run" /\ wanted = Run[body][oracle]
  BY OraclesAssumption DEF Init, Booleans
<1>2. body \in Tree /\ code \in Seq(Ops)
  BY <1>1, BodyCode
<1>3. Run[body] \in Meanings
  BY <1>2, RunIs
<1>4. PICK out \in Meanings, env \in Envs :
        /\ \A o \in Booleans : out[o] = Nothing(o)
        /\ Linked(code, Cont(Run[body], out), out, env)
  BY <1>1, BodyLinked
<1>5. PICK K : Means(code, K, env) /\ K[1] = Cont(Run[body], out)
  BY <1>4 DEF Linked
<1>6. wanted \in Outcomes /\ wanted.trace \in Seq(Ids)
  BY <1>1, <1>3, OutcomeTyped
<1>7. K[1][oracle] = wanted
  <2>1. K[1][oracle] = Then(Run[body][oracle], out)
    BY <1>1, <1>3, <1>5, ContTyped
  <2>. QED
    BY <1>1, <1>4, <1>6, <2>1, ThenNothing
<1>8. <<>> \o wanted.trace = wanted.trace /\ <<>> \in Seq(Ids)
  BY <1>6
<1>9. Explained(K, env)
  BY <1>1, <1>5, <1>7, <1>8 DEF Explained
<1>. QED
  BY <1>1, <1>6, <1>8, <1>9 DEF Follows

(* A place of the code and what the instruction there says.                *)
LEMMA AtPlace ==
  ASSUME code \in Seq(Ops), NEW K, NEW env, Means(code, K, env), NEW i \in DOMAIN code
  PROVE  /\ Holds(code[i], K[i], K[i + 1], env) /\ code[i] \in Ops
         /\ K[i] \in Meanings /\ K[i + 1] \in Meanings
         /\ code[i][1] = "label" => env[code[i][2]] = K[i] /\ K[i] = K[i + 1]
<1>1. i \in 1 .. Len(code) /\ Len(code) \in Nat /\ code[i] \in Ops
  OBVIOUS
<1>2. i \in 1 .. Len(code) + 1 /\ i + 1 \in 1 .. Len(code) + 1
  BY <1>1
<1>3. /\ Holds(code[i], K[i], K[i + 1], env) /\ K[i] \in Meanings /\ K[i + 1] \in Meanings
  BY <1>1, <1>2 DEF Means
<1>. QED
  BY <1>1, <1>3 DEF Holds

(* A jump leads to where the label's meaning is.                           *)
LEMMA JumpMeans ==
  ASSUME code \in Seq(Ops), NEW K, NEW env, Means(code, K, env), NEW name, Jump(name)
  PROVE  pc' \in DOMAIN code /\ K[pc'] = env[name]
<1>1. pc' \in DOMAIN code /\ code[pc'] = Label(name)
  BY DEF Jump
<1>2. Label(name)[1] = "label" /\ Label(name)[2] = name
  BY OpsDiffer
<1>. QED
  BY <1>1, <1>2, AtPlace

(* A step within the code.                                                 *)
LEMMA StepFollows ==
  ASSUME Follows, NEW K, NEW env \in Envs, Means(code, K, env),
         UNCHANGED <<body, code, wanted, status>>, status = "run",
         oracle' \in Booleans, trace' \in Seq(Ids),
         pc' \in DOMAIN code => /\ wanted.trace = trace' \o K[pc'][oracle'].trace
                                /\ wanted.done = K[pc'][oracle'].done
  PROVE  Follows'
<1>1. Explained(K, env)'
  BY DEF Explained
<1>2. \E o \in Booleans : wanted' = Run[body'][o]
  BY DEF Follows
<1>3. wanted' \in Outcomes /\ status' = "run"
  BY DEF Follows
<1>. QED
  BY <1>1, <1>2, <1>3 DEF Follows

(* The first of what remains is added to the trace.                        *)
LEMMA OneMore ==
  ASSUME NEW a \in Seq(Ids), NEW id \in Ids, NEW b \in Seq(Ids)
  PROVE  Append(a, id) \in Seq(Ids) /\ a \o (<<id>> \o b) = Append(a, id) \o b
<1>1. <<id>> \in Seq(Ids)
  OBVIOUS
<1>2. a \o (<<id>> \o b) = (a \o <<id>>) \o b
  BY <1>1, ConcatAssociative
<1>3. Append(a, id) = a \o <<id>> /\ Append(a, id) \in Seq(Ids)
  BY AppendIsConcat
<1>. QED
  BY <1>2, <1>3

(* An instruction carries out what it means, and what remains is what the  *)
(* next one means.                                                         *)
LEMMA NextFollows ==
  ASSUME code \in Seq(Ops), Follows, [Next]_vars
  PROVE  Follows'
<1>0. PICK K : \E env \in Envs : Explained(K, env)
  BY DEF Follows
<1>1. PICK env \in Envs : Explained(K, env)
  BY <1>0
<1>2. Means(code, K, env)
  BY <1>1 DEF Explained
<1>3. /\ oracle \in Booleans /\ trace \in Seq(Ids)
      /\ wanted \in Outcomes /\ \E o \in Booleans : wanted = Run[body][o]
  BY DEF Follows
<1>. DEFINE x == code[pc]
            k == K[pc]
            next == K[pc + 1]
            at == status = "run" /\ pc \in DOMAIN code
            m == k[oracle]
<1>4. ASSUME at
      PROVE  /\ Holds(x, k, next, env) /\ x \in Ops /\ k \in Meanings /\ next \in Meanings
             /\ wanted.trace = trace \o m.trace /\ wanted.done = m.done
             /\ m \in Outcomes /\ m.trace \in Seq(Ids)
  <2>1. /\ Holds(x, k, next, env) /\ x \in Ops /\ k \in Meanings /\ next \in Meanings
    BY <1>2, <1>4, AtPlace
  <2>2. wanted.trace = trace \o m.trace /\ wanted.done = m.done
    BY <1>1, <1>4 DEF Explained
  <2>3. m \in Outcomes /\ m.trace \in Seq(Ids)
    <3>. HIDE DEF k
    <3>. QED
      BY <1>3, <2>1, OutcomeTyped
  <2>. QED
    BY <2>1, <2>2, <2>3
<1>5. ASSUME UNCHANGED <<body, code, wanted, status>>, status = "run",
             oracle' \in Booleans, trace' \in Seq(Ids),
             pc' \in DOMAIN code => /\ wanted.trace = trace' \o K[pc'][oracle'].trace
                                    /\ wanted.done = K[pc'][oracle'].done
      PROVE  Follows'
  BY <1>2, <1>5, StepFollows
<1>6. CASE DoSimple
  <2>1. /\ at /\ x[1] = "do" /\ UNCHANGED <<body, code, wanted, oracle, status>>
        /\ trace' = Append(trace, x[2]) /\ pc' = pc + 1
    BY <1>6 DEF DoSimple, Fetch, Operand
  <2>. DEFINE r == Step(x[2], FALSE, oracle)
              s == next[oracle]
  <2>2. m = After(r, s)
    BY <1>3, <1>4, <2>1 DEF Holds
  <2>3. x[2] \in Ids
    BY <1>4, <2>1, OpKinds
  <2>4. r \in Outcomes /\ r.trace = <<x[2]>>
    BY <1>3, <2>3, OutcomesTyped DEF Step
  <2>5. s \in Outcomes /\ s.trace \in Seq(Ids)
    <3>. HIDE DEF next
    <3>. QED
      BY <1>3, <1>4, <2>1, OutcomeTyped
  <2>. HIDE DEF r, s
  <2>6. m.trace = <<x[2]>> \o s.trace /\ m.done = s.done
    BY <2>2, <2>4, <2>5, AfterFields
  <2>7. trace' \in Seq(Ids) /\ trace \o (<<x[2]>> \o s.trace) = trace' \o s.trace
    BY <1>3, <2>1, <2>3, <2>5, OneMore
  <2>8. wanted.trace = trace' \o s.trace /\ wanted.done = s.done
    BY <1>4, <2>1, <2>6, <2>7
  <2>9. K[pc'][oracle'] = s
    BY <2>1 DEF s
  <2>. QED
    BY <1>3, <1>5, <2>1, <2>7, <2>8, <2>9
<1>7. CASE DoReturn
  <2>1. /\ at /\ x[1] = "ret" /\ UNCHANGED <<body, code, wanted, oracle>>
        /\ trace' = Append(trace, x[2]) /\ status' = "return"
    BY <1>7 DEF DoReturn, Fetch, Operand
  <2>2. m = Step(x[2], TRUE, oracle)
    BY <1>3, <1>4, <2>1 DEF Holds
  <2>3. x[2] \in Ids
    BY <1>4, <2>1, OpKinds
  <2>4. m.trace = <<x[2]>> /\ m.done = TRUE
    BY <2>2 DEF Step
  <2>5. trace' = trace \o <<x[2]>> /\ trace' \in Seq(Ids)
    BY <1>3, <2>1, <2>3, AppendIsConcat
  <2>6. wanted'.trace = trace' /\ wanted'.done = TRUE
    BY <1>4, <2>1, <2>4, <2>5
  <2>7. Explained(K, env)'
    BY <1>2, <2>1 DEF Explained
  <2>8. \E o \in Booleans : wanted' = Run[body'][o]
    BY <1>3, <2>1
  <2>. QED
    BY <1>3, <2>1, <2>5, <2>6, <2>7, <2>8 DEF Follows
<1>8. CASE DoTest
  <2>1. /\ at /\ x[1] = "test" /\ UNCHANGED <<body, code, wanted, trace, status>>
        /\ (IF Truth(oracle) THEN pc' = pc + 1 ELSE Jump(x[2])) /\ oracle' = Rest(oracle)
    BY <1>8 DEF DoTest, Fetch, Operand
  <2>2. m = IF Truth(oracle) THEN next[Rest(oracle)] ELSE env[x[2]][Rest(oracle)]
    BY <1>3, <1>4, <2>1 DEF Holds
  <2>3. oracle' \in Booleans
    BY <1>3, <2>1, RestTyped
  <2>4. K[pc'][oracle'] = m
    <3>1. CASE Truth(oracle)
      BY <2>1, <2>2, <3>1
    <3>2. CASE ~Truth(oracle)
      <4>1. K[pc'] = env[x[2]]
        BY <1>2, <2>1, <3>2, JumpMeans
      <4>. QED
        BY <2>1, <2>2, <3>2, <4>1
    <3>. QED
      BY <3>1, <3>2
  <2>. HIDE DEF m
  <2>. QED
    BY <1>3, <1>4, <1>5, <2>1, <2>3, <2>4
<1>9. CASE DoJump
  <2>1. /\ at /\ x[1] = "jmp" /\ UNCHANGED <<body, code, wanted, oracle, trace, status>>
        /\ Jump(x[2])
    BY <1>9 DEF DoJump, Fetch, Operand
  <2>2. k = env[x[2]]
    BY <1>4, <2>1 DEF Holds
  <2>3. K[pc'] = env[x[2]]
    BY <1>2, <2>1, JumpMeans
  <2>4. K[pc'][oracle'] = m
    BY <2>1, <2>2, <2>3
  <2>. HIDE DEF m
  <2>. QED
    BY <1>3, <1>4, <1>5, <2>1, <2>4
<1>10. CASE DoLabel
  <2>1. /\ at /\ x[1] = "label" /\ UNCHANGED <<body, code, wanted, oracle, trace, status>>
        /\ pc' = pc + 1
    BY <1>10 DEF DoLabel, Fetch
  <2>2. k = next
    BY <1>4, <2>1 DEF Holds
  <2>3. K[pc'][oracle'] = m
    BY <2>1, <2>2
  <2>. HIDE DEF m
  <2>. QED
    BY <1>3, <1>4, <1>5, <2>1, <2>3
<1>11. CASE DoEnd
  <2>1. /\ at /\ x[1] = "end" /\ UNCHANGED <<body, code, wanted, oracle, trace>>
        /\ status' = "end"
    BY <1>11 DEF DoEnd, Fetch
  <2>2. m = Nothing(oracle)
    BY <1>3, <1>4, <2>1 DEF Holds
  <2>3. m.trace = <<>> /\ m.done = FALSE
    BY <2>2 DEF Nothing
  <2>4. trace \o <<>> = trace
    BY <1>3
  <2>5. wanted'.trace = trace' /\ wanted'.done = FALSE
    BY <1>4, <2>1, <2>3, <2>4
  <2>6. Explained(K, env)'
    BY <1>2, <2>1 DEF Explained
  <2>7. \E o \in Booleans : wanted' = Run[body'][o]
    BY <1>3, <2>1
  <2>. QED
    BY <1>3, <2>1, <2>5, <2>6, <2>7 DEF Follows
<1>12. CASE UNCHANGED vars
  <2>1. Explained(K, env)'
    BY <1>1, <1>12 DEF Explained, vars
  <2>. QED
    BY <1>12, <2>1 DEF Follows, vars
<1>. QED
  BY <1>6, <1>7, <1>8, <1>9, <1>10, <1>11, <1>12 DEF Next

LEMMA AlwaysFollows ==
  ASSUME FiniteTrees, NoBlockStatements
  PROVE  Spec => []Follows
<1>1. Init => Follows
  BY InitFollows
<1>2. Compiled /\ Follows /\ [Next]_vars => Follows'
  <2>1. Compiled => code \in Seq(Ops)
    BY BodyCode DEF Compiled
  <2>. QED
    BY <2>1, NextFollows
<1>. QED
  BY <1>1, <1>2, StaysCompiled, PTL DEF Spec

(* Code that goes on from a trace has it as a prefix.                      *)
LEMMA PrefixOfConcat ==
  ASSUME NEW a \in Seq(Ids), NEW b \in Seq(Ids)
  PROVE  IsPrefix(a, a \o b)
<1>1. /\ Len(a) \in Nat /\ Len(b) \in Nat /\ Len(a \o b) = Len(a) + Len(b)
      /\ a \o b \in Seq(Ids)
  OBVIOUS
<1>2. SubSeq(a \o b, 1, Len(a)) = SubSeq(a, 1, Len(a))
  BY <1>1, SubSeqOfConcat1
<1>. QED
  BY <1>1, <1>2 DEF IsPrefix

(* The machine code of a function does what its source says, statement by  *)
(* statement and whatever its conditions turn out to be, and it returns or *)
(* reaches the end exactly when the source does.                           *)
THEOREM RunsAsWrittenHolds ==
  ASSUME FiniteTrees, NoBlockStatements
  PROVE  Spec => []RunsAsWritten
<1>1. ASSUME Compiled, Follows, NeverThrough PROVE RunsAsWritten
  <2>1. trace \in Seq(Ids) /\ wanted.trace \in Seq(Ids)
    BY <1>1 DEF Follows, Outcomes
  <2>2. IsPrefix(trace, wanted.trace)
    <3>1. CASE status = "run"
      <4>1. PICK K : \E env \in Envs : Explained(K, env)
        BY <1>1 DEF Follows
      <4>2. PICK env \in Envs : Explained(K, env)
        BY <4>1
      <4>3. pc \in DOMAIN code /\ code \in Seq(Ops) /\ Means(code, K, env)
        BY <1>1, <3>1, <4>2, BodyCode DEF NeverThrough, Explained, Compiled
      <4>4. K[pc] \in Meanings /\ oracle \in Booleans
        BY <1>1, <4>3, AtPlace DEF Follows
      <4>. DEFINE rest == K[pc][oracle].trace
      <4>5. rest \in Seq(Ids)
        BY <4>4, OutcomeTyped
      <4>6. wanted.trace = trace \o rest
        BY <3>1, <4>2, <4>3 DEF Explained
      <4>. HIDE DEF rest
      <4>. QED
        BY <2>1, <4>5, <4>6, PrefixOfConcat
    <3>2. CASE status \in {"return", "end"}
      <4>1. wanted.trace = trace /\ trace = trace \o <<>> /\ <<>> \in Seq(Ids)
        BY <1>1, <2>1, <3>2 DEF Follows
      <4>. QED
        BY <2>1, <4>1, PrefixOfConcat
    <3>. QED
      BY <1>1, <3>1, <3>2 DEF Follows
  <2>3. /\ status \in {"return", "end"} => trace = wanted.trace
        /\ status = "return" => wanted.done = TRUE
        /\ status = "end" => wanted.done = FALSE
    BY <1>1 DEF Follows
  <2>. QED
    BY <2>2, <2>3 DEF RunsAsWritten
<1>. QED
  BY <1>1, StaysCompiled, AlwaysFollows, NeverThroughHolds, PTL

(* Control does not reach the end of a function that check_control_flow    *)
(* accepts.                                                                *)
THEOREM AcceptedReturnsHolds ==
  ASSUME FiniteTrees, NoBlockStatements, NoEmptyBodies
  PROVE  Spec => []AcceptedReturns
<1>1. ASSUME Compiled, Follows PROVE AcceptedReturns
  <2>. SUFFICES ASSUME status = "end", Accepted(body) PROVE FALSE
    BY DEF AcceptedReturns
  <2>1. body \in Bodies /\ body \in Tree /\ body.kind = "suite"
    BY <1>1, BodyCode DEF Compiled, NoEmptyBodies
  <2>2. PICK o \in Booleans : wanted = Run[body][o]
    BY <1>1 DEF Follows
  <2>3. wanted.done
    BY <2>1, <2>2, AcceptedAlwaysReturns DEF Booleans
  <2>4. wanted.done = FALSE
    BY <1>1 DEF Follows
  <2>. QED
    BY <2>3, <2>4
<1>. QED
  BY <1>1, StaysCompiled, AlwaysFollows, PTL
=============================================================================
