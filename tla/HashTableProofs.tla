-------------------------- MODULE HashTableProofs --------------------------
(***************************************************************************)
(* Proofs about HashTable, for every set of keys, every hash function and  *)
(* every initial capacity: its invariants, and that it implements          *)
(* SymbolMap, every step of the probing, doubling table being a step of    *)
(* the map it stands for or changing nothing of it.                        *)
(***************************************************************************)
EXTENDS HashTable, FiniteSetTheorems, TLAPS

-----------------------------------------------------------------------------
(* Lemmas about the operators: indices, probes and tables.                 *)

(* The home slot is an index of the table.                                 *)
LEMMA HomeInRange ==
  ASSUME NEW k \in Key, NEW c \in Nat \ {0}
  PROVE  Home(k, c) \in 0 .. c - 1
<1>1. Hash[k] \in Nat
  BY HashAssumption
<1>. QED
  BY <1>1, SMT DEF Home

(* A doubling that did not wrap around is a doubling.                      *)
LEMMA DoubledExact ==
  ASSUME NEW c \in Nat \ {0}, c < SizeModulus, Doubled(c) >= c
  PROVE  Doubled(c) = 2 * c /\ 2 * c < SizeModulus
BY CapacityAssumption DEF Doubled

(* A table with fewer occupied slots than slots has a free one.            *)
LEMMA FreeSlotExists ==
  ASSUME NEW c \in Nat \ {0}, NEW T \in [0 .. c - 1 -> Slot],
         Cardinality(Occupied(T)) < c
  PROVE  \E s \in 0 .. c - 1 : T[s].key = NULL
<1>1. SUFFICES ASSUME \A s \in 0 .. c - 1 : T[s].key # NULL
               PROVE  FALSE
  OBVIOUS
<1>2. Occupied(T) = 0 .. c - 1
  BY <1>1 DEF Occupied
<1>3. Cardinality(0 .. c - 1) = c
  BY FS_Interval
<1>. QED
  BY <1>2, <1>3

(* The occupied slots are a finite set.                                    *)
LEMMA OccupiedFinite ==
  ASSUME NEW c \in Nat \ {0}, NEW T \in [0 .. c - 1 -> Slot]
  PROVE  IsFiniteSet(Occupied(T)) /\ Cardinality(Occupied(T)) \in Nat
<1>1. IsFiniteSet(0 .. c - 1)
  BY FS_Interval
<1>2. Occupied(T) \in SUBSET (0 .. c - 1)
  BY DEF Occupied
<1>. QED
  BY <1>1, <1>2, FS_Subset, FS_CardinalityType

(* A probe that does not find its key is absent from a well-formed table.  *)
LEMMA ProbedAbsent ==
  ASSUME NEW c \in Nat \ {0}, NEW T \in [0 .. c - 1 -> Slot],
         KeysReachable(T, c), NEW k \in Key, NEW i \in 0 .. c - 1,
         ProbedOthers(T, c, k, i), T[i].key = NULL
  PROVE  \A j \in 0 .. c - 1 : T[j].key # k
<1>1. SUFFICES ASSUME NEW j \in 0 .. c - 1, T[j].key = k
               PROVE  FALSE
  OBVIOUS
<1>2. j # i /\ k # NULL
  BY <1>1, NullAssumption
<1>3. Home(k, c) \in 0 .. c - 1
  BY HomeInRange
<1>4. j \in Before(Home(k, c), i, c) \/ i \in Before(Home(k, c), j, c)
  BY <1>2, <1>3 DEF Before
<1>5. CASE j \in Before(Home(k, c), i, c)
  BY <1>5, <1>1 DEF ProbedOthers
<1>6. CASE i \in Before(Home(k, c), j, c)
  BY <1>6, <1>1, <1>2 DEF KeysReachable
<1>. QED
  BY <1>4, <1>5, <1>6

(* Passing an occupied slot of another key keeps the probe on the table    *)
(* and what it has passed: while there is a free slot it cannot come back  *)
(* to its home.                                                            *)
LEMMA AdvanceProbe ==
  ASSUME NEW c \in Nat \ {0}, NEW T \in [0 .. c - 1 -> Slot],
         NEW k \in Key, NEW i \in 0 .. c - 1,
         ProbedOthers(T, c, k, i), T[i].key \notin {NULL, k},
         \E s \in 0 .. c - 1 : T[s].key = NULL
  PROVE  /\ Advance(i, c) \in 0 .. c - 1
         /\ ProbedOthers(T, c, k, Advance(i, c))
<1>. DEFINE h == Home(k, c)
            n == Advance(i, c)
<1>1. h \in 0 .. c - 1
  BY HomeInRange
<1>2. n \in 0 .. c - 1
  BY DEF Advance
<1>3. PICK f \in 0 .. c - 1 : T[f].key = NULL
  OBVIOUS
<1>4. f \notin Before(h, i, c) /\ f # i
  BY <1>3 DEF ProbedOthers
<1>5. ASSUME NEW s \in Before(h, n, c)
      PROVE  s = i \/ s \in Before(h, i, c)
  <2>. HIDE DEF h
  <2>. QED
    BY <1>1, <1>4, <1>5 DEF Before, Advance
<1>6. ProbedOthers(T, c, k, n)
  BY <1>5 DEF ProbedOthers
<1>. QED
  BY <1>2, <1>6

(* A probe that starts at the home slot has passed nothing.                *)
LEMMA StartProbe ==
  ASSUME NEW c \in Nat \ {0}, NEW T, NEW k \in Key
  PROVE  /\ Home(k, c) \in 0 .. c - 1
         /\ ProbedOthers(T, c, k, Home(k, c))
<1>1. Home(k, c) \in 0 .. c - 1
  BY HomeInRange
<1>2. Before(Home(k, c), Home(k, c), c) = {}
  BY <1>1 DEF Before
<1>. QED
  BY <1>1, <1>2 DEF ProbedOthers

(* Storing a key in the free slot its probe ended at keeps the table       *)
(* well formed and occupies one more slot.                                 *)
LEMMA InsertWellFormed ==
  ASSUME NEW c \in Nat \ {0}, NEW T \in [0 .. c - 1 -> Slot],
         SlotsWhole(T), KeysDistinct(T), KeysReachable(T, c),
         NEW k \in Key, NEW v \in Value, NEW i \in 0 .. c - 1,
         ProbedOthers(T, c, k, i), T[i].key = NULL,
         NEW U \in [0 .. c - 1 -> Slot], U[i].key = k, U[i].value = v,
         \A j \in 0 .. c - 1 : j # i => U[j] = T[j]
  PROVE  /\ SlotsWhole(U) /\ KeysDistinct(U) /\ KeysReachable(U, c)
         /\ Occupied(U) = Occupied(T) \cup {i}
         /\ Cardinality(Occupied(U)) = Cardinality(Occupied(T)) + 1
<1>1. k # NULL /\ v # NULL
  BY NullAssumption
<1>2. SlotsWhole(U)
  BY <1>1 DEF SlotsWhole
<1>3. \A j \in 0 .. c - 1 : T[j].key # k
  BY ProbedAbsent
<1>4. KeysDistinct(U)
  BY <1>3 DEF KeysDistinct
<1>5. \A s \in 0 .. c - 1 : T[s].key # NULL => U[s].key # NULL
  BY <1>1
<1>6. KeysReachable(U, c)
  <2>1. SUFFICES ASSUME NEW j \in 0 .. c - 1, U[j].key # NULL,
                        NEW s \in Before(Home(U[j].key, c), j, c)
                 PROVE  U[s].key # NULL
    BY DEF KeysReachable
  <2>2. s \in 0 .. c - 1
    BY <2>1 DEF Before
  <2>3. CASE j = i
    BY <2>1, <2>2, <2>3, <1>5 DEF ProbedOthers
  <2>4. CASE j # i
    BY <2>1, <2>2, <2>4, <1>5 DEF KeysReachable
  <2>. QED
    BY <2>3, <2>4
<1>7. Occupied(U) = Occupied(T) \cup {i}
  BY <1>1 DEF Occupied
<1>8. i \notin Occupied(T) /\ IsFiniteSet(Occupied(T))
  BY OccupiedFinite DEF Occupied
<1>9. Cardinality(Occupied(U)) = Cardinality(Occupied(T)) + 1
  BY <1>7, <1>8, FS_AddElement
<1>. QED
  BY <1>2, <1>4, <1>6, <1>7, <1>9

-----------------------------------------------------------------------------
(* IInv is inductive. *)

(* The empty table that hashtable_new returns satisfies the invariant.     *)
LEMMA InitInvariant == Init => IInv
<1>. SUFFICES ASSUME Init PROVE IInv
  OBVIOUS
<1>. USE DEF Init
<1>1. \A i \in DOMAIN entries : entries[i] = EmptySlot
  BY DEF Calloc
<1>2. Occupied(entries) = {}
  BY <1>1 DEF Occupied, EmptySlot
<1>3. TypeOK
  BY CapacityAssumption DEF TypeOK, Calloc, Slot, Op, NoOp, EmptySlot
<1>4. SlotsWhole(entries) /\ KeysDistinct(entries)
  BY <1>1 DEF SlotsWhole, KeysDistinct, EmptySlot
<1>5. KeysReachable(entries, capacity)
  BY <1>1 DEF KeysReachable, EmptySlot, Calloc
<1>6. LoadBounded
  BY <1>2, CapacityAssumption, FS_EmptySet DEF LoadBounded
<1>. QED
  BY <1>3, <1>4, <1>5, <1>6 DEF IInv, TableWellFormed

(* While a table is at most half full, a probe of it meets a free slot.    *)
LEMMA EntriesHasRoom ==
  ASSUME IInv
  PROVE  \E s \in 0 .. capacity - 1 : entries[s].key = NULL
<1>1. Cardinality(Occupied(entries)) < capacity
  BY DEF IInv, TypeOK, LoadBounded
<1>. QED
  BY <1>1, FreeSlotExists DEF IInv, TypeOK

(* The entries moved so far leave more than half of the new array free.    *)
LEMMA FreshHasRoom ==
  ASSUME IInv, pc \in {"rehash", "reprobe"}
  PROVE  \E s \in 0 .. 2 * capacity - 1 : fresh[s].key = NULL
<1>. DEFINE Moved == {j \in 0 .. scan - 1 : entries[j].key # NULL}
<1>1. TypeOK /\ FreshHolds
  BY DEF IInv
<1>2. IsFiniteSet(0 .. scan - 1) /\ Cardinality(0 .. scan - 1) = scan
  <2>1. scan \in Nat /\ scan - 1 \in Int
    BY <1>1 DEF TypeOK
  <2>2. IsFiniteSet(0 .. scan - 1)
    BY <2>1, FS_Interval
  <2>3. Cardinality(0 .. scan - 1) =
          IF 0 > scan - 1 THEN 0 ELSE scan - 1 - 0 + 1
    BY <2>1, FS_Interval
  <2>. QED
    BY <2>1, <2>2, <2>3
<1>3. Moved \in SUBSET (0 .. scan - 1)
  OBVIOUS
<1>4. Cardinality(Moved) <= scan /\ Cardinality(Moved) \in Nat
  BY <1>2, <1>3, FS_Subset, FS_CardinalityType
<1>5. Cardinality(Occupied(fresh)) = Cardinality(Moved)
  BY <1>1 DEF FreshHolds
<1>6. Cardinality(Occupied(fresh)) < 2 * capacity
  BY <1>1, <1>4, <1>5 DEF TypeOK
<1>. QED
  BY <1>1, <1>6, FreeSlotExists DEF TypeOK

(* hashtable_get changes no slot.                                          *)
LEMMA GetPreserves ==
  ASSUME IInv, (\E k \in Key : CallGet(k)) \/ Get
  PROVE  IInv'
<1>1. CASE \E k \in Key : CallGet(k)
  <2>1. PICK k \in Key : CallGet(k)
    BY <1>1
  <2>2. /\ Home(k, capacity) \in 0 .. capacity - 1
        /\ ProbedOthers(entries, capacity, k, Home(k, capacity))
    BY StartProbe DEF IInv, TypeOK
  <2>3. TypeOK'
    BY <2>1, <2>2 DEF IInv, TypeOK, CallGet, Op, NoOp
  <2>. QED
    BY <2>1, <2>2, <2>3
       DEF CallGet, IInv, TableWellFormed, LoadBounded, ProbedOthers
<1>2. CASE GetHit \/ GetMiss
  <2>1. TypeOK'
    BY <1>2 DEF IInv, TypeOK, GetHit, GetMiss, Op, NoOp, Slot
  <2>. QED
    BY <1>2, <2>1 DEF GetHit, GetMiss, IInv, TableWellFormed, LoadBounded
<1>3. CASE GetAdvance
  <2>1. \E s \in 0 .. capacity - 1 : entries[s].key = NULL
    BY EntriesHasRoom
  <2>2. /\ capacity \in Nat \ {0}
        /\ entries \in [0 .. capacity - 1 -> Slot]
        /\ op.key \in Key
        /\ index \in 0 .. capacity - 1
        /\ ProbedOthers(entries, capacity, op.key, index)
        /\ entries[index].key \notin {NULL, op.key}
    BY <1>3 DEF GetAdvance, IInv, TypeOK
  <2>3. /\ Advance(index, capacity) \in 0 .. capacity - 1
        /\ ProbedOthers(entries, capacity, op.key, Advance(index, capacity))
    BY <2>1, <2>2, AdvanceProbe
  <2>4. TypeOK'
    BY <1>3, <2>3 DEF IInv, TypeOK, GetAdvance
  <2>. QED
    BY <1>3, <2>3, <2>4
       DEF GetAdvance, IInv, TableWellFormed, LoadBounded, ProbedOthers
<1>. QED
  BY <1>1, <1>2, <1>3 DEF Get

(* hashtable_set: the load check leaves room for one more key, and storing *)
(* it where its probe ended keeps every key reachable.                     *)
LEMMA SetPreserves ==
  ASSUME IInv, (\E k \in Key, v \in Value : CallSet(k, v)) \/ Set
  PROVE  IInv'
<1>1. CASE \E k \in Key, v \in Value : CallSet(k, v)
  <2>1. PICK k \in Key, v \in Value : CallSet(k, v)
    BY <1>1
  <2>2. /\ Home(k, capacity) \in 0 .. capacity - 1
        /\ ProbedOthers(entries, capacity, k, Home(k, capacity))
    BY StartProbe DEF IInv, TypeOK
  <2>3. TypeOK'
    BY <2>1, <2>2 DEF IInv, TypeOK, CallSet, Op, NoOp
  <2>4. pc' = "set" => length < capacity \div 2
    BY <2>1 DEF CallSet, MustExpand, IInv, TypeOK
  <2>. QED
    BY <2>1, <2>2, <2>3, <2>4
       DEF CallSet, IInv, TableWellFormed, LoadBounded, ProbedOthers
<1>2. CASE SetInsert
  <2>1. /\ capacity \in Nat \ {0}
        /\ entries \in [0 .. capacity - 1 -> Slot]
        /\ op.key \in Key /\ op.value \in Value
        /\ index \in 0 .. capacity - 1
        /\ ProbedOthers(entries, capacity, op.key, index)
        /\ entries[index].key = NULL
        /\ SlotsWhole(entries) /\ KeysDistinct(entries)
        /\ KeysReachable(entries, capacity)
    BY <1>2 DEF SetInsert, IInv, TypeOK, TableWellFormed
  <2>2. entries' = [entries EXCEPT ![index] =
                      [key |-> op.key, value |-> op.value]]
    BY <1>2 DEF SetInsert
  <2>3. /\ entries' \in [0 .. capacity - 1 -> Slot]
        /\ entries'[index].key = op.key /\ entries'[index].value = op.value
        /\ \A j \in 0 .. capacity - 1 : j # index => entries'[j] = entries[j]
    BY <2>1, <2>2 DEF Slot
  <2>4. /\ SlotsWhole(entries') /\ KeysDistinct(entries')
        /\ KeysReachable(entries', capacity)
        /\ Cardinality(Occupied(entries')) =
             Cardinality(Occupied(entries)) + 1
    BY <2>1, <2>3, InsertWellFormed
  <2>5. TypeOK'
    BY <1>2, <2>3 DEF SetInsert, IInv, TypeOK, Op, NoOp
  <2>6. LoadBounded'
    BY <1>2, <2>4 DEF SetInsert, IInv, TypeOK, LoadBounded
  <2>. QED
    BY <1>2, <2>4, <2>5, <2>6 DEF SetInsert, IInv, TableWellFormed
<1>3. CASE SetNoMemory
  <2>1. TypeOK'
    BY <1>3 DEF IInv, TypeOK, SetNoMemory, Op, NoOp
  <2>. QED
    BY <1>3, <2>1 DEF SetNoMemory, IInv, TableWellFormed, LoadBounded
<1>4. CASE SetOverwrite
  <2>1. /\ capacity \in Nat \ {0}
        /\ entries \in [0 .. capacity - 1 -> Slot]
        /\ op.key \in Key /\ op.value \in Value
        /\ index \in 0 .. capacity - 1
        /\ entries[index].key = op.key
    BY <1>4 DEF SetOverwrite, IInv, TypeOK
  <2>2. /\ entries' = [entries EXCEPT ![index].value = op.value]
        /\ capacity' = capacity /\ length' = length /\ pc' = "idle"
    BY <1>4 DEF SetOverwrite
  <2>3. entries' \in [0 .. capacity - 1 -> Slot]
    BY <2>1, <2>2 DEF Slot
  <2>4. \A i \in 0 .. capacity - 1 :
          /\ entries'[i].key = entries[i].key
          /\ entries'[i].value = IF i = index THEN op.value
                                             ELSE entries[i].value
    BY <2>1, <2>2 DEF Slot
  <2>5. Occupied(entries') = Occupied(entries)
    BY <2>1, <2>3, <2>4 DEF Occupied
  <2>6. SlotsWhole(entries') /\ KeysDistinct(entries')
    BY <2>1, <2>3, <2>4, NullAssumption
       DEF IInv, TableWellFormed, SlotsWhole, KeysDistinct
  <2>7. KeysReachable(entries', capacity)
    BY <2>1, <2>4 DEF IInv, TableWellFormed, KeysReachable, Before
  <2>8. TypeOK'
    BY <1>4, <2>1, <2>3 DEF SetOverwrite, IInv, TypeOK, NoOp, Op
  <2>. QED
    BY <2>2, <2>5, <2>6, <2>7, <2>8 DEF IInv, TableWellFormed, LoadBounded
<1>5. CASE SetAdvance
  <2>1. \E s \in 0 .. capacity - 1 : entries[s].key = NULL
    BY EntriesHasRoom
  <2>2. /\ capacity \in Nat \ {0}
        /\ entries \in [0 .. capacity - 1 -> Slot]
        /\ op.key \in Key
        /\ index \in 0 .. capacity - 1
        /\ ProbedOthers(entries, capacity, op.key, index)
        /\ entries[index].key \notin {NULL, op.key}
    BY <1>5 DEF SetAdvance, IInv, TypeOK
  <2>3. /\ Advance(index, capacity) \in 0 .. capacity - 1
        /\ ProbedOthers(entries, capacity, op.key, Advance(index, capacity))
    BY <2>1, <2>2, AdvanceProbe
  <2>4. TypeOK'
    BY <1>5, <2>3 DEF IInv, TypeOK, SetAdvance
  <2>. QED
    BY <1>5, <2>3, <2>4
       DEF SetAdvance, IInv, TableWellFormed, LoadBounded, ProbedOthers
<1>. QED
  BY <1>1, <1>2, <1>3, <1>4, <1>5 DEF Set

(* Moving one entry: its key is not in the new array yet, since no key has *)
(* two slots in the old one, so its probe ends at a free slot.             *)
LEMMA ReinsertFree ==
  ASSUME IInv, Reinsert
  PROVE  fresh[index].key = NULL
<1>1. SUFFICES ASSUME fresh[index].key = entries[scan].key
               PROVE  FALSE
  BY DEF Reinsert
<1>2. /\ index \in 0 .. 2 * capacity - 1 /\ scan \in 0 .. capacity - 1
      /\ capacity \in Nat
      /\ fresh \in [0 .. 2 * capacity - 1 -> Slot]
      /\ entries \in [0 .. capacity - 1 -> Slot]
      /\ entries[scan].key # NULL
      /\ FreshHolds /\ KeysDistinct(entries)
  BY DEF Reinsert, IInv, TypeOK, TableWellFormed
<1>3. index \in Occupied(fresh)
  BY <1>1, <1>2 DEF Occupied
<1>4. PICK j \in 0 .. scan - 1 : entries[j] = fresh[index]
  BY <1>2, <1>3 DEF FreshHolds
<1>5. j \in 0 .. capacity - 1 /\ j # scan
  BY <1>2, <1>4
<1>. QED
  BY <1>1, <1>2, <1>4, <1>5 DEF KeysDistinct

(* The entries of a prefix, one slot longer.                               *)
LEMMA PrefixGrows ==
  ASSUME IInv, scan \in 0 .. capacity - 1
  PROVE  LET P(n) == {j \in 0 .. n - 1 : entries[j].key # NULL}
         IN  /\ P(scan + 1) = IF entries[scan].key = NULL THEN P(scan)
                              ELSE P(scan) \cup {scan}
             /\ entries[scan].key # NULL =>
                  Cardinality(P(scan + 1)) = Cardinality(P(scan)) + 1
<1>. DEFINE P(n) == {j \in 0 .. n - 1 : entries[j].key # NULL}
<1>1. 0 .. (scan + 1) - 1 = (0 .. scan - 1) \cup {scan}
  OBVIOUS
<1>2. P(scan + 1) = IF entries[scan].key = NULL THEN P(scan)
                    ELSE P(scan) \cup {scan}
  BY <1>1
<1>3. IsFiniteSet(P(scan))
  <2>1. scan - 1 \in Int
    OBVIOUS
  <2>2. IsFiniteSet(0 .. scan - 1)
    BY <2>1, FS_Interval
  <2>. QED
    BY <2>2, FS_Subset
<1>4. scan \notin P(scan)
  OBVIOUS
<1>5. entries[scan].key # NULL =>
        Cardinality(P(scan + 1)) = Cardinality(P(scan)) + 1
  <2>. HIDE DEF P
  <2>. QED
    BY <1>2, <1>3, <1>4, FS_AddElement
<1>. QED
  BY <1>2, <1>5

(* hashtable_expand: the new array holds the entries before scan, each     *)
(* once and reachable; at the end it holds them all.                       *)
LEMMA ExpandPreserves ==
  ASSUME IInv, Expand
  PROVE  IInv'
<1>1. CASE ExpandBegin
  <2>1. Doubled(capacity) = 2 * capacity
    BY <1>1, DoubledExact DEF ExpandBegin, IInv, TypeOK
  <2>2. /\ fresh' \in [0 .. 2 * capacity - 1 -> Slot]
        /\ \A i \in 0 .. 2 * capacity - 1 :
             fresh'[i].key = NULL /\ fresh'[i].value = NULL
    BY <1>1, <2>1 DEF ExpandBegin, Calloc, EmptySlot, Slot
  <2>3. /\ entries' = entries /\ capacity' = capacity /\ scan' = 0
        /\ length' = length /\ op' = op /\ pc' = "rehash"
    BY <1>1 DEF ExpandBegin
  <2>4. TypeOK'
    BY <1>1, <2>1, <2>2 DEF ExpandBegin, IInv, TypeOK
  <2>5. Occupied(fresh') = {}
    BY <2>2 DEF Occupied
  <2>6. {j \in 0 .. scan' - 1 : entries'[j].key # NULL} = {}
    BY <2>3
  <2>7. SlotsWhole(fresh') /\ KeysDistinct(fresh')
    BY <2>2 DEF SlotsWhole, KeysDistinct
  <2>8. KeysReachable(fresh', Doubled(capacity'))
    BY <2>1, <2>2, <2>3 DEF KeysReachable
  <2>9. FreshHolds'
    BY <2>3, <2>5, <2>6, <2>7, <2>8 DEF FreshHolds
  <2>. QED
    BY <2>3, <2>4, <2>9 DEF IInv, TableWellFormed, LoadBounded
<1>2. CASE ExpandFail
  <2>1. TypeOK'
    BY <1>2 DEF IInv, TypeOK, ExpandFail, Op, NoOp
  <2>. QED
    BY <1>2, <2>1 DEF ExpandFail, IInv, TableWellFormed, LoadBounded
<1>3. CASE RehashSkip
  <2>1. scan \in 0 .. capacity - 1 /\ entries[scan].key = NULL
    BY <1>3 DEF RehashSkip, IInv, TypeOK
  <2>2. TypeOK'
    BY <1>3, <2>1 DEF RehashSkip, IInv, TypeOK
  <2>3. {j \in 0 .. (scan + 1) - 1 : entries[j].key # NULL} =
        {j \in 0 .. scan - 1 : entries[j].key # NULL}
    BY <2>1, PrefixGrows
  <2>4. FreshHolds'
    BY <1>3, <2>1, <2>3 DEF RehashSkip, IInv, FreshHolds
  <2>. QED
    BY <1>3, <2>2, <2>4 DEF RehashSkip, IInv, TableWellFormed, LoadBounded
<1>4. CASE RehashEntry
  <2>1. /\ scan \in 0 .. capacity - 1 /\ entries[scan].key \in Key
        /\ Doubled(capacity) = 2 * capacity /\ capacity \in Nat \ {0}
    BY <1>4 DEF RehashEntry, IInv, TypeOK, Slot
  <2>2. LET h == Home(entries[scan].key, Doubled(capacity))
        IN  /\ h \in 0 .. 2 * capacity - 1
            /\ ProbedOthers(fresh, Doubled(capacity), entries[scan].key, h)
    BY <2>1, StartProbe
  <2>3. TypeOK'
    BY <1>4, <2>1, <2>2 DEF RehashEntry, IInv, TypeOK
  <2>. QED
    BY <1>4, <2>2, <2>3
       DEF RehashEntry, IInv, TableWellFormed, LoadBounded, FreshHolds,
           ProbedOthers
<1>5. CASE Reinsert
  <2>1. /\ scan \in 0 .. capacity - 1
        /\ entries \in [0 .. capacity - 1 -> Slot]
        /\ entries[scan].key \in Key /\ entries[scan].value \in Value
        /\ Doubled(capacity) = 2 * capacity /\ capacity \in Nat \ {0}
        /\ 2 * capacity \in Nat \ {0}
        /\ index \in 0 .. 2 * capacity - 1
        /\ fresh \in [0 .. 2 * capacity - 1 -> Slot]
        /\ ProbedOthers(fresh, 2 * capacity, entries[scan].key, index)
    <3>1. /\ scan \in 0 .. capacity - 1
          /\ entries \in [0 .. capacity - 1 -> Slot]
          /\ capacity \in Nat \ {0} /\ Doubled(capacity) = 2 * capacity
          /\ index \in 0 .. 2 * capacity - 1
          /\ fresh \in [0 .. 2 * capacity - 1 -> Slot]
          /\ entries[scan].key # NULL
          /\ ProbedOthers(fresh, Doubled(capacity), entries[scan].key, index)
          /\ SlotsWhole(entries)
      BY <1>5 DEF Reinsert, IInv, TypeOK, TableWellFormed
    <3>2. entries[scan].key \in Key /\ entries[scan].value \in Value
      BY <3>1 DEF Slot, SlotsWhole
    <3>. QED
      BY <3>1, <3>2
  <2>2. fresh[index].key = NULL
    BY <1>5, ReinsertFree
  <2>3. FreshHolds
    BY <1>5 DEF Reinsert, IInv
  <2>4. /\ fresh' \in [0 .. 2 * capacity - 1 -> Slot]
        /\ fresh'[index].key = entries[scan].key
        /\ fresh'[index].value = entries[scan].value
        /\ fresh'[index] = entries[scan]
        /\ \A j \in 0 .. 2 * capacity - 1 : j # index => fresh'[j] = fresh[j]
    BY <1>5, <2>1 DEF Reinsert, Slot
  <2>5. /\ SlotsWhole(fresh') /\ KeysDistinct(fresh')
        /\ KeysReachable(fresh', 2 * capacity)
        /\ Occupied(fresh') = Occupied(fresh) \cup {index}
        /\ Cardinality(Occupied(fresh')) = Cardinality(Occupied(fresh)) + 1
    <3>1. /\ SlotsWhole(fresh) /\ KeysDistinct(fresh)
          /\ KeysReachable(fresh, 2 * capacity)
      BY <2>1, <2>3 DEF FreshHolds
    <3>. DEFINE c == 2 * capacity
    <3>2. c \in Nat \ {0}
      BY <2>1
    <3>. HIDE DEF c
    <3>3. /\ SlotsWhole(fresh') /\ KeysDistinct(fresh')
          /\ KeysReachable(fresh', c)
          /\ Occupied(fresh') = Occupied(fresh) \cup {index}
          /\ Cardinality(Occupied(fresh')) = Cardinality(Occupied(fresh)) + 1
      <4>1. /\ index \in 0 .. c - 1
            /\ fresh \in [0 .. c - 1 -> Slot]
            /\ fresh' \in [0 .. c - 1 -> Slot]
            /\ KeysReachable(fresh, c)
            /\ ProbedOthers(fresh, c, entries[scan].key, index)
            /\ \A j \in 0 .. c - 1 : j # index => fresh'[j] = fresh[j]
        BY <2>1, <2>4, <3>1 DEF c
      <4>2. /\ entries[scan].key \in Key /\ entries[scan].value \in Value
            /\ fresh'[index].key = entries[scan].key
            /\ fresh'[index].value = entries[scan].value
            /\ SlotsWhole(fresh) /\ KeysDistinct(fresh)
        BY <2>1, <2>4, <3>1
      <4>. QED
        BY <2>2, <3>2, <4>1, <4>2, InsertWellFormed
    <3>. QED
      BY <3>3 DEF c
  <2>6. /\ entries' = entries /\ capacity' = capacity /\ scan' = scan + 1
        /\ length' = length /\ op' = op /\ pc' = "rehash"
    BY <1>5 DEF Reinsert
  <2>7. TypeOK'
    BY <1>5, <2>1, <2>4 DEF Reinsert, IInv, TypeOK
  <2>8. Cardinality({j \in 0 .. (scan + 1) - 1 : entries[j].key # NULL}) =
        Cardinality({j \in 0 .. scan - 1 : entries[j].key # NULL}) + 1
    BY <2>1, NullAssumption, PrefixGrows
  <2>9. ASSUME NEW i \in Occupied(fresh')
        PROVE  \E j \in 0 .. (scan + 1) - 1 : entries[j] = fresh'[i]
    <3>1. i \in 0 .. 2 * capacity - 1
      BY <2>4 DEF Occupied
    <3>2. CASE i = index
      BY <2>1, <2>4, <3>2
    <3>3. CASE i # index
      <4>1. i \in Occupied(fresh) /\ fresh'[i] = fresh[i]
        BY <2>4, <2>5, <3>1, <3>3
      <4>2. PICK j \in 0 .. scan - 1 : entries[j] = fresh[i]
        BY <2>3, <4>1 DEF FreshHolds
      <4>. QED
        BY <2>1, <4>1, <4>2
    <3>. QED
      BY <3>2, <3>3
  <2>10. ASSUME NEW j \in 0 .. (scan + 1) - 1, entries[j].key # NULL
         PROVE  \E i \in Occupied(fresh') : fresh'[i] = entries[j]
    <3>1. CASE j = scan
      BY <2>4, <2>5, <3>1
    <3>2. CASE j # scan
      <4>1. j \in 0 .. scan - 1
        BY <2>1, <3>2
      <4>2. PICK i \in Occupied(fresh) : fresh[i] = entries[j]
        BY <2>3, <2>10, <4>1 DEF FreshHolds
      <4>3. i \in 0 .. 2 * capacity - 1 /\ i # index
        BY <2>1, <2>2, <4>2 DEF Occupied
      <4>. QED
        BY <2>4, <2>5, <4>2, <4>3
    <3>. QED
      BY <3>1, <3>2
  <2>11. FreshHolds'
    BY <2>1, <2>3, <2>5, <2>6, <2>8, <2>9, <2>10 DEF FreshHolds
  <2>. QED
    BY <2>6, <2>7, <2>11 DEF IInv, TableWellFormed, LoadBounded
<1>6. CASE ReprobeAdvance
  <2>1. \E s \in 0 .. 2 * capacity - 1 : fresh[s].key = NULL
    BY <1>6, FreshHasRoom DEF ReprobeAdvance
  <2>2. /\ 2 * capacity \in Nat \ {0} /\ Doubled(capacity) = 2 * capacity
        /\ fresh \in [0 .. 2 * capacity - 1 -> Slot]
        /\ scan \in 0 .. capacity - 1
        /\ entries[scan].key \in Key
        /\ index \in 0 .. 2 * capacity - 1
        /\ ProbedOthers(fresh, 2 * capacity, entries[scan].key, index)
        /\ fresh[index].key \notin {NULL, entries[scan].key}
    BY <1>6 DEF ReprobeAdvance, IInv, TypeOK, Slot
  <2>3. LET n == Advance(index, 2 * capacity)
        IN  /\ n \in 0 .. 2 * capacity - 1
            /\ ProbedOthers(fresh, 2 * capacity, entries[scan].key, n)
    BY <2>1, <2>2, AdvanceProbe
  <2>4. TypeOK'
    BY <1>6, <2>2, <2>3 DEF IInv, TypeOK, ReprobeAdvance
  <2>. QED
    BY <1>6, <2>2, <2>3, <2>4
       DEF ReprobeAdvance, IInv, TableWellFormed, LoadBounded, FreshHolds,
           ProbedOthers
<1>7. CASE RehashDone
  <2>1. /\ scan = capacity /\ capacity \in Nat \ {0}
        /\ Doubled(capacity) = 2 * capacity
        /\ op.key \in Key /\ FreshHolds
        /\ entries \in [0 .. capacity - 1 -> Slot]
        /\ fresh \in [0 .. 2 * capacity - 1 -> Slot]
    BY <1>7 DEF RehashDone, IInv, TypeOK
  <2>2. /\ entries' = fresh /\ capacity' = 2 * capacity
        /\ length' = length /\ op' = op /\ pc' = "set"
        /\ index' = Home(op.key, 2 * capacity)
    BY <1>7, <2>1 DEF RehashDone
  <2>3. /\ Home(op.key, 2 * capacity) \in 0 .. 2 * capacity - 1
        /\ ProbedOthers(fresh, 2 * capacity, op.key,
                        Home(op.key, 2 * capacity))
    BY <2>1, StartProbe
  <2>4. 2 * capacity < SizeModulus
    BY <2>1, <1>7, DoubledExact DEF IInv, TypeOK
  <2>5. TypeOK'
    BY <1>7, <2>1, <2>2, <2>3, <2>4 DEF RehashDone, IInv, TypeOK
  <2>6. {j \in 0 .. scan - 1 : entries[j].key # NULL} = Occupied(entries)
    BY <2>1 DEF Occupied
  <2>7. Cardinality(Occupied(fresh)) = length /\ length <= capacity \div 2
    BY <2>1, <2>6 DEF FreshHolds, IInv, LoadBounded
  <2>8. length < (2 * capacity) \div 2 /\ length <= (2 * capacity) \div 2
    BY <2>1, <2>7 DEF IInv, TypeOK
  <2>. QED
    BY <2>1, <2>2, <2>3, <2>5, <2>7, <2>8
       DEF IInv, TableWellFormed, LoadBounded, FreshHolds
<1>. QED
  BY <1>1, <1>2, <1>3, <1>4, <1>5, <1>6, <1>7 DEF Expand

(* The iterator changes no slot and remembers what it has passed.          *)
LEMMA IterPreserves ==
  ASSUME IInv, IterBegin \/ Iterate
  PROVE  IInv'
<1>1. CASE IterBegin
  <2>1. TypeOK'
    BY <1>1 DEF IInv, TypeOK, IterBegin, Op, NoOp
  <2>2. SeenPrefix'
    BY <1>1 DEF IterBegin, SeenPrefix, IInv, TypeOK
  <2>. QED
    BY <1>1, <2>1, <2>2 DEF IterBegin, IInv, TableWellFormed, LoadBounded
<1>2. CASE IterSkip
  <2>1. scan \in 0 .. capacity - 1 /\ entries[scan].key = NULL
    BY <1>2 DEF IterSkip, IInv, TypeOK
  <2>2. TypeOK'
    BY <1>2, <2>1 DEF IterSkip, IInv, TypeOK
  <2>3. {j \in 0 .. (scan + 1) - 1 : entries[j].key # NULL} =
        {j \in 0 .. scan - 1 : entries[j].key # NULL}
    BY <2>1, PrefixGrows
  <2>4. SeenPrefix'
    <3>. DEFINE P(n) == {j \in 0 .. n - 1 : entries[j].key # NULL}
    <3>1. seen = {entries[j].key : j \in P(scan)} /\ P(scan + 1) = P(scan)
      BY <1>2, <2>3 DEF IterSkip, IInv, SeenPrefix
    <3>2. seen' = {entries[j].key : j \in P(scan + 1)}
      BY <1>2, <3>1 DEF IterSkip
    <3>. QED
      BY <1>2, <2>1, <3>2 DEF IterSkip, SeenPrefix, IInv, TypeOK
  <2>. QED
    BY <1>2, <2>2, <2>4 DEF IterSkip, IInv, TableWellFormed, LoadBounded
<1>3. CASE IterYield
  <2>1. scan \in 0 .. capacity - 1 /\ entries[scan].key # NULL
    BY <1>3 DEF IterYield, IInv, TypeOK
  <2>2. entries[scan].key \in Key
    BY <2>1 DEF IInv, TypeOK, Slot
  <2>3. TypeOK'
    BY <1>3, <2>1, <2>2 DEF IterYield, IInv, TypeOK
  <2>4. {j \in 0 .. (scan + 1) - 1 : entries[j].key # NULL} =
        {j \in 0 .. scan - 1 : entries[j].key # NULL} \cup {scan}
    BY <2>1, PrefixGrows
  <2>5. SeenPrefix'
    <3>. DEFINE P(n) == {j \in 0 .. n - 1 : entries[j].key # NULL}
    <3>1. /\ seen = {entries[j].key : j \in P(scan)}
          /\ P(scan + 1) = P(scan) \cup {scan}
      BY <1>3, <2>4 DEF IterYield, IInv, SeenPrefix
    <3>2. seen' = {entries[j].key : j \in P(scan + 1)}
      <4>. HIDE DEF P
      <4>1. seen' = seen \cup {entries[scan].key}
        BY <1>3 DEF IterYield
      <4>. QED
        BY <3>1, <4>1
    <3>. QED
      BY <1>3, <2>1, <3>2 DEF IterYield, SeenPrefix, IInv, TypeOK
  <2>. QED
    BY <1>3, <2>3, <2>5 DEF IterYield, IInv, TableWellFormed, LoadBounded
<1>4. CASE IterEnd
  <2>1. TypeOK'
    BY <1>4 DEF IInv, TypeOK, IterEnd, Op, NoOp
  <2>. QED
    BY <1>4, <2>1 DEF IterEnd, IInv, TableWellFormed, LoadBounded
<1>. QED
  BY <1>1, <1>2, <1>3, <1>4 DEF Iterate

-----------------------------------------------------------------------------
(* IInv holds in every reachable state, whatever the keys, the hash        *)
(* function, the initial capacity and the width of size_t.                 *)
THEOREM Invariance == Spec => []IInv
<1>1. ASSUME IInv, [Next]_vars
      PROVE  IInv'
  <2>1. CASE (\E k \in Key : CallGet(k)) \/ Get
    BY <1>1, <2>1, GetPreserves
  <2>2. CASE (\E k \in Key, v \in Value : CallSet(k, v)) \/ Set
    BY <1>1, <2>2, SetPreserves
  <2>3. CASE Expand
    BY <1>1, <2>3, ExpandPreserves
  <2>4. CASE IterBegin \/ Iterate
    BY <1>1, <2>4, IterPreserves
  <2>5. CASE UNCHANGED vars
    BY <1>1, <2>5
       DEF vars, IInv, TypeOK, TableWellFormed, LoadBounded, FreshHolds,
           SeenPrefix, ProbedOthers
  <2>. QED
    BY <1>1, <2>1, <2>2, <2>3, <2>4, <2>5 DEF Next, Call, Step
<1>. QED
  BY <1>1, InitInvariant, PTL DEF Spec

(* Every variable keeps its type, and every probe index stays within the   *)
(* array it probes.                                                        *)
THEOREM TypeCorrect == Spec => []TypeOK
<1>1. IInv => TypeOK
  BY DEF IInv
<1>. QED
  BY <1>1, Invariance, PTL

(* Each identifier has one slot and a probe from its home reaches it, in   *)
(* every state, in the middle of a rehash too.                             *)
THEOREM WellFormed == Spec => []TableWellFormed
<1>1. IInv => TableWellFormed
  BY DEF IInv
<1>. QED
  BY <1>1, Invariance, PTL

(* length is the number of identifiers, and at least half of the slots are *)
(* free, so that no probe loop runs forever.                               *)
THEOREM NeverOverloaded == Spec => []LoadBounded
<1>1. IInv => LoadBounded
  BY DEF IInv
<1>. QED
  BY <1>1, Invariance, PTL

-----------------------------------------------------------------------------
(* What Lookup sees of a table. *)

(* A key that has a slot is bound to what its only slot holds.             *)
LEMMA LookupFound ==
  ASSUME NEW c \in Nat, NEW T \in [0 .. c - 1 -> Slot], KeysDistinct(T),
         NEW i \in 0 .. c - 1, T[i].key # NULL
  PROVE  Lookup(T, T[i].key) = T[i].value
<1>. DEFINE j == CHOOSE j \in DOMAIN T : T[j].key = T[i].key
<1>1. j \in DOMAIN T /\ T[j].key = T[i].key
  OBVIOUS
<1>2. j = i
  BY <1>1 DEF KeysDistinct
<1>. QED
  BY <1>2 DEF Lookup

(* A key that has no slot is bound to nothing.                             *)
LEMMA LookupAbsent ==
  ASSUME NEW c \in Nat, NEW T \in [0 .. c - 1 -> Slot], NEW k,
         \A i \in 0 .. c - 1 : T[i].key # k
  PROVE  Lookup(T, k) = NULL
BY DEF Lookup

(* The bound keys are the keys of the occupied slots.                      *)
LEMMA BoundIsOccupied ==
  ASSUME NEW c \in Nat, NEW T \in [0 .. c - 1 -> Slot], KeysDistinct(T),
         SlotsWhole(T)
  PROVE  {k \in Key : Lookup(T, k) # NULL} = {T[i].key : i \in Occupied(T)}
<1>1. ASSUME NEW k \in Key, Lookup(T, k) # NULL
      PROVE  k \in {T[i].key : i \in Occupied(T)}
  <2>1. PICK i \in 0 .. c - 1 : T[i].key = k
    BY <1>1, LookupAbsent
  <2>2. i \in Occupied(T)
    BY <2>1, NullAssumption DEF Occupied
  <2>. QED
    BY <2>1, <2>2
<1>2. ASSUME NEW i \in Occupied(T)
      PROVE  T[i].key \in Key /\ Lookup(T, T[i].key) # NULL
  <2>1. i \in 0 .. c - 1 /\ T[i].key # NULL /\ T[i] \in Slot
    BY DEF Occupied
  <2>2. Lookup(T, T[i].key) = T[i].value
    BY <2>1, LookupFound
  <2>. QED
    BY <2>1, <2>2 DEF SlotsWhole, Slot
<1>. QED
  BY <1>1, <1>2

(* The entries of U are those of T, whose slots are below c.               *)
SameEntries(T, U, c) ==
  /\ \A i \in Occupied(U) : \E j \in 0 .. c - 1 : T[j] = U[i]
  /\ \A j \in 0 .. c - 1 : T[j].key # NULL =>
       \E i \in Occupied(U) : U[i] = T[j]

(* Two tables that hold the same entries, at whatever slots, are the same  *)
(* map.                                                                    *)
LEMMA LookupSame ==
  ASSUME NEW c \in Nat, NEW T \in [0 .. c - 1 -> Slot], KeysDistinct(T),
         NEW d \in Nat, NEW U \in [0 .. d - 1 -> Slot], KeysDistinct(U),
         SameEntries(T, U, c), NEW k \in Key
  PROVE  Lookup(U, k) = Lookup(T, k)
<1>0. k # NULL
  BY NullAssumption
<1>1. CASE \E j \in 0 .. c - 1 : T[j].key = k
  <2>1. PICK j \in 0 .. c - 1 : T[j].key = k
    BY <1>1
  <2>2. PICK i \in Occupied(U) : U[i] = T[j]
    BY <1>0, <2>1 DEF SameEntries
  <2>3. i \in 0 .. d - 1 /\ U[i].key = k
    BY <2>1, <2>2 DEF Occupied
  <2>4. Lookup(T, k) = T[j].value
    BY <1>0, <2>1, LookupFound
  <2>5. Lookup(U, k) = U[i].value
    BY <1>0, <2>3, LookupFound
  <2>. QED
    BY <2>2, <2>4, <2>5
<1>2. CASE ~ \E j \in 0 .. c - 1 : T[j].key = k
  <2>1. \A i \in 0 .. d - 1 : U[i].key # k
    <3>1. SUFFICES ASSUME NEW i \in 0 .. d - 1, U[i].key = k
                   PROVE  FALSE
      OBVIOUS
    <3>2. i \in Occupied(U)
      BY <1>0, <3>1 DEF Occupied
    <3>. QED
      BY <1>2, <3>1, <3>2 DEF SameEntries
  <2>2. Lookup(T, k) = NULL
    BY <1>2 DEF Lookup
  <2>3. Lookup(U, k) = NULL
    BY <2>1 DEF Lookup
  <2>. QED
    BY <2>2, <2>3
<1>. QED
  BY <1>1, <1>2

(* U is T with the pair k, v in slot i, which was free or held k.          *)
Stores(T, U, c, i, k, v) ==
  /\ T[i].key \in {NULL, k}
  /\ U[i].key = k /\ U[i].value = v
  /\ \A j \in 0 .. c - 1 : j # i => U[j] = T[j]

(* A table in which one slot was given the key k and the value v, and that *)
(* keeps its keys distinct, binds k to v and every other key as before.    *)
LEMMA LookupStored ==
  ASSUME NEW c \in Nat, NEW T \in [0 .. c - 1 -> Slot], KeysDistinct(T),
         NEW U \in [0 .. c - 1 -> Slot], KeysDistinct(U),
         NEW k \in Key, NEW v \in Value, NEW i \in 0 .. c - 1,
         Stores(T, U, c, i, k, v)
  PROVE  \A q \in Key : Lookup(U, q) = IF q = k THEN v ELSE Lookup(T, q)
<1>1. Lookup(U, k) = v
  BY LookupFound, NullAssumption DEF Stores
<1>2. ASSUME NEW q \in Key, q # k
      PROVE  Lookup(U, q) = Lookup(T, q)
  <2>1. q # NULL
    BY NullAssumption
  <2>2. CASE \E j \in 0 .. c - 1 : T[j].key = q
    <3>1. PICK j \in 0 .. c - 1 : T[j].key = q
      BY <2>2
    <3>2. j # i /\ U[j] = T[j]
      BY <1>2, <2>1, <3>1 DEF Stores
    <3>3. Lookup(T, q) = T[j].value
      BY <2>1, <3>1, LookupFound
    <3>4. Lookup(U, q) = U[j].value
      BY <2>1, <3>1, <3>2, LookupFound
    <3>. QED
      BY <3>2, <3>3, <3>4
  <2>3. CASE ~ \E j \in 0 .. c - 1 : T[j].key = q
    <3>1. \A j \in 0 .. c - 1 : U[j].key # q
      BY <1>2, <2>3 DEF Stores
    <3>2. Lookup(T, q) = NULL
      BY <2>3 DEF Lookup
    <3>3. Lookup(U, q) = NULL
      BY <3>1 DEF Lookup
    <3>. QED
      BY <3>2, <3>3
  <2>. QED
    BY <2>2, <2>3
<1>. QED
  BY <1>1, <1>2

(* The map that a table stands for.                                       *)
Mapping(T) == [k \in Key |-> Lookup(T, k)]

-----------------------------------------------------------------------------
(* The initial states and the steps. *)

(* An empty table is the empty map.                                        *)
LEMMA InitRefines == Init => Abstract!Init
<1>. SUFFICES ASSUME Init PROVE Abstract!Init
  OBVIOUS
<1>1. entries \in [0 .. InitCapacity - 1 -> Slot]
  BY DEF Init, Calloc, EmptySlot, Slot
<1>2. \A i \in 0 .. InitCapacity - 1 : entries[i].key = NULL
  BY DEF Init, Calloc, EmptySlot
<1>3. \A k \in Key : Lookup(entries, k) = NULL
  <2>1. SUFFICES ASSUME NEW k \in Key PROVE Lookup(entries, k) = NULL
    OBVIOUS
  <2>2. \A i \in 0 .. InitCapacity - 1 : entries[i].key # k
    BY <1>2, NullAssumption
  <2>. QED
    BY <1>1, <2>2 DEF Lookup
<1>. QED
  BY <1>3 DEF Init, Abstract!Init, Abstract!NoOp, NoOp

(* hashtable_get: the call is a request, the probes stutter, and what it   *)
(* returns is what the map binds: a free slot on the way means the key has *)
(* no slot at all.                                                         *)
LEMMA GetRefines ==
  ASSUME IInv, (\E k \in Key : CallGet(k)) \/ Get
  PROVE  [Abstract!Next]_(Abstract!vars)
<1>1. CASE \E k \in Key : CallGet(k)
  <2>1. PICK k \in Key : CallGet(k)
    BY <1>1
  <2>2. Abstract!ReqGet(k)
    BY <2>1 DEF IInv, TypeOK, CallGet, Abstract!ReqGet, Abstract!NoOp, NoOp
  <2>. QED
    BY <2>2 DEF Abstract!Next
<1>2. CASE GetHit
  <2>1. /\ entries \in [0 .. capacity - 1 -> Slot] /\ capacity \in Nat
        /\ KeysDistinct(entries) /\ index \in 0 .. capacity - 1
        /\ op.key \in Key /\ op.name = "get" /\ entries[index].key = op.key
    BY <1>2 DEF GetHit, IInv, TypeOK, TableWellFormed
  <2>2. Lookup(entries, op.key) = entries[index].value
    BY <2>1, LookupFound, NullAssumption
  <2>3. Abstract!RespGet
    BY <1>2, <2>1, <2>2 DEF GetHit, Abstract!RespGet, Abstract!NoOp, NoOp
  <2>. QED
    BY <2>3 DEF Abstract!Next
<1>3. CASE GetMiss
  <2>1. /\ entries \in [0 .. capacity - 1 -> Slot] /\ capacity \in Nat \ {0}
        /\ KeysReachable(entries, capacity) /\ index \in 0 .. capacity - 1
        /\ op.key \in Key /\ op.name = "get" /\ entries[index].key = NULL
        /\ ProbedOthers(entries, capacity, op.key, index)
    BY <1>3 DEF GetMiss, IInv, TypeOK, TableWellFormed
  <2>2. \A j \in 0 .. capacity - 1 : entries[j].key # op.key
    BY <2>1, ProbedAbsent
  <2>3. Lookup(entries, op.key) = NULL
    BY <2>1, <2>2, LookupAbsent
  <2>4. Abstract!RespGet
    BY <1>3, <2>1, <2>3 DEF GetMiss, Abstract!RespGet, Abstract!NoOp, NoOp
  <2>. QED
    BY <2>4 DEF Abstract!Next
<1>4. CASE GetAdvance
  BY <1>4 DEF GetAdvance, Abstract!vars
<1>. QED
  BY <1>1, <1>2, <1>3, <1>4 DEF Get

(* hashtable_set: the call is a request; storing the pair binds the key    *)
(* and no other, and without memory nothing is bound or lost.              *)
LEMMA SetRefines ==
  ASSUME IInv, IInv', (\E k \in Key, v \in Value : CallSet(k, v)) \/ Set
  PROVE  [Abstract!Next]_(Abstract!vars)
<1>1. CASE \E k \in Key, v \in Value : CallSet(k, v)
  <2>1. PICK k \in Key, v \in Value : CallSet(k, v)
    BY <1>1
  <2>2. Abstract!ReqSet(k, v)
    BY <2>1 DEF IInv, TypeOK, CallSet, Abstract!ReqSet, Abstract!NoOp, NoOp
  <2>. QED
    BY <2>2 DEF Abstract!Next
<1>2. CASE SetInsert \/ SetOverwrite
  <2>1. /\ entries \in [0 .. capacity - 1 -> Slot] /\ capacity \in Nat
        /\ capacity' = capacity
        /\ KeysDistinct(entries) /\ index \in 0 .. capacity - 1
        /\ op.key \in Key /\ op.name = "set" /\ op.value \in Value
        /\ entries[index].key \in {NULL, op.key}
    BY <1>2 DEF SetInsert, SetOverwrite, IInv, TypeOK, TableWellFormed
  <2>2. entries' \in [0 .. capacity - 1 -> Slot] /\ KeysDistinct(entries')
    BY <2>1 DEF IInv, TypeOK, TableWellFormed
  <2>3. /\ entries'[index].key = op.key /\ entries'[index].value = op.value
        /\ \A j \in 0 .. capacity - 1 : j # index => entries'[j] = entries[j]
        /\ ret' = op.key
    BY <1>2, <2>1 DEF SetInsert, SetOverwrite, Slot
  <2>4. Stores(entries, entries', capacity, index, op.key, op.value)
    BY <2>1, <2>3 DEF Stores
  <2>5. \A q \in Key : Lookup(entries', q) =
                         IF q = op.key THEN op.value ELSE Lookup(entries, q)
    BY <2>1, <2>2, <2>4, LookupStored
  <2>6. Mapping(entries') = [Mapping(entries) EXCEPT ![op.key] = op.value]
    BY <2>1, <2>5 DEF Mapping
  <2>7. Abstract!RespSet
    BY <1>2, <2>1, <2>3, <2>6
       DEF SetInsert, SetOverwrite, Mapping, Abstract!RespSet,
           Abstract!NoOp, NoOp
  <2>. QED
    BY <2>7 DEF Abstract!Next
<1>3. CASE SetNoMemory
  <2>1. Abstract!FailSet
    BY <1>3 DEF SetNoMemory, IInv, TypeOK, Abstract!FailSet, Abstract!NoOp,
                NoOp
  <2>. QED
    BY <2>1 DEF Abstract!Next
<1>4. CASE SetAdvance
  BY <1>4 DEF SetAdvance, Abstract!vars
<1>. QED
  BY <1>1, <1>2, <1>3, <1>4 DEF Set

(* hashtable_expand changes no binding, neither while it fills the new     *)
(* array nor when that array takes the place of the old one.               *)
LEMMA ExpandRefines ==
  ASSUME IInv, Expand
  PROVE  [Abstract!Next]_(Abstract!vars)
<1>1. CASE ExpandFail
  <2>1. Abstract!FailSet
    BY <1>1 DEF ExpandFail, IInv, TypeOK, Abstract!FailSet, Abstract!NoOp,
                NoOp
  <2>. QED
    BY <2>1 DEF Abstract!Next
<1>2. CASE RehashDone
  <2>1. /\ entries \in [0 .. capacity - 1 -> Slot] /\ capacity \in Nat
        /\ KeysDistinct(entries) /\ scan = capacity /\ FreshHolds
        /\ fresh \in [0 .. 2 * capacity - 1 -> Slot]
    BY <1>2 DEF RehashDone, IInv, TypeOK, TableWellFormed
  <2>2. /\ KeysDistinct(fresh)
        /\ SameEntries(entries, fresh, capacity)
    BY <2>1 DEF FreshHolds, SameEntries
  <2>3. \A k \in Key : Lookup(fresh, k) = Lookup(entries, k)
    <3>. DEFINE d == 2 * capacity
    <3>1. fresh \in [0 .. d - 1 -> Slot]
      BY <2>1
    <3>. HIDE DEF d
    <3>. QED
      BY <2>1, <2>2, <3>1, LookupSame
  <2>4. Mapping(entries') = Mapping(entries)
    BY <1>2, <2>3 DEF RehashDone, Mapping
  <2>. QED
    BY <1>2, <2>4 DEF RehashDone, Mapping, Abstract!vars
<1>3. CASE ExpandBegin \/ RehashSkip \/ RehashEntry \/ Reinsert
             \/ ReprobeAdvance
  BY <1>3 DEF ExpandBegin, RehashSkip, RehashEntry, Reinsert,
              ReprobeAdvance, Abstract!vars
<1>. QED
  BY <1>1, <1>2, <1>3 DEF Expand

(* The iterator: an occupied slot holds a key that no earlier slot held,   *)
(* and after the last slot every bound key has been returned.              *)
LEMMA IterRefines ==
  ASSUME IInv, IterBegin \/ Iterate
  PROVE  [Abstract!Next]_(Abstract!vars)
<1>. DEFINE bound == {entries[i].key : i \in Occupied(entries)}
<1>1. /\ entries \in [0 .. capacity - 1 -> Slot] /\ capacity \in Nat \ {0}
      /\ KeysDistinct(entries) /\ SlotsWhole(entries) /\ scan \in Nat
      /\ pc = "iter" => op.name = "iter"
  BY DEF IInv, TypeOK, TableWellFormed
<1>2. {k \in Key : Lookup(entries, k) # NULL} = bound
  BY <1>1, BoundIsOccupied
<1>3. Abstract!Bound = bound
  BY <1>2 DEF Abstract!Bound
<1>4. CASE IterBegin
  <2>1. Abstract!ReqIter
    BY <1>4 DEF IInv, TypeOK, IterBegin, Abstract!ReqIter, Abstract!NoOp,
                NoOp
  <2>. QED
    BY <2>1 DEF Abstract!Next
<1>5. CASE IterSkip
  BY <1>5 DEF IterSkip, Abstract!vars
<1>6. CASE IterYield
  <2>1. /\ scan \in 0 .. capacity - 1 /\ entries[scan].key # NULL
        /\ SeenPrefix /\ op.name = "iter"
    BY <1>1, <1>6 DEF IterYield, IInv
  <2>2. entries[scan].key \in bound
    BY <1>1, <2>1 DEF Occupied
  <2>3. entries[scan].key \notin seen
    <3>1. SUFFICES ASSUME NEW j \in 0 .. scan - 1,
                          entries[j].key = entries[scan].key
                   PROVE  FALSE
      BY <2>1 DEF SeenPrefix
    <3>2. j \in 0 .. capacity - 1 /\ j # scan
      BY <1>1, <2>1
    <3>. QED
      BY <1>1, <2>1, <3>1, <3>2 DEF KeysDistinct
  <2>4. /\ seen' = seen \cup {entries[scan].key}
        /\ ret' = entries[scan].key
        /\ UNCHANGED <<entries, op>>
    BY <1>6 DEF IterYield
  <2>5. Abstract!Yield
    <3>. HIDE DEF bound
    <3>. QED
      BY <1>3, <2>1, <2>2, <2>3, <2>4 DEF Abstract!Yield
  <2>. QED
    BY <2>5 DEF Abstract!Next
<1>7. CASE IterEnd
  <2>1. scan = capacity /\ SeenPrefix /\ op.name = "iter"
    BY <1>1, <1>7 DEF IterEnd, IInv, SeenPrefix
  <2>2. {i \in 0 .. scan - 1 : entries[i].key # NULL} = Occupied(entries)
    BY <1>1, <2>1 DEF Occupied
  <2>3. seen = bound
    BY <2>1, <2>2 DEF SeenPrefix
  <2>4. Abstract!EndIter
    <3>. HIDE DEF bound
    <3>. QED
      BY <1>3, <1>7, <2>1, <2>3
         DEF IterEnd, Abstract!EndIter, Abstract!NoOp, NoOp
  <2>. QED
    BY <2>4 DEF Abstract!Next
<1>. QED
  BY <1>4, <1>5, <1>6, <1>7 DEF Iterate

-----------------------------------------------------------------------------
(* The table is a map, whatever the keys, the hash function, the initial   *)
(* capacity and the width of size_t: a get returns what the last           *)
(* successful set bound, a failed set changes nothing, a rehash changes    *)
(* nothing, and an iteration returns each bound key exactly once before it *)
(* ends.                                                                   *)
THEOREM Refinement == Spec => ImplementsMap
<1>1. ASSUME IInv, IInv', [Next]_vars
      PROVE  [Abstract!Next]_(Abstract!vars)
  <2>1. CASE (\E k \in Key : CallGet(k)) \/ Get
    BY <1>1, <2>1, GetRefines
  <2>2. CASE (\E k \in Key, v \in Value : CallSet(k, v)) \/ Set
    BY <1>1, <2>2, SetRefines
  <2>3. CASE Expand
    BY <1>1, <2>3, ExpandRefines
  <2>4. CASE IterBegin \/ Iterate
    BY <1>1, <2>4, IterRefines
  <2>5. CASE UNCHANGED vars
    BY <2>5 DEF vars, Abstract!vars
  <2>. QED
    BY <1>1, <2>1, <2>2, <2>3, <2>4, <2>5 DEF Next, Call, Step
<1>. QED
  BY <1>1, InitRefines, Invariance, PTL DEF Spec, ImplementsMap, Abstract!Spec
=============================================================================
