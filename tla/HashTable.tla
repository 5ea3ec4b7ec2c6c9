----------------------------- MODULE HashTable -----------------------------
(***************************************************************************)
(* The open-addressing hash table of src/src/hashtable.c: linear probing,  *)
(* doubling when half full, and a cursor-based iterator.  Every iteration  *)
(* of a loop of the C code is a step of its own.                           *)
(***************************************************************************)
EXTENDS Naturals, FiniteSets

CONSTANTS
  Key,           \* the identifiers, compared by strcmp
  Value,         \* the TPCData pointers
  NULL,
  Hash,          \* hash_key: FNV-1a, any function of the key
  InitCapacity,  \* INIT_CAPACITY (32)
  SizeModulus    \* 2^w for the w bits of size_t

ASSUME NullAssumption == NULL \notin Key /\ NULL \notin Value
ASSUME HashAssumption == Hash \in [Key -> Nat]
ASSUME CapacityAssumption ==
  /\ InitCapacity \in Nat \ {0}
  /\ SizeModulus \in Nat
  /\ InitCapacity < SizeModulus

VARIABLES
  entries,   \* table->entries, a slot for each index below capacity
  capacity,  \* table->capacity
  length,    \* table->length
  pc,        \* where the C code is: "idle" between calls
  op,        \* the call in progress and its arguments
  ret,       \* what the last call returned
  index,     \* the probe index of get and set_entry
  fresh,     \* new_entries of hashtable_expand
  scan,      \* the index i of hashtable_expand, _index of the iterator
  seen       \* the keys the current iteration has returned

vars == <<entries, capacity, length, pc, op, ret, index, fresh, scan, seen>>

NoOp == [name |-> "none", key |-> NULL, value |-> NULL]

EmptySlot == [key |-> NULL, value |-> NULL]

(* calloc: every slot of the new array is empty.                           *)
Calloc(c) == [i \in 0 .. c - 1 |-> EmptySlot]

(* hash & (capacity - 1), for a capacity that is a power of two.           *)
Home(k, c) == Hash[k] % c

(* Mutant: the wrap-around test is > instead of >=.                        *)
AdvanceLate(i, c) == IF i + 1 > c THEN 0 ELSE i + 1

(* index++; if (index >= capacity) index = 0;                              *)
Advance(i, c) == IF i + 1 >= c THEN 0 ELSE i + 1

(* capacity * 2 in size_t: the product wraps around SizeModulus.           *)
Doubled(c) == IF 2 * c < SizeModulus THEN 2 * c ELSE 2 * c - SizeModulus

Occupied(T) == {i \in DOMAIN T : T[i].key # NULL}

Init ==
  /\ entries = Calloc(InitCapacity)
  /\ capacity = InitCapacity
  /\ length = 0
  /\ pc = "idle"
  /\ op = NoOp
  /\ ret = NULL
  /\ index = 0
  /\ fresh = <<>>
  /\ scan = 0
  /\ seen = {}

-----------------------------------------------------------------------------
(* hashtable_get *)

CallGet(k) ==
  /\ pc = "idle"
  /\ op' = [name |-> "get", key |-> k, value |-> NULL]
  /\ index' = Home(k, capacity)
  /\ pc' = "get"
  /\ UNCHANGED <<entries, capacity, length, ret, fresh, scan, seen>>

GetHit ==
  /\ pc = "get"
  /\ entries[index].key = op.key
  /\ ret' = entries[index].value
  /\ pc' = "idle"
  /\ op' = NoOp
  /\ UNCHANGED <<entries, capacity, length, index, fresh, scan, seen>>

GetMiss ==
  /\ pc = "get"
  /\ entries[index].key = NULL
  /\ ret' = NULL
  /\ pc' = "idle"
  /\ op' = NoOp
  /\ UNCHANGED <<entries, capacity, length, index, fresh, scan, seen>>

GetAdvance ==
  /\ pc = "get"
  /\ entries[index].key \notin {NULL, op.key}
  /\ index' = Advance(index, capacity)
  /\ UNCHANGED <<entries, capacity, length, pc, op, ret, fresh, scan, seen>>

-----------------------------------------------------------------------------
(* hashtable_set: the load check, then set_entry on entries.  Its only     *)
(* caller, add_symbol, asserts that the value is not NULL.                 *)

(* Mutant: the load check is forgotten.                                    *)
NeverExpand == FALSE

(* Mutant: the table expands one key too late.                             *)
ExpandLate == length > capacity \div 2

MustExpand == length >= capacity \div 2

CallSet(k, v) ==
  /\ pc = "idle"
  /\ v # NULL
  /\ op' = [name |-> "set", key |-> k, value |-> v]
  /\ IF MustExpand
     THEN pc' = "expand" /\ UNCHANGED index
     ELSE pc' = "set" /\ index' = Home(k, capacity)
  /\ UNCHANGED <<entries, capacity, length, ret, fresh, scan, seen>>

(* hashtable_set_entry with plength: a free slot takes the new key.        *)
SetInsert ==
  /\ pc = "set"
  /\ entries[index].key = NULL
  /\ entries' = [entries EXCEPT ![index] =
                   [key |-> op.key, value |-> op.value]]
  /\ length' = length + 1
  /\ ret' = op.key
  /\ pc' = "idle"
  /\ op' = NoOp
  /\ UNCHANGED <<capacity, index, fresh, scan, seen>>

(* strdup of the key returns NULL.                                         *)
SetNoMemory ==
  /\ pc = "set"
  /\ entries[index].key = NULL
  /\ ret' = NULL
  /\ pc' = "idle"
  /\ op' = NoOp
  /\ UNCHANGED <<entries, capacity, length, index, fresh, scan, seen>>

SetOverwrite ==
  /\ pc = "set"
  /\ entries[index].key = op.key
  /\ entries' = [entries EXCEPT ![index].value = op.value]
  /\ ret' = entries[index].key
  /\ pc' = "idle"
  /\ op' = NoOp
  /\ UNCHANGED <<capacity, length, index, fresh, scan, seen>>

SetAdvance ==
  /\ pc = "set"
  /\ entries[index].key \notin {NULL, op.key}
  /\ index' = Advance(index, capacity)
  /\ UNCHANGED <<entries, capacity, length, pc, op, ret, fresh, scan, seen>>

-----------------------------------------------------------------------------
(* hashtable_expand *)

ExpandBegin ==
  /\ pc = "expand"
  /\ Doubled(capacity) >= capacity
  /\ fresh' = Calloc(Doubled(capacity))
  /\ scan' = 0
  /\ pc' = "rehash"
  /\ UNCHANGED <<entries, capacity, length, op, ret, index, seen>>

(* The doubled capacity overflows, or calloc fails: set returns NULL.      *)
ExpandFail ==
  /\ pc = "expand"
  /\ ret' = NULL
  /\ pc' = "idle"
  /\ op' = NoOp
  /\ UNCHANGED <<entries, capacity, length, index, fresh, scan, seen>>

RehashSkip ==
  /\ pc = "rehash"
  /\ scan < capacity
  /\ entries[scan].key = NULL
  /\ scan' = scan + 1
  /\ UNCHANGED <<entries, capacity, length, pc, op, ret, index, fresh, seen>>

(* Mutant: the home in the new array is computed with the old capacity.    *)
RehashOldHome ==
  /\ pc = "rehash"
  /\ scan < capacity
  /\ entries[scan].key # NULL
  /\ index' = Home(entries[scan].key, capacity)
  /\ pc' = "reprobe"
  /\ UNCHANGED <<entries, capacity, length, op, ret, fresh, scan, seen>>

RehashEntry ==
  /\ pc = "rehash"
  /\ scan < capacity
  /\ entries[scan].key # NULL
  /\ index' = Home(entries[scan].key, Doubled(capacity))
  /\ pc' = "reprobe"
  /\ UNCHANGED <<entries, capacity, length, op, ret, fresh, scan, seen>>

(* Mutant: the moved slot gets the value of the pending set.               *)
ReinsertPending ==
  /\ pc = "reprobe"
  /\ fresh[index].key \in {NULL, entries[scan].key}
  /\ fresh' = [fresh EXCEPT ![index] =
                 [key |-> entries[scan].key, value |-> op.value]]
  /\ scan' = scan + 1
  /\ pc' = "rehash"
  /\ UNCHANGED <<entries, capacity, length, op, ret, index, seen>>

(* hashtable_set_entry without plength, on new_entries: the key is moved.  *)
Reinsert ==
  /\ pc = "reprobe"
  /\ fresh[index].key \in {NULL, entries[scan].key}
  /\ fresh' = [fresh EXCEPT ![index] =
                 [key |-> entries[scan].key, value |-> entries[scan].value]]
  /\ scan' = scan + 1
  /\ pc' = "rehash"
  /\ UNCHANGED <<entries, capacity, length, op, ret, index, seen>>

ReprobeAdvance ==
  /\ pc = "reprobe"
  /\ fresh[index].key \notin {NULL, entries[scan].key}
  /\ index' = Advance(index, Doubled(capacity))
  /\ UNCHANGED <<entries, capacity, length, pc, op, ret, fresh, scan, seen>>

(* The old array is freed, and set goes on to set_entry on the new one.    *)
RehashDone ==
  /\ pc = "rehash"
  /\ scan = capacity
  /\ entries' = fresh
  /\ capacity' = Doubled(capacity)
  /\ fresh' = <<>>
  /\ index' = Home(op.key, Doubled(capacity))
  /\ pc' = "set"
  /\ UNCHANGED <<length, op, ret, scan, seen>>

-----------------------------------------------------------------------------
(* hashtable_iterator_of and hashtable_iterator_next.  No caller changes   *)
(* the table it iterates over: print_table only reads, and add_typesvars   *)
(* iterates over a struct's table while it adds to another one.            *)

IterBegin ==
  /\ pc = "idle"
  /\ op' = [name |-> "iter", key |-> NULL, value |-> NULL]
  /\ scan' = 0
  /\ seen' = {}
  /\ pc' = "iter"
  /\ UNCHANGED <<entries, capacity, length, ret, index, fresh>>

IterSkip ==
  /\ pc = "iter"
  /\ scan < capacity
  /\ entries[scan].key = NULL
  /\ scan' = scan + 1
  /\ UNCHANGED <<entries, capacity, length, pc, op, ret, index, fresh, seen>>

IterYield ==
  /\ pc = "iter"
  /\ scan < capacity
  /\ entries[scan].key # NULL
  /\ scan' = scan + 1
  /\ ret' = entries[scan].key
  /\ seen' = seen \cup {entries[scan].key}
  /\ UNCHANGED <<entries, capacity, length, pc, op, index, fresh>>

(* Mutant: the loop stops before the last slot.                            *)
IterEndEarly ==
  /\ pc = "iter"
  /\ scan + 1 >= capacity
  /\ ret' = NULL
  /\ pc' = "idle"
  /\ op' = NoOp
  /\ UNCHANGED <<entries, capacity, length, index, fresh, scan, seen>>

IterEnd ==
  /\ pc = "iter"
  /\ scan >= capacity
  /\ ret' = NULL
  /\ pc' = "idle"
  /\ op' = NoOp
  /\ UNCHANGED <<entries, capacity, length, index, fresh, scan, seen>>

-----------------------------------------------------------------------------
Get == GetHit \/ GetMiss \/ GetAdvance
Set == SetInsert \/ SetNoMemory \/ SetOverwrite \/ SetAdvance
Expand ==
  \/ ExpandBegin \/ ExpandFail
  \/ RehashSkip \/ RehashEntry \/ Reinsert \/ ReprobeAdvance \/ RehashDone
Iterate == IterSkip \/ IterYield \/ IterEnd

(* A step inside a call; the calls themselves are the caller's choice.     *)
Step == Get \/ Set \/ Expand \/ Iterate

Call ==
  \/ \E k \in Key : CallGet(k)
  \/ \E k \in Key, v \in Value : CallSet(k, v)
  \/ IterBegin

Next == Call \/ Step

Spec == Init /\ [][Next]_vars

(* The code is sequential: a call that can take a step takes it.           *)
FairSpec == Spec /\ WF_vars(Step)

-----------------------------------------------------------------------------
(* The type invariant.                                                     *)
Slot == [key : Key \cup {NULL}, value : Value \cup {NULL}]

Op == [name : {"none", "get", "set", "iter"},
       key : Key \cup {NULL}, value : Value \cup {NULL}]

TypeOK ==
  /\ capacity \in Nat \ {0} /\ capacity < SizeModulus
  /\ entries \in [0 .. capacity - 1 -> Slot]
  /\ length \in Nat
  /\ pc \in {"idle", "get", "set", "expand", "rehash", "reprobe", "iter"}
  /\ op \in Op
  /\ ret \in Key \cup Value \cup {NULL}
  /\ index \in Nat
  /\ scan \in Nat
  /\ seen \subseteq Key
  /\ pc \in {"get", "set"} => index < capacity
  /\ pc \in {"get", "set", "expand", "rehash", "reprobe"} => op.key \in Key
  /\ pc \in {"set", "expand", "rehash", "reprobe"} =>
       op.name = "set" /\ op.value \in Value
  /\ pc = "get" => op.name = "get"
  /\ pc = "iter" => op.name = "iter"
  /\ pc = "idle" => op = NoOp
  /\ pc \in {"rehash", "reprobe"} =>
       /\ Doubled(capacity) = 2 * capacity
       /\ fresh \in [0 .. 2 * capacity - 1 -> Slot]
       /\ scan <= capacity
  /\ pc = "reprobe" => index < 2 * capacity /\ scan < capacity

(* An occupied slot holds a value, a free one does not.                    *)
SlotsWhole(T) ==
  \A i \in DOMAIN T : IF T[i].key = NULL THEN T[i].value = NULL
                                         ELSE T[i].value # NULL

(* No key sits in two slots.                                               *)
KeysDistinct(T) ==
  \A i, j \in DOMAIN T : T[i].key # NULL /\ T[i].key = T[j].key => i = j

(* The slots that a probe from home visits before slot j.                  *)
Before(home, j, c) ==
  {s \in 0 .. c - 1 : IF home <= j THEN home <= s /\ s < j
                                   ELSE home <= s \/ s < j}

(* A lookup stops at the first free slot, so a key is found only when no   *)
(* slot between its home and its place is free.                            *)
KeysReachable(T, c) ==
  \A j \in 0 .. c - 1 : T[j].key # NULL =>
    \A s \in Before(Home(T[j].key, c), j, c) : T[s].key # NULL

(* Safety of the stored table in every state, in the middle of a rehash    *)
(* too: each identifier has one slot, and a probe from its home reaches    *)
(* that slot (hashtable_get stops at the first NULL key).                  *)
TableWellFormed ==
  /\ SlotsWhole(entries)
  /\ KeysDistinct(entries)
  /\ KeysReachable(entries, capacity)

(* length counts the occupied slots, and at most half of them are, which   *)
(* is what the load check of hashtable_set is for: a probe always meets a  *)
(* free slot.  Both survive failed allocations and rehashing.              *)
LoadBounded ==
  /\ length = Cardinality(Occupied(entries))
  /\ length <= capacity \div 2

(* A probe for k that has come to slot i passed only slots of other keys.  *)
ProbedOthers(T, c, k, i) ==
  \A s \in Before(Home(k, c), i, c) : T[s].key \notin {NULL, k}

(* What the half-built array holds: the entries before scan, each once.    *)
FreshHolds ==
  /\ SlotsWhole(fresh)
  /\ KeysDistinct(fresh)
  /\ KeysReachable(fresh, Doubled(capacity))
  /\ \A i \in Occupied(fresh) : \E j \in 0 .. scan - 1 : entries[j] = fresh[i]
  /\ \A j \in 0 .. scan - 1 : entries[j].key # NULL =>
       \E i \in Occupied(fresh) : fresh[i] = entries[j]
  /\ Cardinality(Occupied(fresh)) =
       Cardinality({j \in 0 .. scan - 1 : entries[j].key # NULL})

(* The keys the iterator has returned are those of the slots before it.    *)
SeenPrefix ==
  /\ scan <= capacity
  /\ seen = {entries[j].key : j \in {i \in 0 .. scan - 1 : entries[i].key # NULL}}

(* The inductive invariant of the proofs.                                  *)
IInv ==
  /\ TypeOK
  /\ TableWellFormed
  /\ LoadBounded
  /\ pc \in {"get", "set"} => ProbedOthers(entries, capacity, op.key, index)
  /\ pc = "set" => length < capacity \div 2
  /\ pc \in {"rehash", "reprobe"} => FreshHolds
  /\ pc = "reprobe" =>
       /\ entries[scan].key # NULL
       /\ ProbedOthers(fresh, Doubled(capacity), entries[scan].key, index)
  /\ pc = "iter" => SeenPrefix

-----------------------------------------------------------------------------
(* Refinement: forget the slots.                                           *)
Lookup(T, k) ==
  IF \E i \in DOMAIN T : T[i].key = k
  THEN T[CHOOSE i \in DOMAIN T : T[i].key = k].value
  ELSE NULL

Abstract == INSTANCE SymbolMap WITH map <- [k \in Key |-> Lookup(entries, k)]

(* The hash table is a map: a get returns what the last successful set     *)
(* bound, through collisions, wrap-around and rehashing, a failed set      *)
(* changes nothing, and an iteration returns each bound key exactly once.  *)
ImplementsMap == Abstract!Spec

(* Every call returns: a probe loop meets its key or a free slot, and a    *)
(* rehash ends, whatever the hash function.                                *)
CallsReturn == pc # "idle" ~> pc = "idle"
=============================================================================
