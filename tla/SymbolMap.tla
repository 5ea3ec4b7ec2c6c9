----------------------------- MODULE SymbolMap -----------------------------
(***************************************************************************)
(* What a hash table of symbols (src/src/hashtable.h) promises its callers:*)
(* a finite map from identifiers to symbol data.  A call is a request      *)
(* followed by one response; an iteration yields each bound key once.      *)
(* No capacity, no slots, no probing: HashTable.tla is shown to implement  *)
(* this module.                                                            *)
(***************************************************************************)
CONSTANTS Key, Value, NULL

VARIABLES
  map,   \* map[k] is the value bound to k, NULL when k is unbound
  op,    \* the call in progress
  ret,   \* what the last call returned
  seen   \* the keys the current iteration has yielded

vars == <<map, op, ret, seen>>

NoOp == [name |-> "none", key |-> NULL, value |-> NULL]

Bound == {k \in Key : map[k] # NULL}

Init ==
  /\ map = [k \in Key |-> NULL]
  /\ op = NoOp
  /\ ret = NULL
  /\ seen = {}

-----------------------------------------------------------------------------
ReqGet(k) ==
  /\ op = NoOp
  /\ op' = [name |-> "get", key |-> k, value |-> NULL]
  /\ UNCHANGED <<map, ret, seen>>

(* "The value corresponding to the key (or NULL if it doesn't exist)."     *)
RespGet ==
  /\ op.name = "get"
  /\ ret' = map[op.key]
  /\ op' = NoOp
  /\ UNCHANGED <<map, seen>>

ReqSet(k, v) ==
  /\ op = NoOp
  /\ op' = [name |-> "set", key |-> k, value |-> v]
  /\ UNCHANGED <<map, ret, seen>>

RespSet ==
  /\ op.name = "set"
  /\ map' = [map EXCEPT ![op.key] = op.value]
  /\ ret' = op.key
  /\ op' = NoOp
  /\ UNCHANGED seen

(* Out of memory: nothing is bound, and nothing that was bound is lost.    *)
FailSet ==
  /\ op.name = "set"
  /\ ret' = NULL
  /\ op' = NoOp
  /\ UNCHANGED <<map, seen>>

ReqIter ==
  /\ op = NoOp
  /\ op' = [name |-> "iter", key |-> NULL, value |-> NULL]
  /\ seen' = {}
  /\ UNCHANGED <<map, ret>>

Yield ==
  /\ op.name = "iter"
  /\ \E k \in Bound \ seen :
        /\ seen' = seen \cup {k}
        /\ ret' = k
  /\ UNCHANGED <<map, op>>

EndIter ==
  /\ op.name = "iter"
  /\ seen = Bound
  /\ ret' = NULL
  /\ op' = NoOp
  /\ UNCHANGED <<map, seen>>

Next ==
  \/ \E k \in Key : ReqGet(k)
  \/ \E k \in Key, v \in Value : ReqSet(k, v)
  \/ ReqIter
  \/ RespGet \/ RespSet \/ FailSet \/ Yield \/ EndIter

Spec == Init /\ [][Next]_vars
=============================================================================
