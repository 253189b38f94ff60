---------------------------- MODULE ResponseCache ----------------------------
(***************************************************************************)
(* core/cache.py: cached functions, updates that invalidate, warming and   *)
(* the direct operations, interleaved call by call on Redis, any of whose  *)
(* calls may fail, with or without its effect.                             *)
(*                                                                         *)
(* A value is the version of the datum it was computed from.  All keys     *)
(* share one prefix, which is the pattern of every invalidation.  Expiry   *)
(* may come at any time: how long a ttl is does not matter here.           *)
(***************************************************************************)
EXTENDS Naturals, FiniteSets, Functions

CONSTANTS
    Callers,      \* concurrent tasks
    Keys,         \* arguments of the cached function, each with its key
    MaxUpdates    \* bound: updates of one datum

ASSUME CacheAssumption == MaxUpdates \in Nat

VARIABLES
    data,      \* the version of each datum
    store,     \* Redis: key -> the value and whether it was old when stored
    call,      \* the call of each task
    failed     \* keys that an invalidation failed to reach, while they last

vars == <<data, store, call, failed>>

Operations == {"cached", "update", "warm", "force", "get", "set", "delete"}

\* No call.  old: the datum has been updated since the call read it.
Idle == [op |-> "none", at |-> "none", key |-> "none", value |-> 0, old |-> FALSE, keys |-> {}]

Stored == DOMAIN store
Without(keys) == Restrict(store, Stored \ keys)
Go(c, step) == call' = [call EXCEPT ![c].at = step]
Return(c) == call' = [call EXCEPT ![c] = Idle]

\* Mutant of Matching: a pattern with the argument, as the module's example has
\* it, where the keys hold a hash of the arguments.
MatchingArgument(key) == {}

\* The keys that the pattern of an update finds.
Matching(key) == Stored

-----------------------------------------------------------------------------
First(op) ==
    CASE op \in {"cached", "warm", "get"}  -> "look"
      [] op \in {"force", "set", "update"} -> "func"
      [] op = "delete"                     -> "delete"

Begin(c, op, key) ==
    /\ call[c] = Idle
    /\ op = "update" => data[key] < MaxUpdates
    /\ call' = [call EXCEPT ![c] = [Idle EXCEPT
                    !.op = op, !.at = First(op), !.key = key,
                    !.keys = IF op = "delete" THEN {key} ELSE {}]]
    /\ UNCHANGED <<data, store, failed>>

\* get, or exists: a value that is there is the answer.
Look(c) ==
    /\ call[c].at = "look" /\ call[c].op # "get"
    /\ IF call[c].key \in Stored THEN Return(c) ELSE Go(c, "func")
    /\ UNCHANGED <<data, store, failed>>

\* get_cached answers the value or its default.
Get(c) ==
    /\ call[c].at = "look" /\ call[c].op = "get"
    /\ Return(c)
    /\ UNCHANGED <<data, store, failed>>

\* The wrapped function or value_fn reads the datum (for set_cached, its caller).
Compute(c) ==
    /\ call[c].at = "func" /\ call[c].op # "update"
    /\ call' = [call EXCEPT ![c].at = "store", ![c].value = data[call[c].key]]
    /\ UNCHANGED <<data, store, failed>>

\* The wrapped function of an update writes it.
Update(c) ==
    LET k == call[c].key
        Overtaken(d) == call[d].key = k /\ call[d].at = "store"
    IN /\ call[c].at = "func" /\ call[c].op = "update"
       /\ data' = [data EXCEPT ![k] = @ + 1]
       /\ call' = [d \in Callers |->
              IF d = c THEN [call[c] EXCEPT !.at = "scan"]
              ELSE [call[d] EXCEPT !.old = @ \/ Overtaken(d)]]
       /\ UNCHANGED <<store, failed>>

\* It raises instead: no store, no invalidation.
FuncRaises(c) ==
    /\ call[c].at \in {"func", "again"}
    /\ Return(c)
    /\ UNCHANGED <<data, store, failed>>

\* Redis failed a cached call: the function is called, maybe for the second time.
Again(c) ==
    /\ call[c].at = "again"
    /\ Return(c)
    /\ UNCHANGED <<data, store, failed>>

\* setex
Written(c) == [k \in Stored \cup {call[c].key} |->
    IF k = call[c].key THEN [value |-> call[c].value, old |-> call[c].old] ELSE store[k]]
Store(c) ==
    /\ call[c].at = "store"
    /\ store' = Written(c)
    /\ failed' = failed \ {call[c].key}
    /\ Return(c)
    /\ UNCHANGED data

\* scan_iter finds at least the keys that are there when it begins.
Scan(c) ==
    /\ call[c].at = "scan"
    /\ call' = [call EXCEPT ![c].at = "delete", ![c].keys = Matching(call[c].key)]
    /\ UNCHANGED <<data, store, failed>>

\* delete, of those and of any that came while it went on.
Deleted(c) ==
    IF call[c].op = "delete" THEN {call[c].keys}
    ELSE {call[c].keys \cup more : more \in SUBSET Matching(call[c].key)}
Delete(c) ==
    /\ call[c].at = "delete"
    /\ \E keys \in Deleted(c) : store' = Without(keys) /\ failed' = failed \ keys
    /\ Return(c)
    /\ UNCHANGED data

\* Redis fails a call: a cached call falls back to its function, the others give
\* up; a lost reply leaves the effect of a store or a delete.
RedisFails(c) ==
    /\ call[c].at \in {"look", "store", "scan", "delete"}
    /\ IF call[c].op = "cached" THEN Go(c, "again") ELSE Return(c)
    /\ store' \in {store} \cup (IF call[c].at = "store" THEN {Written(c)} ELSE {})
                         \cup (IF call[c].at = "delete" THEN {Without(call[c].keys)} ELSE {})
    /\ failed' = (IF call[c].op = "update" THEN failed \cup DOMAIN store' ELSE failed) \cap DOMAIN store'
    /\ UNCHANGED data

Expire(k) ==
    /\ k \in Stored
    /\ store' = Without({k}) /\ failed' = failed \ {k}
    /\ UNCHANGED <<data, call>>

Init ==
    /\ data = [k \in Keys |-> 0]
    /\ store = <<>>
    /\ call = [c \in Callers |-> Idle]
    /\ failed = {}

Next ==
    \/ \E c \in Callers :
          \/ \E op \in Operations, key \in Keys : Begin(c, op, key)
          \/ Look(c) \/ Get(c) \/ Compute(c) \/ Update(c) \/ FuncRaises(c) \/ Again(c)
          \/ Store(c) \/ Scan(c) \/ Delete(c) \/ RedisFails(c)
    \/ \E k \in Keys : Expire(k)

Spec == Init /\ [][Next]_vars

-----------------------------------------------------------------------------
CallType ==
    [op : Operations \cup {"none"},
     at : {"none", "look", "func", "again", "store", "scan", "delete"},
     key : Keys \cup {"none"}, value : Nat, old : BOOLEAN, keys : SUBSET Keys]

\* Every variable has its type.
TypeOK ==
    /\ data \in [Keys -> Nat]
    /\ Stored \subseteq Keys
    /\ store \in [Stored -> [value : Nat, old : BOOLEAN]]
    /\ call \in [Callers -> CallType]
    /\ failed \subseteq Stored

\* The cache serves an outdated value only while an update is still to invalidate
\* it, or when Redis failed that invalidation, or when the value was computed
\* before an update and stored after: nothing else survives an invalidation.
StaleIsExplained ==
    \A k \in Stored : store[k].value < data[k] =>
        \/ store[k].old
        \/ k \in failed
        \/ \E c \in Callers : call[c].key = k /\ call[c].op = "update" /\ call[c].at \in {"scan", "delete"}
=============================================================================
