------------------------- MODULE ResponseCacheProofs -------------------------
(***************************************************************************)
(* For any number of tasks, keys and updates: an outdated value outlives   *)
(* an invalidation only for one of the reasons StaleIsExplained names.     *)
(***************************************************************************)
EXTENDS ResponseCache, TLAPS

\* An update that is still to delete k: it has not scanned yet, or found k.
Reaches(c, k) ==
    /\ call[c].op = "update" /\ call[c].key = k
    /\ call[c].at = "scan" \/ (call[c].at = "delete" /\ k \in call[c].keys)

\* What StaleIsExplained needs of an update that has scanned.
Covered ==
    \A k \in Stored : store[k].value < data[k] =>
        store[k].old \/ k \in failed \/ \E c \in Callers : Reaches(c, k)

\* A call under way has a key, and a value about to be stored is either marked
\* old or the present one.
CallOK(c) ==
    /\ call[c].at # "none" => call[c].key \in Keys
    /\ call[c].at = "func" => ~call[c].old
    /\ call[c].at = "look" => ~call[c].old
    /\ call[c].at = "store" => call[c].op # "update" /\ (call[c].old \/ call[c].value = data[call[c].key])
    /\ call[c].at = "scan" => call[c].op = "update"

Calls == \A c \in Callers : CallOK(c)

\* The inductive invariant.
IInv == TypeOK /\ Calls /\ Covered

LEMMA CoveredExplains == IInv => StaleIsExplained
    BY DEF IInv, Covered, Reaches, StaleIsExplained

LEMMA IdleType == Idle \in CallType /\ Idle.at = "none"
    BY DEF Idle, CallType

LEMMA InitHolds == Init => IInv
<1> SUFFICES ASSUME Init PROVE IInv
    OBVIOUS
<1>1. Stored = {}
    BY DEF Init, Stored
<1>2. TypeOK
    BY <1>1 DEF Init, TypeOK, CallType, Idle, Stored
<1>3. Calls
    BY DEF Init, Calls, CallOK, Idle
<1>4. Covered
    BY <1>1 DEF Covered
<1> QED
    BY <1>2, <1>3, <1>4 DEF IInv

\* A task that is not a reaching update moves on; the data stay.
LEMMA OtherCall ==
    ASSUME IInv, NEW c \in Callers, NEW r, call' = [call EXCEPT ![c] = r],
           r \in CallType,
           UNCHANGED <<data, store, failed>>,
           r.at # "none" => r.key \in Keys,
           r.at \in {"func", "look"} => ~r.old,
           r.at = "store" => r.op # "update" /\ (r.old \/ r.value = data[r.key]),
           r.at = "scan" => r.op = "update",
           \A k \in Stored : ~Reaches(c, k) \/ Reaches(c, k)'
    PROVE  IInv'
<1>1. TypeOK'
    BY DEF IInv, TypeOK, CallType, Stored
<1>2. Calls'
    BY DEF IInv, TypeOK, CallType, Calls, CallOK
<1>3. Covered'
  <2> SUFFICES ASSUME NEW k \in Stored, store[k].value < data[k],
                      ~store[k].old, k \notin failed
               PROVE  \E d \in Callers : Reaches(d, k)'
      BY DEF Covered, Stored
  <2>1. PICK d \in Callers : Reaches(d, k)
      BY DEF IInv, Covered
  <2>2. CASE d = c
      BY <2>1, <2>2
  <2>3. CASE d # c
      BY <2>1, <2>3 DEF IInv, TypeOK, CallType, Reaches
  <2> QED
      BY <2>2, <2>3
<1> QED
    BY <1>1, <1>2, <1>3 DEF IInv

\* A call that is not an update ends, or goes on to the fall-back, and what it
\* did to the store leaves entries as they were or put its own value there.
LEMMA StoreChange ==
    ASSUME IInv, NEW c \in Callers, call[c].op # "update", UNCHANGED data,
           \/ call' = [call EXCEPT ![c] = Idle]
           \/ call' = [call EXCEPT ![c].at = "again"] /\ call[c].at # "none",
           TypeOK',
           \A k \in Stored' : \/ k \in Stored /\ store'[k] = store[k] /\ (k \in failed => k \in failed')
                              \/ store'[k].old \/ store'[k].value = data[k]
    PROVE  IInv'
<1>1. Calls'
    BY DEF IInv, TypeOK, CallType, Calls, CallOK, Idle
<1>2. Covered'
  <2> SUFFICES ASSUME NEW k \in Stored', store'[k].value < data[k],
                      ~store'[k].old, k \notin failed'
               PROVE  \E d \in Callers : Reaches(d, k)'
      BY DEF Covered
  <2>1. store'[k].value # data[k]
      BY DEF IInv, TypeOK, CallType
  <2>2. k \in Stored /\ store'[k] = store[k] /\ k \notin failed
      BY <2>1
  <2>3. PICK d \in Callers : Reaches(d, k)
      BY <2>2 DEF IInv, Covered
  <2>4. d # c
      BY <2>3 DEF Reaches
  <2> QED
      BY <2>3, <2>4 DEF IInv, TypeOK, CallType, Reaches
<1> QED
    BY <1>1, <1>2 DEF IInv

\* The store stays well typed, and only the caller's key gets its value.
LEMMA StoreTypes ==
    ASSUME IInv, NEW c \in Callers, NEW keys
    PROVE  /\ DOMAIN Without(keys) = Stored \ keys
           /\ Without(keys) \in [Stored \ keys -> [value : Nat, old : BOOLEAN]]
           /\ \A k \in Stored \ keys : Without(keys)[k] = store[k]
           /\ DOMAIN Written(c) = Stored \cup {call[c].key}
           /\ Written(c) \in [Stored \cup {call[c].key} -> [value : Nat, old : BOOLEAN]]
           /\ \A k \in Stored : k # call[c].key => Written(c)[k] = store[k]
           /\ Written(c)[call[c].key] = [value |-> call[c].value, old |-> call[c].old]
<1>1. /\ Without(keys) \in [Stored \ keys -> [value : Nat, old : BOOLEAN]]
      /\ \A k \in Stored \ keys : Without(keys)[k] = store[k]
    BY DEF Without, Restrict, IInv, TypeOK, CallType
<1>2. /\ Written(c) \in [Stored \cup {call[c].key} -> [value : Nat, old : BOOLEAN]]
      /\ \A k \in Stored : k # call[c].key => Written(c)[k] = store[k]
      /\ Written(c)[call[c].key] = [value |-> call[c].value, old |-> call[c].old]
    BY DEF Written, IInv, TypeOK, CallType
<1> QED
    BY <1>1, <1>2

LEMMA BeginKeeps ==
    ASSUME IInv, NEW c \in Callers, NEW op \in Operations, NEW key \in Keys, Begin(c, op, key)
    PROVE  IInv'
<1> DEFINE r == [Idle EXCEPT !.op = op, !.at = First(op), !.key = key,
                             !.keys = IF op = "delete" THEN {key} ELSE {}]
<1>1. First(op) \in {"look", "func", "delete"}
    BY DEF First, Operations
<1>2. call' = [call EXCEPT ![c] = r] /\ UNCHANGED <<data, store, failed>>
    BY DEF Begin
<1>3. r \in CallType /\ r.at = First(op) /\ r.key = key /\ ~r.old
    BY <1>1 DEF Idle, CallType
<1>4. \A k \in Stored : ~Reaches(c, k)
    BY DEF Begin, Idle, Reaches
<1> HIDE DEF r
<1> QED
    BY <1>1, <1>2, <1>3, <1>4, OtherCall

LEMMA LookKeeps == ASSUME IInv, NEW c \in Callers, Look(c) PROVE IInv'
<1>1. \A k \in Stored : ~Reaches(c, k)
    BY DEF Look, Reaches
<1>2. CASE Return(c)
    <2>1. call' = [call EXCEPT ![c] = Idle] /\ UNCHANGED <<data, store, failed>>
        BY <1>2 DEF Return, Look
    <2>2. Idle \in CallType /\ Idle.at = "none"
        BY IdleType
    <2> QED
        BY <1>1, <2>1, <2>2, OtherCall
<1>3. CASE Go(c, "func")
    <2> DEFINE r == [call[c] EXCEPT !.at = "func"]
    <2>1. call' = [call EXCEPT ![c] = r] /\ UNCHANGED <<data, store, failed>>
        BY <1>3 DEF Go, Look, IInv, TypeOK, CallType
    <2>2. /\ r \in CallType
          /\ r.at = "func" /\ r.key \in Keys /\ ~r.old
        BY DEF Look, IInv, TypeOK, CallType, Calls, CallOK
    <2> HIDE DEF r
    <2> QED
        BY <1>1, <2>1, <2>2, OtherCall
<1> QED
    BY <1>2, <1>3 DEF Look

LEMMA ComputeKeeps == ASSUME IInv, NEW c \in Callers, Compute(c) PROVE IInv'
<1> DEFINE r == [call[c] EXCEPT !.at = "store", !.value = data[call[c].key]]
<1>1. call' = [call EXCEPT ![c] = r] /\ UNCHANGED <<data, store, failed>>
    BY DEF Compute, IInv, TypeOK, CallType
<1>2. /\ r \in CallType
      /\ r.at = "store" /\ r.key \in Keys /\ r.op # "update" /\ r.value = data[r.key]
    BY DEF Compute, IInv, TypeOK, CallType, Calls, CallOK
<1>3. \A k \in Stored : ~Reaches(c, k)
    BY DEF Compute, Reaches
<1> HIDE DEF r
<1> QED
    BY <1>1, <1>2, <1>3, OtherCall

\* get_cached answered, the function raised, or the fall-back answered.
LEMMA EndKeeps == ASSUME IInv, NEW c \in Callers, Get(c) \/ FuncRaises(c) \/ Again(c) PROVE IInv'
<1>1. call' = [call EXCEPT ![c] = Idle] /\ UNCHANGED <<data, store, failed>>
    BY DEF Get, FuncRaises, Again, Return
<1>2. Idle \in CallType /\ Idle.at = "none"
    BY IdleType
<1>3. \A k \in Stored : ~Reaches(c, k)
    BY DEF Get, FuncRaises, Again, Reaches
<1> QED
    BY <1>1, <1>2, <1>3, OtherCall

LEMMA ScanKeeps == ASSUME IInv, NEW c \in Callers, Scan(c) PROVE IInv'
<1> DEFINE r == [call[c] EXCEPT !.at = "delete", !.keys = Matching(call[c].key)]
<1>1. call' = [call EXCEPT ![c] = r] /\ UNCHANGED <<data, store, failed>>
    BY DEF Scan, IInv, TypeOK, CallType
<1>2. /\ r \in CallType
      /\ r.at = "delete" /\ r.key \in Keys /\ r.key = call[c].key /\ r.op = call[c].op /\ r.keys = Stored
    BY DEF Scan, IInv, TypeOK, CallType, Calls, CallOK, Matching
<1>3. \A k \in Stored : ~Reaches(c, k) \/ Reaches(c, k)'
    BY <1>1, <1>2 DEF Reaches, IInv, TypeOK, CallType
<1> HIDE DEF r
<1> QED
    BY <1>1, <1>2, <1>3, OtherCall

LEMMA UpdateKeeps == ASSUME IInv, NEW c \in Callers, Update(c) PROVE IInv'
<1> DEFINE k0 == call[c].key
<1>1. k0 \in Keys /\ call[c].op = "update" /\ call[c].at = "func"
    BY DEF Update, IInv, Calls, CallOK
<1>2. /\ call' \in [Callers -> CallType]
      /\ call'[c] = [call[c] EXCEPT !.at = "scan"]
      /\ \A d \in Callers \ {c} :
            call'[d] = [call[d] EXCEPT !.old = @ \/ (call[d].key = k0 /\ call[d].at = "store")]
    <2>1. call' = [d \in Callers |->
                     IF d = c THEN [call[c] EXCEPT !.at = "scan"]
                     ELSE [call[d] EXCEPT !.old = @ \/ (call[d].key = k0 /\ call[d].at = "store")]]
        BY DEF Update
    <2>2. ASSUME NEW d \in Callers PROVE call'[d] \in CallType
        <3>1. call[d] \in CallType
            BY DEF IInv, TypeOK
        <3> QED
            BY <2>1, <3>1 DEF CallType
    <2> QED
        BY <2>1, <2>2
<1>3. data' = [data EXCEPT ![k0] = @ + 1] /\ UNCHANGED <<store, failed>>
    BY DEF Update
<1>4. TypeOK'
    BY <1>1, <1>2, <1>3 DEF IInv, TypeOK, CallType, Stored
<1>5. Calls'
    <2> SUFFICES ASSUME NEW d \in Callers PROVE CallOK(d)'
        BY DEF Calls
    <2>1. CASE d = c
        BY <1>1, <1>2, <2>1 DEF CallOK, IInv, TypeOK, CallType
    <2>2. CASE d # c
        BY <1>1, <1>2, <1>3, <2>2 DEF CallOK, IInv, TypeOK, CallType, Calls
    <2> QED
        BY <2>1, <2>2
<1>6. Covered'
    <2> SUFFICES ASSUME NEW k \in Stored, store[k].value < data'[k], ~store[k].old, k \notin failed
                 PROVE  \E d \in Callers : Reaches(d, k)'
        BY <1>3 DEF Covered, Stored
    <2>1. CASE k = k0
        BY <1>1, <1>2, <2>1 DEF Reaches, IInv, TypeOK, CallType
    <2>2. CASE k # k0
        <3>1. data'[k] = data[k]
            BY <1>3, <2>2 DEF IInv, TypeOK, CallType
        <3>2. PICK d \in Callers : Reaches(d, k)
            BY <3>1 DEF IInv, Covered
        <3>3. d # c
            BY <1>1, <3>2 DEF Reaches
        <3> QED
            BY <1>2, <3>2, <3>3 DEF Reaches, IInv, TypeOK, CallType
    <2> QED
        BY <2>1, <2>2
<1> QED
    BY <1>4, <1>5, <1>6 DEF IInv

\* After the call of c ended, or fell back, the calls have their type.
LEMMA CallTypes ==
    ASSUME IInv, NEW c \in Callers,
           call' = [call EXCEPT ![c] = Idle] \/ call' = [call EXCEPT ![c].at = "again"]
    PROVE  call' \in [Callers -> CallType]
<1>1. CASE call' = [call EXCEPT ![c] = Idle]
    BY <1>1, IdleType DEF IInv, TypeOK, CallType
<1>2. CASE call' = [call EXCEPT ![c].at = "again"]
    <2>1. [call[c] EXCEPT !.at = "again"] \in CallType
        BY DEF IInv, TypeOK, CallType
    <2> QED
        BY <1>2, <2>1 DEF IInv, TypeOK, CallType
<1> QED
    BY <1>1, <1>2

LEMMA StoreKeeps == ASSUME IInv, NEW c \in Callers, Store(c) PROVE IInv'
<1> DEFINE k0 == call[c].key
<1>1. /\ k0 \in Keys /\ call[c].op # "update"
      /\ call[c].old \/ call[c].value = data[k0]
    BY DEF Store, IInv, Calls, CallOK
<1>2. /\ store' = Written(c) /\ failed' = failed \ {k0} /\ UNCHANGED data
      /\ call' = [call EXCEPT ![c] = Idle]
    BY DEF Store, Return
<1>3. Stored' = Stored \cup {k0}
    BY <1>2, StoreTypes DEF Stored
<1>4. TypeOK'
    BY <1>1, <1>2, <1>3, StoreTypes, CallTypes DEF IInv, TypeOK
<1>5. \A k \in Stored' : \/ k \in Stored /\ store'[k] = store[k] /\ (k \in failed => k \in failed')
                         \/ store'[k].old \/ store'[k].value = data[k]
    <2>1. /\ \A k \in Stored : k # k0 => store'[k] = store[k]
          /\ store'[k0] = [value |-> call[c].value, old |-> call[c].old]
        BY <1>2, StoreTypes
    <2> QED
        BY <1>1, <1>2, <1>3, <2>1
<1> QED
    BY <1>1, <1>2, <1>4, <1>5, StoreChange

LEMMA DeleteKeeps == ASSUME IInv, NEW c \in Callers, Delete(c) PROVE IInv'
<1>1. PICK keys \in Deleted(c) : store' = Without(keys) /\ failed' = failed \ keys
    BY DEF Delete
<1>2. UNCHANGED data /\ call' = [call EXCEPT ![c] = Idle] /\ call[c].at = "delete"
    BY DEF Delete, Return
<1>3. call[c].keys \subseteq keys
    BY <1>1 DEF Deleted
<1>4. Stored' = Stored \ keys
    BY <1>1, StoreTypes DEF Stored
<1>5. TypeOK'
    BY <1>1, <1>2, <1>4, StoreTypes, CallTypes DEF IInv, TypeOK
<1>6. Calls'
    BY <1>2 DEF IInv, TypeOK, CallType, Calls, CallOK, Idle
<1>7. Covered'
    <2> SUFFICES ASSUME NEW k \in Stored \ keys, store[k].value < data[k], ~store[k].old, k \notin failed
                 PROVE  \E d \in Callers : Reaches(d, k)'
        BY <1>1, <1>2, <1>4, StoreTypes DEF Covered
    <2>1. PICK d \in Callers : Reaches(d, k)
        BY DEF IInv, Covered
    <2>2. d # c
        BY <1>2, <1>3, <2>1 DEF Reaches
    <2> QED
        BY <1>2, <2>1, <2>2 DEF Reaches, IInv, TypeOK, CallType
<1> QED
    BY <1>5, <1>6, <1>7 DEF IInv

LEMMA RedisFailsKeeps == ASSUME IInv, NEW c \in Callers, RedisFails(c) PROVE IInv'
<1> DEFINE k0 == call[c].key
<1>1. /\ k0 \in Keys /\ UNCHANGED data
      /\ call[c].at = "store" => call[c].op # "update" /\ (call[c].old \/ call[c].value = data[k0])
      /\ call[c].at # "none"
    BY DEF RedisFails, IInv, Calls, CallOK
<1>2. \/ call' = [call EXCEPT ![c] = Idle]
      \/ call' = [call EXCEPT ![c].at = "again"] /\ call[c].op # "update"
    BY DEF RedisFails, Go, Return
<1>3. failed' = (IF call[c].op = "update" THEN failed \cup Stored' ELSE failed) \cap Stored'
    BY DEF RedisFails, Stored
<1>4. \/ store' = store
      \/ store' = Written(c) /\ call[c].at = "store"
      \/ store' = Without(call[c].keys)
    BY DEF RedisFails
<1>5. /\ Stored' \subseteq Keys
      /\ store' \in [Stored' -> [value : Nat, old : BOOLEAN]]
      /\ \A k \in Stored' : \/ k \in Stored /\ store'[k] = store[k]
                            \/ store'[k].old \/ store'[k].value = data[k]
    <2>1. CASE store' = store
        BY <2>1 DEF Stored, IInv, TypeOK, CallType
    <2>2. CASE store' = Written(c) /\ call[c].at = "store"
        <3>1. /\ Stored' = Stored \cup {k0}
              /\ store' \in [Stored' -> [value : Nat, old : BOOLEAN]]
              /\ \A k \in Stored : k # k0 => store'[k] = store[k]
              /\ store'[k0] = [value |-> call[c].value, old |-> call[c].old]
            BY <2>2, StoreTypes DEF Stored
        <3>2. store'[k0].old \/ store'[k0].value = data[k0]
            BY <1>1, <2>2, <3>1
        <3> QED
            BY <1>1, <3>1, <3>2 DEF IInv, TypeOK, CallType
    <2>3. CASE store' = Without(call[c].keys)
        <3>1. /\ Stored' = Stored \ call[c].keys
              /\ store' \in [Stored' -> [value : Nat, old : BOOLEAN]]
              /\ \A k \in Stored' : store'[k] = store[k]
            BY <2>3 DEF Stored, Without, Restrict, IInv, TypeOK
        <3> QED
            BY <3>1 DEF IInv, TypeOK, CallType
    <2> QED
        BY <1>4, <2>1, <2>2, <2>3
<1>6. TypeOK'
    BY <1>1, <1>2, <1>3, <1>5, CallTypes DEF IInv, TypeOK
<1>7. CASE call[c].op = "update"
    <2>1. Calls'
        BY <1>1, <1>2, <1>7 DEF IInv, TypeOK, CallType, Calls, CallOK, Idle
    <2>2. Covered'
        BY <1>3, <1>7 DEF Covered
    <2> QED
        BY <1>6, <2>1, <2>2 DEF IInv
<1>8. CASE call[c].op # "update"
    <2>1. \A k \in Stored' : \/ k \in Stored /\ store'[k] = store[k] /\ (k \in failed => k \in failed')
                             \/ store'[k].old \/ store'[k].value = data[k]
        BY <1>3, <1>5, <1>8
    <2> QED
        BY <1>1, <1>2, <1>6, <1>8, <2>1, StoreChange
<1> QED
    BY <1>7, <1>8

LEMMA ExpireKeeps == ASSUME IInv, NEW k0 \in Keys, Expire(k0) PROVE IInv'
<1>1. store' = Without({k0}) /\ failed' = failed \ {k0} /\ UNCHANGED <<data, call>>
    BY DEF Expire
<1>2. /\ Stored' = Stored \ {k0}
      /\ store' \in [Stored' -> [value : Nat, old : BOOLEAN]]
      /\ \A k \in Stored' : store'[k] = store[k]
    BY <1>1 DEF Stored, Without, Restrict, IInv, TypeOK, CallType
<1>3. TypeOK'
    BY <1>1, <1>2 DEF IInv, TypeOK, CallType
<1>4. Calls'
    BY <1>1 DEF IInv, Calls, CallOK
<1>5. Covered'
    BY <1>1, <1>2 DEF IInv, Covered, Reaches
<1> QED
    BY <1>3, <1>4, <1>5 DEF IInv

LEMMA NextKeeps == IInv /\ [Next]_vars => IInv'
<1> SUFFICES ASSUME IInv, [Next]_vars PROVE IInv'
    OBVIOUS
<1>1. CASE UNCHANGED vars
    BY <1>1 DEF vars, IInv, TypeOK, CallType, Calls, CallOK, Covered, Reaches, Stored
<1>2. CASE Next
    BY <1>2, BeginKeeps, LookKeeps, ComputeKeeps, UpdateKeeps, EndKeeps, StoreKeeps,
       ScanKeeps, DeleteKeeps, RedisFailsKeeps, ExpireKeeps DEF Next
<1> QED
    BY <1>1, <1>2

\* StaleIsExplained (core/cache.py): what an invalidation can leave behind.
THEOREM StaleValuesExplained == Spec => []StaleIsExplained
<1>1. Init => IInv
    BY InitHolds
<1>2. IInv /\ [Next]_vars => IInv'
    BY NextKeeps
<1>3. IInv => StaleIsExplained
    BY CoveredExplains
<1> QED
    BY <1>1, <1>2, <1>3, PTL DEF Spec
=============================================================================
