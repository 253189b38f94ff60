----------------------------- MODULE RateLimiter -----------------------------
(***************************************************************************)
(* RateLimitMiddleware (middleware/security.py): a table of the times of   *)
(* admitted requests by client address, which a clean-up trims now and     *)
(* then.  dispatch does not await before its decision, so that one request *)
(* is one step.                                                            *)
(*                                                                         *)
(* Only differences of times matter: a recorded time is kept as its age in *)
(* ticks, with a number that tells the times of one tick apart.  Times     *)
(* beyond the last age compared are neither told apart nor counted.        *)
(***************************************************************************)
EXTENDS Naturals, FiniteSets, FiniteSetsExt

CONSTANTS
    Clients,          \* client addresses
    Window,           \* the 60 seconds of the rate, in ticks
    BurstWindow,      \* the second of the burst, in ticks
    Rate,             \* requests_per_minute
    Burst,            \* burst_size
    MaxTracked,       \* max_tracked_ips
    CleanupInterval   \* cleanup_interval, in ticks

ASSUME LimiterAssumption ==
    /\ IsFiniteSet(Clients)
    /\ {Window, BurstWindow, Rate, Burst, MaxTracked, CleanupInterval} \subseteq Nat \ {0}
    /\ BurstWindow =< Window /\ Window =< CleanupInterval

VARIABLES
    requests,    \* the table: the times kept for a tracked client
    cleaned,     \* the age of the last clean-up
    seen,        \* clients that sent a request since then
    admitted,    \* the times of all requests admitted in the last window
    forgotten,   \* the age of the last loss of a client's recent times
    told,        \* the last answer to a client: "admitted", or the limit it met
    silent       \* the age of its last request

vars == <<requests, cleaned, seen, admitted, forgotten, told, silent>>

Tracked == DOMAIN requests

\* Mutant of Younger: a time of exactly that age still counts.
YoungerOrSame(s, age) == {t \in s : t[1] =< age}

\* The times in s that are younger than an age.
Younger(s, age) == {t \in s : t[1] < age}
Recent(s) == Younger(s, Window)

\* A time of this tick beside those in s.
Now(s) == <<0, Cardinality(Younger(s, 1)) + 1>>

Older(n, bound) == IF n < bound THEN n + 1 ELSE bound

-----------------------------------------------------------------------------
(* The clean-up of _cleanup_stale_entries.                                  *)

Due == cleaned >= CleanupInterval

\* Clients with a recent time, and the age of their last one.
Active == {c \in Tracked : Recent(requests[c]) # {}}
Age(c) == Min({t[1] : t \in requests[c]})

\* Mutant of Kept: no client is dropped.
KeptAll == {Active}

\* What may stay of them: the most recently active, ties in any order.
Kept ==
    IF Cardinality(Active) =< MaxTracked THEN {Active}
    ELSE {K \in SUBSET Active : /\ Cardinality(K) = MaxTracked
                                /\ \A k \in K, o \in Active \ K : Age(k) =< Age(o)}

\* The table after the clean-up, when one is due.
Cleanings == IF Due THEN {[k \in K |-> Recent(requests[k])] : K \in Kept} ELSE {requests}

-----------------------------------------------------------------------------
(* dispatch.                                                                *)

Times(table, c) == IF c \in DOMAIN table THEN Recent(table[c]) ELSE {}

\* Mutant of Decision: only the burst is looked at.
DecisionBurst(times) ==
    IF Cardinality(Younger(times, BurstWindow)) >= Burst THEN "burst" ELSE "admitted"

\* Both limits, in the order of their tests.
Decision(times) ==
    CASE Cardinality(times) >= Rate                        -> "rate"
      [] Cardinality(Younger(times, BurstWindow)) >= Burst -> "burst"
      [] OTHER                                             -> "admitted"

\* One request of c: clean-up, trim of its own times, decision, record.
Dispatch(c) == \E table \in Cleanings :
    LET times    == Times(table, c)
        Record(s) == IF Decision(times) = "admitted" THEN s \cup {Now(s)} ELSE s
    IN /\ requests' = [d \in DOMAIN table \cup {c} |-> IF d = c THEN Record(times) ELSE table[d]]
       /\ cleaned' = IF Due THEN 0 ELSE cleaned
       /\ seen' = (IF Due THEN {} ELSE seen) \cup {c}
       /\ admitted' = [admitted EXCEPT ![c] = Record(@)]
       /\ forgotten' = [d \in Clients |-> IF Due /\ d \in Active \ DOMAIN table
                                          THEN 0 ELSE forgotten[d]]
       /\ told' = [told EXCEPT ![c] = Decision(times)]
       /\ silent' = [silent EXCEPT ![c] = 0]

\* Time passes.
Aged(s) == {<<Older(t[1], Window), t[2]>> : t \in s}
Tick ==
    /\ requests' = [c \in Tracked |-> Aged(requests[c])]
    /\ cleaned' = Older(cleaned, CleanupInterval)
    /\ admitted' = [c \in Clients |-> Recent(Aged(admitted[c]))]
    /\ forgotten' = [c \in Clients |-> Older(forgotten[c], Window)]
    /\ silent' = [c \in Clients |-> Older(silent[c], Window)]
    /\ UNCHANGED <<seen, told>>

Init ==
    /\ requests = [c \in {} |-> {}]
    /\ cleaned = 0 /\ seen = {}
    /\ admitted = [c \in Clients |-> {}]
    /\ forgotten = [c \in Clients |-> Window]
    /\ told = [c \in Clients |-> "admitted"]
    /\ silent = [c \in Clients |-> Window]

Next == Tick \/ \E c \in Clients : Dispatch(c)

Spec == Init /\ [][Next]_vars

-----------------------------------------------------------------------------
\* No client has more requests admitted in a window, or in a burst, than the
\* limits say, whatever the clean-ups did to the table; except one whose recent
\* times were dropped in that window because too many clients were active.
LimitHolds ==
    \A c \in Clients : forgotten[c] >= Window =>
        /\ Cardinality(admitted[c]) =< Rate
        /\ Cardinality(Younger(admitted[c], BurstWindow)) =< Burst

\* The table holds at most max_tracked_ips clients beside those that sent a
\* request since the last clean-up.
TableIsBounded == Cardinality(Tracked \ seen) =< MaxTracked

\* A client that was refused and sends nothing for the time that Retry-After
\* names is not refused for that limit again.
RetryAfterSuffices ==
    [][\A c \in Clients : Dispatch(c) =>
           /\ told[c] = "rate" /\ silent[c] >= Window => told'[c] = "admitted"
           /\ told[c] = "burst" /\ silent[c] >= BurstWindow => told'[c] # "burst"]_vars
=============================================================================
