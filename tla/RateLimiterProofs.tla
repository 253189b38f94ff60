-------------------------- MODULE RateLimiterProofs ---------------------------
(***************************************************************************)
(* Theorems about RateLimiter, for all clients, limits, windows and bounds *)
(* of the table.                                                           *)
(***************************************************************************)
EXTENDS RateLimiter, FiniteSetTheorems, TLAPS

Stamps == (0..Window) \X (Nat \ {0})

\* What is kept are times, finitely many; what is counted as admitted is recent.
TimesOK ==
    /\ Tracked \subseteq Clients
    /\ \A c \in Tracked : requests[c] \subseteq Stamps /\ IsFiniteSet(requests[c])
    /\ \A c \in Clients :
         /\ admitted[c] \subseteq Stamps /\ IsFiniteSet(admitted[c])
         /\ Recent(admitted[c]) = admitted[c]
    /\ admitted = [c \in Clients |-> admitted[c]]
    /\ told = [c \in Clients |-> told[c]]
    /\ forgotten \in [Clients -> 0..Window]
    /\ silent \in [Clients -> 0..Window]

\* What was admitted since times of the client were last lost.
Since(c) == Younger(admitted[c], forgotten[c])

\* Of these the table has all and no other.
AgreeOK ==
    \A c \in Clients : Younger(Times(requests, c), forgotten[c]) = Since(c)

\* They are within the limits.
WithinOK ==
    \A c \in Clients :
        /\ Cardinality(Since(c)) =< Rate
        /\ Cardinality(Younger(Since(c), BurstWindow)) =< Burst

\* A client has no time that is younger than its last request.
SilentOK == \A c \in Tracked : \A t \in requests[c] : silent[c] =< t[1]

LimiterInv == TimesOK /\ AgreeOK /\ WithinOK /\ SilentOK /\ TableIsBounded

-----------------------------------------------------------------------------
(***************************************************************************)
(* Lemmas about times.                                                     *)
(***************************************************************************)
LEMMA Numbers ==
    /\ Window \in Nat /\ BurstWindow \in Nat /\ Rate \in Nat /\ Burst \in Nat
    /\ MaxTracked \in Nat /\ CleanupInterval \in Nat
    /\ 0 < Window /\ 0 < BurstWindow /\ 0 < Rate /\ 0 < Burst
    /\ BurstWindow <= Window
BY LimiterAssumption

\* The younger ones are some of them.
LEMMA YoungerOnes ==
    ASSUME NEW s, IsFiniteSet(s), NEW age
    PROVE  /\ Younger(s, age) \in SUBSET s
           /\ IsFiniteSet(Younger(s, age))
           /\ Cardinality(Younger(s, age)) \in Nat /\ Cardinality(s) \in Nat
           /\ Cardinality(Younger(s, age)) <= Cardinality(s)
<1>1. Younger(s, age) \in SUBSET s
  BY DEF Younger
<1> QED
  BY <1>1, FS_Subset, FS_CardinalityType

\* What is younger than a loss is recent.
LEMMA YoungerRecent ==
    ASSUME NEW s \in SUBSET Stamps, NEW f \in 0..Window
    PROVE  Younger(Recent(s), f) = Younger(s, f)
<1>1. \A t \in s : t[1] \in 0..Window
  BY DEF Stamps
<1>2. \A t \in s : t[1] < f => t[1] < Window
  BY <1>1, Numbers
<1> QED
  BY <1>2 DEF Younger, Recent

\* Some of them are no more.
LEMMA FewerTimes ==
    ASSUME NEW s, IsFiniteSet(s), NEW r \in SUBSET s, NEW n \in Nat,
           Cardinality(s) <= n
    PROVE  Cardinality(r) <= n
<1>1. /\ Cardinality(r) \in Nat /\ Cardinality(s) \in Nat
      /\ Cardinality(r) <= Cardinality(s)
  BY FS_Subset, FS_CardinalityType
<1> QED
  BY <1>1

\* A time of this tick.
LEMMA NowIs ==
    ASSUME NEW s, IsFiniteSet(s)
    PROVE  Now(s) \in Stamps /\ Now(s)[1] = 0
<1>1. Cardinality(Younger(s, 1)) \in Nat
  BY YoungerOnes
<1> QED
  BY <1>1, Numbers DEF Now, Stamps

\* Ages grow up to the bound.
LEMMA OlderIs ==
    ASSUME NEW n \in 0..Window
    PROVE  /\ Older(n, Window) \in 0..Window
           /\ Older(n, Window) = IF n < Window THEN n + 1 ELSE n
BY Numbers DEF Older

\* A tick makes no times.
LEMMA AgedTimes ==
    ASSUME NEW s \in SUBSET Stamps, IsFiniteSet(s)
    PROVE  /\ Aged(s) \in SUBSET Stamps
           /\ IsFiniteSet(Aged(s))
           /\ Cardinality(Aged(s)) <= Cardinality(s)
<1> DEFINE f == [t \in s |-> <<Older(t[1], Window), t[2]>>]
<1>1. f \in Surjection(s, Aged(s))
  BY DEF Surjection, Aged
<1>2. Aged(s) \in SUBSET Stamps
  <2> SUFFICES ASSUME NEW t \in s
               PROVE  <<Older(t[1], Window), t[2]>> \in Stamps
    BY DEF Aged
  <2>1. t[1] \in 0..Window /\ t[2] \in Nat \ {0}
    BY DEF Stamps
  <2> QED
    BY <2>1, OlderIs DEF Stamps
<1> QED
  BY <1>1, <1>2, FS_Surjection

\* What is younger than a loss after a tick was younger than it before.
LEMMA AgedYounger ==
    ASSUME NEW s \in SUBSET Stamps, NEW f \in 0..Window
    PROVE  /\ Younger(Aged(s), Older(f, Window)) \subseteq Aged(Younger(s, f))
           /\ Younger(Younger(Aged(s), Older(f, Window)), BurstWindow)
                \subseteq Aged(Younger(Younger(s, f), BurstWindow))
<1>1. ASSUME NEW u \in Younger(Aged(s), Older(f, Window))
      PROVE  \E t \in Younger(s, f) :
                u = <<Older(t[1], Window), t[2]>> /\ t[1] <= u[1]
  <2>1. PICK t \in s : u = <<Older(t[1], Window), t[2]>>
    BY DEF Younger, Aged
  <2>2. u[1] < Older(f, Window) /\ u[1] = Older(t[1], Window)
    BY <2>1 DEF Younger
  <2>3. t[1] \in 0..Window
    BY DEF Stamps
  <2>4. t[1] < f /\ t[1] <= u[1]
    BY <2>2, <2>3, OlderIs, Numbers
  <2> QED
    BY <2>1, <2>4 DEF Younger
<1>2. ASSUME NEW u \in Younger(Younger(Aged(s), Older(f, Window)), BurstWindow)
      PROVE  u \in Aged(Younger(Younger(s, f), BurstWindow))
  <2>1. u \in Younger(Aged(s), Older(f, Window)) /\ u[1] < BurstWindow
    BY DEF Younger
  <2>2. PICK t \in Younger(s, f) :
           u = <<Older(t[1], Window), t[2]>> /\ t[1] <= u[1]
    BY <1>1, <2>1
  <2>3. t[1] \in 0..Window /\ u[1] \in 0..Window
    BY <2>2, OlderIs DEF Younger, Stamps
  <2>4. t[1] < BurstWindow
    BY <2>1, <2>2, <2>3, Numbers
  <2> QED
    BY <2>2, <2>4 DEF Younger, Aged
<1> QED
  BY <1>1, <1>2 DEF Aged

\* Sets that agree since a loss still agree after a tick.
LEMMA AgedAgree ==
    ASSUME NEW s \in SUBSET Stamps, NEW r \in SUBSET Stamps, NEW f \in 0..Window,
           Younger(s, f) = Younger(r, f)
    PROVE  Younger(Aged(s), Older(f, Window)) = Younger(Aged(r), Older(f, Window))
<1>1. Aged(Younger(s, f)) \subseteq Aged(s) /\ Aged(Younger(r, f)) \subseteq Aged(r)
  BY DEF Aged, Younger
<1>2. /\ Younger(Aged(s), Older(f, Window)) \subseteq Aged(Younger(s, f))
      /\ Younger(Aged(r), Older(f, Window)) \subseteq Aged(Younger(r, f))
  BY AgedYounger
<1>3. /\ Younger(Aged(s), Older(f, Window)) \subseteq Aged(r)
      /\ Younger(Aged(r), Older(f, Window)) \subseteq Aged(s)
  BY <1>1, <1>2
<1> QED
  BY <1>3 DEF Younger

\* A request that is recorded in sets that agree since a loss leaves them so.
LEMMA NowAgrees ==
    ASSUME NEW s \in SUBSET Stamps, NEW r \in SUBSET Stamps,
           IsFiniteSet(s), IsFiniteSet(r), NEW f \in 0..Window,
           Younger(s, f) = Younger(r, f)
    PROVE  Younger(s \cup {Now(s)}, f) = Younger(r \cup {Now(r)}, f)
<1>1. Now(s)[1] = 0 /\ Now(r)[1] = 0
  BY NowIs
<1>2. CASE f = 0
  <2>1. \A t \in s \cup r : ~(t[1] < 0)
    BY Numbers DEF Stamps
  <2> QED
    BY <1>1, <1>2, <2>1 DEF Younger
<1>3. CASE f # 0
  <2>1. 1 <= f
    BY <1>3, Numbers
  <2>2. \A t \in s \cup r : t[1] < 1 => t[1] < f
    BY <2>1, Numbers DEF Stamps
  <2>3. Younger(s, 1) = Younger(r, 1)
    BY <2>2 DEF Younger
  <2>4. Now(s) = Now(r)
    BY <2>3 DEF Now
  <2> QED
    BY <2>4 DEF Younger
<1> QED
  BY <1>2, <1>3

-----------------------------------------------------------------------------
(***************************************************************************)
(* The clean-up.                                                           *)
(***************************************************************************)

\* A clean-up keeps the recent times of some clients, and those of all others
\* are no longer recent or are lost.
LEMMA Cleaned ==
    ASSUME LimiterInv, NEW table \in Cleanings
    PROVE  /\ DOMAIN table \subseteq Tracked
           /\ \A d \in DOMAIN table : /\ table[d] \subseteq requests[d]
                                      /\ Recent(table[d]) = Recent(requests[d])
           /\ ~Due => table = requests
           /\ Due => IsFiniteSet(DOMAIN table) /\ Cardinality(DOMAIN table) <= MaxTracked
           /\ \A d \in Clients :
                \/ Due /\ d \in Active \ DOMAIN table
                \/ /\ Times(table, d) = Times(requests, d)
                   /\ ~(d \in Active \ DOMAIN table)
<1>1. CASE ~Due
  BY <1>1 DEF Cleanings, Active, Tracked
<1>2. CASE Due
  <2>1. PICK K \in Kept : table = [k \in K |-> Recent(requests[k])]
    BY <1>2 DEF Cleanings
  <2>2. K \subseteq Active /\ Active \subseteq Tracked /\ Active \subseteq Clients
    BY DEF Kept, Active, LimiterInv, TimesOK
  <2>3. IsFiniteSet(Active)
    BY <2>2, FS_Subset, LimiterAssumption
  <2>4. IsFiniteSet(K) /\ Cardinality(K) <= MaxTracked
    <3>1. IsFiniteSet(K)
      BY <2>2, <2>3, FS_Subset
    <3>2. CASE Cardinality(Active) =< MaxTracked
      BY <3>1, <3>2 DEF Kept
    <3>3. CASE ~(Cardinality(Active) =< MaxTracked)
      BY <3>1, <3>3, Numbers DEF Kept
    <3> QED
      BY <3>1, <3>2, <3>3
  <2>5. \A d \in K : /\ table[d] = Recent(requests[d])
                     /\ table[d] \subseteq requests[d]
                     /\ Recent(table[d]) = Recent(requests[d])
    BY <2>1 DEF Recent, Younger
  <2>6. ASSUME NEW d \in Clients
        PROVE  \/ Due /\ d \in Active \ DOMAIN table
               \/ /\ Times(table, d) = Times(requests, d)
                  /\ ~(d \in Active \ DOMAIN table)
    BY <1>2, <2>1, <2>2, <2>5 DEF Times, Active, Tracked
  <2> QED
    BY <1>2, <2>1, <2>2, <2>4, <2>5, <2>6
<1> QED
  BY <1>1, <1>2

-----------------------------------------------------------------------------
(***************************************************************************)
(* The steps.                                                              *)
(***************************************************************************)
LEMMA LimiterInit == Init => LimiterInv
<1> SUFFICES ASSUME Init PROVE LimiterInv
  OBVIOUS
<1>1. /\ requests = [c \in {} |-> {}] /\ Tracked = {}
      /\ admitted = [c \in Clients |-> {}]
  BY DEF Init, Tracked
<1>2. IsFiniteSet({}) /\ Cardinality({}) = 0
  BY FS_EmptySet
<1>3. \A age : Younger({}, age) = {}
  BY DEF Younger
<1>4. TimesOK
  BY <1>1, <1>2, <1>3, Numbers DEF Init, TimesOK, Recent
<1>5. AgreeOK /\ WithinOK
  <2>1. \A c \in Clients : Since(c) = {} /\ Times(requests, c) = {}
    BY <1>1, <1>3 DEF Since, Times, Tracked
  <2> QED
    BY <1>2, <1>3, <2>1, Numbers DEF AgreeOK, WithinOK
<1>6. SilentOK /\ TableIsBounded
  <2>1. Tracked \ seen = {}
    BY <1>1
  <2> QED
    BY <1>1, <1>2, <2>1, Numbers DEF SilentOK, TableIsBounded
<1> QED
  BY <1>4, <1>5, <1>6 DEF LimiterInv

\* Time passes.
LEMMA TickKeeps ==
    ASSUME LimiterInv, Tick
    PROVE  LimiterInv'
<1> USE DEF LimiterInv
<1>1. /\ Tracked' = Tracked /\ seen' = seen /\ told' = told
      /\ \A c \in Tracked : requests'[c] = Aged(requests[c])
      /\ \A c \in Clients : /\ admitted'[c] = Recent(Aged(admitted[c]))
                            /\ forgotten'[c] = Older(forgotten[c], Window)
                            /\ silent'[c] = Older(silent[c], Window)
      /\ DOMAIN requests' = Tracked
  BY DEF Tick, Tracked
<1>2. \A c \in Clients :
         /\ forgotten[c] \in 0..Window /\ forgotten'[c] \in 0..Window
         /\ silent[c] \in 0..Window /\ silent'[c] \in 0..Window
         /\ admitted[c] \in SUBSET Stamps /\ IsFiniteSet(admitted[c])
  BY <1>1, OlderIs DEF TimesOK
<1>3. TimesOK'
  <2>1. ASSUME NEW c \in Tracked
        PROVE  requests'[c] \subseteq Stamps /\ IsFiniteSet(requests'[c])
    BY <1>1, AgedTimes DEF TimesOK
  <2>2. ASSUME NEW c \in Clients
        PROVE  /\ admitted'[c] \subseteq Stamps /\ IsFiniteSet(admitted'[c])
               /\ Recent(admitted'[c]) = admitted'[c]
    <3>1. Aged(admitted[c]) \in SUBSET Stamps /\ IsFiniteSet(Aged(admitted[c]))
      BY <1>2, AgedTimes
    <3>2. /\ Recent(Aged(admitted[c])) \in SUBSET Aged(admitted[c])
          /\ IsFiniteSet(Recent(Aged(admitted[c])))
      BY <3>1, YoungerOnes DEF Recent
    <3>3. Recent(Recent(Aged(admitted[c]))) = Recent(Aged(admitted[c]))
      BY DEF Recent, Younger
    <3> QED
      BY <1>1, <3>1, <3>2, <3>3
  <2>3. /\ forgotten' \in [Clients -> 0..Window]
        /\ silent' \in [Clients -> 0..Window]
    BY <1>2 DEF Tick
  <2>4. admitted' = [c \in Clients |-> admitted'[c]]
    BY DEF Tick
  <2>5. told' = [c \in Clients |-> told'[c]]
    BY <1>1 DEF TimesOK
  <2>6. Tracked' \subseteq Clients
    BY <1>1 DEF TimesOK
  <2>7. \A c \in Clients : Recent(admitted[c])' = Recent(admitted'[c])
    BY DEF Recent, Younger
  <2> QED
    BY <1>1, <2>1, <2>2, <2>3, <2>4, <2>5, <2>6, <2>7 DEF TimesOK, Stamps
<1>4. ASSUME NEW c \in Clients
      PROVE  Since(c)' = Younger(Aged(admitted[c]), Older(forgotten[c], Window))
  <2>1. Aged(admitted[c]) \in SUBSET Stamps /\ Older(forgotten[c], Window) \in 0..Window
    BY <1>2, OlderIs, AgedTimes
  <2>2. Since(c)' = Younger(Recent(Aged(admitted[c])), Older(forgotten[c], Window))
    BY <1>1 DEF Since, Younger
  <2> QED
    BY <2>1, <2>2, YoungerRecent
<1>5. AgreeOK'
  <2> SUFFICES ASSUME NEW c \in Clients
               PROVE  Younger(Times(requests, c), forgotten[c])' = Since(c)'
    BY DEF AgreeOK
  <2>1. Younger(Times(requests, c), forgotten[c]) = Younger(admitted[c], forgotten[c])
    BY DEF AgreeOK, Since
  <2>2. CASE c \in Tracked
    <3>1. requests[c] \in SUBSET Stamps
      BY <2>2 DEF TimesOK
    <3>2. Younger(Times(requests, c), forgotten[c]) = Younger(requests[c], forgotten[c])
      BY <1>2, <2>2, <3>1, YoungerRecent DEF Times, Tracked
    <3>3. Younger(Aged(requests[c]), Older(forgotten[c], Window))
            = Younger(Aged(admitted[c]), Older(forgotten[c], Window))
      BY <1>2, <2>1, <3>1, <3>2, AgedAgree
    <3>4. Younger(Times(requests, c), forgotten[c])'
            = Younger(Aged(requests[c]), Older(forgotten[c], Window))
      <4>1. Aged(requests[c]) \in SUBSET Stamps
        BY <2>2, <3>1, AgedTimes DEF TimesOK
      <4>2. Times(requests, c)' = Recent(Aged(requests[c]))
        BY <1>1, <2>2 DEF Times, Tracked, Recent, Younger
      <4>3. Younger(Recent(Aged(requests[c])), Older(forgotten[c], Window))
              = Younger(Aged(requests[c]), Older(forgotten[c], Window))
        BY <1>2, <4>1, OlderIs, YoungerRecent
      <4> QED
        BY <1>1, <4>2, <4>3 DEF Younger
    <3> QED
      BY <1>4, <3>3, <3>4
  <2>3. CASE c \notin Tracked
    <3>1. Younger(admitted[c], forgotten[c]) = Younger({}, forgotten[c])
      BY <2>1, <2>3 DEF Times, Tracked
    <3>2. Younger(Aged(admitted[c]), Older(forgotten[c], Window))
            = Younger(Aged({}), Older(forgotten[c], Window))
      BY <1>2, <3>1, AgedAgree
    <3>3. Younger(Aged({}), Older(forgotten[c], Window)) = {}
      BY DEF Younger, Aged
    <3>4. Younger(Times(requests, c), forgotten[c])' = {}
      BY <1>1, <2>3 DEF Younger, Times, Tracked
    <3> QED
      BY <1>4, <3>2, <3>3, <3>4
  <2> QED
    BY <2>2, <2>3
<1>6. WithinOK'
  <2> SUFFICES ASSUME NEW c \in Clients
               PROVE  /\ Cardinality(Since(c)') <= Rate
                      /\ Cardinality(Younger(Since(c)', BurstWindow)) <= Burst
    BY DEF WithinOK, Younger
  <2> DEFINE was == Younger(admitted[c], forgotten[c])
             is  == Younger(Aged(admitted[c]), Older(forgotten[c], Window))
  <2>1. was \in SUBSET Stamps /\ IsFiniteSet(was)
    BY <1>2, YoungerOnes
  <2>2. Cardinality(was) <= Rate /\ Cardinality(Younger(was, BurstWindow)) <= Burst
    BY DEF WithinOK, Since
  <2>3. /\ is \subseteq Aged(was)
        /\ Younger(is, BurstWindow) \subseteq Aged(Younger(was, BurstWindow))
    BY <1>2, AgedYounger
  <2>4. /\ Younger(was, BurstWindow) \in SUBSET Stamps
        /\ IsFiniteSet(Younger(was, BurstWindow))
    BY <2>1, YoungerOnes
  <2>5. Since(c)' = is
    BY <1>4
  <2> HIDE DEF was, is
  <2>6. Cardinality(is) <= Rate
    <3>1. IsFiniteSet(Aged(was)) /\ Cardinality(Aged(was)) <= Cardinality(was)
      BY <2>1, AgedTimes
    <3>2. Cardinality(Aged(was)) <= Rate
      BY <2>1, <2>2, <3>1, FS_CardinalityType, Numbers
    <3> QED
      BY <2>3, <3>1, <3>2, FewerTimes, Numbers
  <2>7. Cardinality(Younger(is, BurstWindow)) <= Burst
    <3> DEFINE b == Younger(was, BurstWindow)
    <3>1. /\ IsFiniteSet(Aged(b)) /\ Cardinality(Aged(b)) <= Cardinality(b)
          /\ IsFiniteSet(b) /\ Cardinality(b) <= Burst
      BY <2>2, <2>4, AgedTimes
    <3>2. Younger(is, BurstWindow) \subseteq Aged(b)
      BY <2>3
    <3> HIDE DEF b
    <3>3. Cardinality(Aged(b)) <= Burst
      BY <3>1, FS_CardinalityType, Numbers
    <3> QED
      BY <3>1, <3>2, <3>3, FewerTimes, Numbers
  <2> QED
    BY <2>5, <2>6, <2>7
<1>7. SilentOK'
  <2> SUFFICES ASSUME NEW c \in Tracked, NEW u \in Aged(requests[c])
               PROVE  silent'[c] <= u[1]
    BY <1>1 DEF SilentOK
  <2>1. PICK t \in requests[c] : u = <<Older(t[1], Window), t[2]>>
    BY DEF Aged
  <2>2. c \in Clients /\ t \in Stamps /\ silent[c] <= t[1]
    BY <2>1 DEF TimesOK, SilentOK
  <2>3. t[1] \in 0..Window /\ silent[c] \in 0..Window
    BY <1>2, <2>2 DEF Stamps
  <2>4. Older(silent[c], Window) <= Older(t[1], Window)
    BY <2>2, <2>3, OlderIs, Numbers
  <2> QED
    BY <1>1, <2>1, <2>2, <2>4
<1>8. TableIsBounded'
  BY <1>1 DEF TableIsBounded
<1> QED
  BY <1>3, <1>5, <1>6, <1>7, <1>8

\* A request is decided and recorded after the clean-up.
LEMMA DispatchKeeps ==
    ASSUME LimiterInv, NEW c \in Clients, Dispatch(c)
    PROVE  LimiterInv'
<1> USE DEF LimiterInv
<1>1. PICK table \in Cleanings :
        LET times     == Times(table, c)
            Record(s) == IF Decision(times) = "admitted" THEN s \cup {Now(s)} ELSE s
        IN /\ requests' = [d \in DOMAIN table \cup {c} |->
                             IF d = c THEN Record(times) ELSE table[d]]
           /\ seen' = (IF Due THEN {} ELSE seen) \cup {c}
           /\ admitted' = [admitted EXCEPT ![c] = Record(@)]
           /\ forgotten' = [d \in Clients |-> IF Due /\ d \in Active \ DOMAIN table
                                              THEN 0 ELSE forgotten[d]]
           /\ told' = [told EXCEPT ![c] = Decision(times)]
           /\ silent' = [silent EXCEPT ![c] = 0]
  BY DEF Dispatch
<1> DEFINE times     == Times(table, c)
           Record(s) == IF Decision(times) = "admitted" THEN s \cup {Now(s)} ELSE s
<1>2. /\ DOMAIN table \subseteq Tracked
      /\ \A d \in DOMAIN table : /\ table[d] \subseteq requests[d]
                                 /\ Recent(table[d]) = Recent(requests[d])
      /\ ~Due => table = requests
      /\ Due => IsFiniteSet(DOMAIN table) /\ Cardinality(DOMAIN table) <= MaxTracked
      /\ \A d \in Clients :
           \/ Due /\ d \in Active \ DOMAIN table
           \/ /\ Times(table, d) = Times(requests, d)
              /\ ~(d \in Active \ DOMAIN table)
  BY Cleaned
<1>3. /\ Tracked' = DOMAIN table \cup {c}
      /\ requests'[c] = Record(times)
      /\ \A d \in DOMAIN table \ {c} : requests'[d] = table[d]
      /\ admitted'[c] = Record(admitted[c])
      /\ \A d \in Clients \ {c} : admitted'[d] = admitted[d]
      /\ admitted' = [d \in Clients |-> admitted'[d]]
  BY <1>1 DEF Tracked, TimesOK
<1>4. /\ forgotten' \in [Clients -> 0..Window]
      /\ silent' \in [Clients -> 0..Window]
      /\ told' = [d \in Clients |-> told'[d]]
      /\ \A d \in Clients : forgotten'[d] = 0 \/ forgotten'[d] = forgotten[d]
  BY <1>1, Numbers DEF TimesOK
<1>5. \A d \in Clients :
         /\ forgotten[d] \in 0..Window /\ forgotten'[d] \in 0..Window
         /\ admitted[d] \in SUBSET Stamps /\ IsFiniteSet(admitted[d])
  BY <1>4 DEF TimesOK
<1>6. /\ times \in SUBSET Stamps /\ IsFiniteSet(times) /\ Recent(times) = times
      /\ c \in DOMAIN table => times \subseteq requests[c]
  <2>1. CASE c \in DOMAIN table
    <3>1. c \in Tracked /\ times = Recent(requests[c])
      BY <1>2, <2>1 DEF Times
    <3>2. requests[c] \in SUBSET Stamps /\ IsFiniteSet(requests[c])
      BY <3>1 DEF TimesOK
    <3>3. times \in SUBSET requests[c] /\ IsFiniteSet(times)
      BY <3>1, <3>2, YoungerOnes DEF Recent
    <3> QED
      BY <3>1, <3>2, <3>3 DEF Recent, Younger
  <2>2. CASE c \notin DOMAIN table
    BY <2>2, FS_EmptySet DEF Times, Recent, Younger
  <2> QED
    BY <2>1, <2>2
<1> HIDE DEF times
<1>7. ASSUME NEW s \in SUBSET Stamps, IsFiniteSet(s), Recent(s) = s
      PROVE  /\ Record(s) \in SUBSET Stamps /\ IsFiniteSet(Record(s))
             /\ Recent(Record(s)) = Record(s)
  <2>1. Now(s) \in Stamps /\ Now(s)[1] = 0
    BY <1>7, NowIs
  <2>2. IsFiniteSet(s \cup {Now(s)})
    BY <1>7, FS_AddElement
  <2>3. Recent(s \cup {Now(s)}) = s \cup {Now(s)}
    BY <1>7, <2>1, Numbers DEF Recent, Younger
  <2> QED
    BY <1>7, <2>1, <2>2, <2>3
<1>8. TimesOK'
  <2>1. Tracked' \subseteq Clients
    BY <1>2, <1>3 DEF TimesOK
  <2>2. ASSUME NEW d \in Tracked'
        PROVE  requests'[d] \subseteq Stamps /\ IsFiniteSet(requests'[d])
    <3>1. CASE d = c
      BY <1>3, <1>6, <1>7, <3>1
    <3>2. CASE d # c
      <4>1. d \in DOMAIN table /\ d \in Tracked /\ requests'[d] = table[d]
        BY <1>2, <1>3, <2>2, <3>2
      <4> QED
        BY <1>2, <4>1, FS_Subset DEF TimesOK
    <3> QED
      BY <3>1, <3>2
  <2>3. ASSUME NEW d \in Clients
        PROVE  /\ admitted'[d] \subseteq Stamps /\ IsFiniteSet(admitted'[d])
               /\ Recent(admitted'[d]) = admitted'[d]
    <3>1. admitted[d] \in SUBSET Stamps /\ IsFiniteSet(admitted[d])
          /\ Recent(admitted[d]) = admitted[d]
      BY DEF TimesOK
    <3>2. CASE d = c
      BY <1>3, <1>7, <3>1, <3>2
    <3>3. CASE d # c
      BY <1>3, <3>1, <3>3
    <3> QED
      BY <3>2, <3>3
  <2>4. \A d \in Clients : Recent(admitted[d])' = Recent(admitted'[d])
    BY DEF Recent, Younger
  <2> QED
    BY <1>3, <1>4, <2>1, <2>2, <2>3, <2>4 DEF TimesOK, Stamps
<1>9. ASSUME NEW d \in Clients
      PROVE  Younger(Times(table, d), forgotten'[d])
               = Younger(admitted[d], forgotten'[d])
  <2>1. CASE Due /\ d \in Active \ DOMAIN table
    <3>1. forgotten'[d] = 0 /\ Times(table, d) = {}
      BY <1>1, <2>1 DEF Times
    <3>2. \A t \in admitted[d] : ~(t[1] < 0)
      BY <1>5, Numbers DEF Stamps
    <3> QED
      BY <3>1, <3>2 DEF Younger
  <2>2. CASE ~(Due /\ d \in Active \ DOMAIN table)
    <3>1. forgotten'[d] = forgotten[d] /\ Times(table, d) = Times(requests, d)
      BY <1>1, <1>2, <2>2
    <3> QED
      BY <3>1 DEF AgreeOK, Since
  <2> QED
    BY <2>1, <2>2
<1>10. Younger(Record(times), forgotten'[c])
         = Younger(Record(admitted[c]), forgotten'[c])
  <2>1. Younger(times, forgotten'[c]) = Younger(admitted[c], forgotten'[c])
    BY <1>9 DEF times
  <2> QED
    BY <1>5, <1>6, <2>1, NowAgrees
<1>11. AgreeOK'
  <2> SUFFICES ASSUME NEW d \in Clients
               PROVE  Younger(Times(requests, d), forgotten[d])' = Since(d)'
    BY DEF AgreeOK
  <2>1. Since(d)' = Younger(admitted'[d], forgotten'[d])
    BY DEF Since, Younger
  <2>2. Younger(Times(requests, d), forgotten[d])'
          = Younger(Times(requests, d)', forgotten'[d])
    BY DEF Younger
  <2>3. CASE d = c
    <3>1. Times(requests, c)' = Record(times)
      BY <1>3, <1>6, <1>7 DEF Times, Recent, Younger, Tracked
    <3> QED
      BY <1>3, <1>10, <2>1, <2>2, <2>3, <3>1
  <2>4. CASE d # c
    <3>1. Times(requests, d)' = Times(table, d)
      BY <1>3, <2>4 DEF Times, Recent, Younger, Tracked
    <3> QED
      BY <1>3, <1>9, <2>1, <2>2, <2>4, <3>1
  <2> QED
    BY <2>3, <2>4
<1>12. ASSUME NEW d \in Clients
       PROVE  LET was == Younger(admitted[d], forgotten'[d])
              IN Cardinality(was) <= Rate /\ Cardinality(Younger(was, BurstWindow)) <= Burst
  <2> DEFINE was == Younger(admitted[d], forgotten'[d])
  <2>1. \A t \in admitted[d] : t[1] < forgotten'[d] => t[1] < forgotten[d]
    BY <1>4, <1>5 DEF Stamps
  <2>2. was \in SUBSET Since(d)
    BY <2>1 DEF Since, Younger
  <2>3. Younger(was, BurstWindow) \in SUBSET Younger(Since(d), BurstWindow)
    BY <2>2 DEF Younger
  <2>4. IsFiniteSet(Since(d)) /\ IsFiniteSet(Younger(Since(d), BurstWindow))
    BY <1>5, YoungerOnes DEF Since
  <2>5. /\ Cardinality(Since(d)) <= Rate
        /\ Cardinality(Younger(Since(d), BurstWindow)) <= Burst
    BY DEF WithinOK
  <2> HIDE DEF was
  <2>6. Cardinality(was) <= Rate /\ Cardinality(Younger(was, BurstWindow)) <= Burst
    BY <2>2, <2>3, <2>4, <2>5, FewerTimes, Numbers
  <2> QED
    BY <2>6 DEF was
<1>13. WithinOK'
  <2> SUFFICES ASSUME NEW d \in Clients
               PROVE  LET is == Younger(admitted'[d], forgotten'[d])
                      IN /\ Cardinality(is) <= Rate
                         /\ Cardinality(Younger(is, BurstWindow)) <= Burst
    BY DEF WithinOK, Since, Younger
  <2>1. CASE d # c \/ Decision(times) # "admitted"
    <3>1. admitted'[d] = admitted[d]
      BY <1>3, <2>1
    <3> QED
      BY <1>12, <3>1
  <2>2. CASE d = c /\ Decision(times) = "admitted"
    <3> DEFINE all == times \cup {Now(times)}
               young == Younger(times, BurstWindow)
               is == Younger(admitted'[c], forgotten'[c])
    <3>1. is = Younger(all, forgotten'[c])
      BY <1>3, <1>10, <2>2
    <3>2. Cardinality(times) < Rate /\ Cardinality(young) < Burst
      <4>1. ~(Cardinality(times) >= Rate) /\ ~(Cardinality(young) >= Burst)
        BY <2>2 DEF Decision
      <4>2. Cardinality(times) \in Nat /\ Cardinality(young) \in Nat
        BY <1>6, YoungerOnes
      <4> QED
        BY <4>1, <4>2, Numbers
    <3>3. IsFiniteSet(young)
      BY <1>6, YoungerOnes
    <3>4. is \in SUBSET all
      BY <3>1 DEF Younger
    <3>5. Younger(is, BurstWindow) \in SUBSET (young \cup {Now(times)})
      BY <3>1 DEF Younger
    <3> HIDE DEF young, is
    <3>6. IsFiniteSet(all) /\ Cardinality(all) <= Rate
      <4>1. /\ IsFiniteSet(all)
            /\ Cardinality(all) = Cardinality(times)
                 \/ Cardinality(all) = Cardinality(times) + 1
        BY <1>6, FS_AddElement
      <4>2. Cardinality(times) \in Nat
        BY <1>6, FS_CardinalityType
      <4> HIDE DEF all
      <4> QED
        BY <3>2, <4>1, <4>2, Numbers
    <3>7. /\ IsFiniteSet(young \cup {Now(times)})
          /\ Cardinality(young \cup {Now(times)}) <= Burst
      <4> DEFINE more == young \cup {Now(times)}
      <4>1. /\ IsFiniteSet(more)
            /\ Cardinality(more) = Cardinality(young)
                 \/ Cardinality(more) = Cardinality(young) + 1
        BY <3>3, FS_AddElement
      <4>2. Cardinality(young) \in Nat
        BY <3>3, FS_CardinalityType
      <4> HIDE DEF more
      <4>3. IsFiniteSet(more) /\ Cardinality(more) <= Burst
        BY <3>2, <4>1, <4>2, Numbers
      <4> QED
        BY <4>3 DEF more
    <3> HIDE DEF all
    <3>8. Cardinality(is) <= Rate /\ Cardinality(Younger(is, BurstWindow)) <= Burst
      BY <3>4, <3>5, <3>6, <3>7, FewerTimes, Numbers
    <3> QED
      BY <2>2, <3>8 DEF is
  <2> QED
    BY <2>1, <2>2
<1>14. SilentOK'
  <2> SUFFICES ASSUME NEW d \in Tracked', NEW t \in requests'[d]
               PROVE  silent'[d] <= t[1]
    BY DEF SilentOK
  <2>1. t \in Stamps
    BY <1>8 DEF TimesOK, Stamps
  <2>2. CASE d = c
    <3>1. silent'[c] = 0
      BY <1>1 DEF TimesOK
    <3> QED
      BY <2>1, <2>2, <3>1, Numbers DEF Stamps
  <2>3. CASE d # c
    <3>1. d \in DOMAIN table /\ t \in requests[d] /\ d \in Tracked
      BY <1>2, <1>3, <2>3
    <3>2. silent'[d] = silent[d]
      BY <1>1, <2>3
    <3> QED
      BY <3>1, <3>2 DEF SilentOK
  <2> QED
    BY <2>2, <2>3
<1>15. TableIsBounded'
  <2>1. CASE Due
    <3>1. (Tracked \ seen)' \in SUBSET DOMAIN table
      BY <1>1, <1>3, <2>1
    <3> QED
      BY <1>2, <2>1, <3>1, FewerTimes, Numbers DEF TableIsBounded
  <2>2. CASE ~Due
    <3>1. (Tracked \ seen)' \in SUBSET (Tracked \ seen)
      BY <1>1, <1>2, <1>3, <2>2 DEF Tracked
    <3>2. IsFiniteSet(Tracked \ seen)
      BY FS_Subset, LimiterAssumption DEF TimesOK
    <3> QED
      BY <3>1, <3>2, FewerTimes, Numbers DEF TableIsBounded
  <2> QED
    BY <2>1, <2>2
<1> QED
  BY <1>8, <1>11, <1>13, <1>14, <1>15

LEMMA LimiterNext ==
    ASSUME LimiterInv, [Next]_vars
    PROVE  LimiterInv'
<1>1. CASE UNCHANGED vars
  BY <1>1 DEF vars, LimiterInv, TimesOK, AgreeOK, WithinOK, SilentOK,
              TableIsBounded, Tracked, Stamps, Since, Younger, Times, Recent
<1>2. CASE Tick
  BY <1>2, TickKeeps
<1>3. ASSUME NEW c \in Clients, Dispatch(c) PROVE LimiterInv'
  BY <1>3, DispatchKeeps
<1> QED
  BY <1>1, <1>2, <1>3 DEF Next

-----------------------------------------------------------------------------
(***************************************************************************)
(* The theorems.                                                           *)
(***************************************************************************)

\* No client has more requests admitted in a window or a burst than the limits
\* say, unless the clean-up had to lose its times within that window.
THEOREM LimitsAreKept == Spec => []LimitHolds
<1>1. ASSUME LimiterInv PROVE LimitHolds
  <2> SUFFICES ASSUME NEW c \in Clients, forgotten[c] >= Window
               PROVE  /\ Cardinality(admitted[c]) =< Rate
                      /\ Cardinality(Younger(admitted[c], BurstWindow)) =< Burst
    BY DEF LimitHolds
  <2>1. forgotten[c] = Window
    BY <1>1, Numbers DEF LimiterInv, TimesOK
  <2>2. Since(c) = admitted[c]
    BY <1>1, <2>1 DEF LimiterInv, TimesOK, Since, Recent
  <2> QED
    BY <1>1, <2>2 DEF LimiterInv, WithinOK
<1> QED
  BY <1>1, LimiterInit, LimiterNext, PTL DEF Spec

\* Beside the clients seen since the last clean-up the table holds no more than
\* it is allowed to.
THEOREM TableStaysBounded == Spec => []TableIsBounded
<1>1. LimiterInv => TableIsBounded
  BY DEF LimiterInv
<1> QED
  BY <1>1, LimiterInit, LimiterNext, PTL DEF Spec

\* A client silent for as long as Retry-After tells it is not refused for the
\* limit it met.
THEOREM WaitingSuffices == Spec => RetryAfterSuffices
<1>1. ASSUME LimiterInv, NEW c \in Clients, Dispatch(c)
      PROVE  /\ silent[c] >= Window => told'[c] = "admitted"
             /\ silent[c] >= BurstWindow => told'[c] # "burst"
  <2>1. PICK table \in Cleanings : told' = [told EXCEPT ![c] = Decision(Times(table, c))]
    BY <1>1 DEF Dispatch
  <2> DEFINE times == Times(table, c)
  <2>2. told'[c] = Decision(times)
    BY <1>1, <2>1 DEF LimiterInv, TimesOK
  <2>3. \A t \in times : t[1] \in 0..Window /\ silent[c] <= t[1] /\ t[1] < Window
    <3>1. times \subseteq Times(requests, c)
      BY <1>1, Cleaned DEF Times
    <3> QED
      BY <1>1, <3>1 DEF LimiterInv, TimesOK, SilentOK, Times, Recent, Younger,
                        Stamps, Tracked
  <2>4. silent[c] \in 0..Window
    BY <1>1 DEF LimiterInv, TimesOK
  <2> HIDE DEF times
  <2>5. ASSUME silent[c] >= Window PROVE told'[c] = "admitted"
    <3>1. times = {}
      BY <2>3, <2>4, <2>5, Numbers
    <3>2. Younger(times, BurstWindow) = {}
      BY <3>1 DEF Younger
    <3> QED
      BY <2>2, <3>1, <3>2, FS_EmptySet, Numbers DEF Decision
  <2>6. ASSUME silent[c] >= BurstWindow PROVE told'[c] # "burst"
    <3>1. Younger(times, BurstWindow) = {}
      BY <2>3, <2>4, <2>6, Numbers DEF Younger
    <3>2. ~(Cardinality(Younger(times, BurstWindow)) >= Burst)
      BY <3>1, FS_EmptySet, Numbers
    <3> QED
      BY <2>2, <3>2 DEF Decision
  <2> QED
    BY <2>5, <2>6
<1>2. LimiterInv /\ [Next]_vars =>
        [\A c \in Clients : Dispatch(c) =>
           /\ told[c] = "rate" /\ silent[c] >= Window => told'[c] = "admitted"
           /\ told[c] = "burst" /\ silent[c] >= BurstWindow => told'[c] # "burst"]_vars
  BY <1>1
<1> QED
  BY <1>2, LimiterInit, LimiterNext, PTL DEF Spec, RetryAfterSuffices
===============================================================================
