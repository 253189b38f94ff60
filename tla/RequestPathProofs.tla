-------------------------- MODULE RequestPathProofs --------------------------
(***************************************************************************)
(* The safety of RequestPath, for any number of slots, any pool and any    *)
(* requests: what is answered matches what was changed, and connections    *)
(* come back.                                                              *)
(***************************************************************************)
EXTENDS RequestPath, FiniteSetTheorems, TLAPS

\* What a slot's stage says of its changes and its answer.
StageOK(r) ==
    /\ pc[r] \in {"body", "limit", "wait", "work"} => saved[r] = "none"
    /\ pc[r] \in {"answer", "undo", "close"} => saved[r] \in {"none", "pending"}
    /\ pc[r] = "close" => answer[r] = "ok" \/ (answer[r] = "error" /\ saved[r] = "none")
    /\ pc[r] = "idle" => /\ answer[r] = "error" => saved[r] = "none"
                         /\ saved[r] \in {"none", "committed", "lost"}
                         /\ saved[r] # "none" => answer[r] = "ok"

Stages == \A r \in Slots : StageOK(r)

\* The inductive invariant.
IInv == TypeOK /\ Stages /\ ConnectionsComeBack

LEMMA InitHolds == Init => IInv
<1> SUFFICES ASSUME Init PROVE IInv
    OBVIOUS
<1>1. TypeOK
    BY DEF Init, TypeOK, First, Requests, Kinds, Urls
<1>2. Stages
    BY DEF Init, Stages, StageOK
<1>3. ConnectionsComeBack
    BY FS_EmptySet, PathAssumption DEF Init, ConnectionsComeBack
<1> QED
    BY <1>1, <1>2, <1>3 DEF IInv

\* A step of slot r to stage p, with changes s and answer a, that leaves the
\* other slots alone and keeps what StageOK asks.
StepOf(r, p, s, a) ==
    /\ pc' = [pc EXCEPT ![r] = p]
    /\ saved' = [saved EXCEPT ![r] = s]
    /\ answer' = [answer EXCEPT ![r] = a]
    /\ req' \in [Slots -> Requests]
    /\ p \in {"idle", "body", "limit", "wait", "work", "answer", "undo", "close"}
    /\ s \in {"none", "pending", "committed", "lost"}
    /\ a \in {"none", "ok", "error"}
    /\ p \in {"body", "limit", "wait", "work"} => s = "none"
    /\ p \in {"answer", "undo", "close"} => s \in {"none", "pending"}
    /\ p = "close" => a = "ok" \/ (a = "error" /\ s = "none")
    /\ p = "idle" => /\ a = "error" => s = "none"
                     /\ s \in {"none", "committed", "lost"}
                     /\ s # "none" => a = "ok"
    /\ \/ held' = held \ {r}
       \/ held' = held /\ (r \notin held \/ p \in {"work", "answer", "undo", "close"})
       \/ held' = held \cup {r} /\ Free /\ p = "work"

LEMMA OneSlot ==
    ASSUME IInv, NEW r \in Slots, NEW p, NEW s, NEW a, StepOf(r, p, s, a)
    PROVE  IInv'
<1>1. TypeOK'
    BY DEF IInv, TypeOK, StepOf
<1>2. Stages'
    BY DEF IInv, TypeOK, Stages, StageOK, StepOf
<1>3. \A q \in held' : pc'[q] \in {"work", "answer", "undo", "close"}
    BY DEF IInv, TypeOK, ConnectionsComeBack, StepOf
<1>4. Cardinality(held') =< PoolSize
  <2>1. IsFiniteSet(held) /\ Cardinality(held) \in Nat
      BY FS_Subset, FS_CardinalityType, PathAssumption DEF IInv, TypeOK
  <2>2. CASE held' = held \ {r}
    <3>1. Cardinality(held \ {r}) =< Cardinality(held) /\ Cardinality(held \ {r}) \in Nat
        BY <2>1, FS_Subset, FS_CardinalityType
    <3>2. PoolSize \in Nat /\ Cardinality(held) =< PoolSize
        BY PathAssumption DEF IInv, ConnectionsComeBack
    <3> QED
        BY <2>1, <2>2, <3>1, <3>2
  <2>3. CASE held' = held
      BY <2>3 DEF IInv, ConnectionsComeBack
  <2>4. CASE held' = held \cup {r} /\ Free
    <3>1. Cardinality(held \cup {r}) \in {Cardinality(held), Cardinality(held) + 1}
        BY <2>1, FS_AddElement
    <3>2. PoolSize \in Nat /\ Cardinality(held) < PoolSize
        BY <2>4, PathAssumption DEF Free
    <3> QED
        BY <2>1, <2>4, <3>1, <3>2
  <2> QED
      BY <2>2, <2>3, <2>4 DEF StepOf
<1> QED
    BY <1>1, <1>2, <1>3, <1>4 DEF IInv, ConnectionsComeBack

\* A slot whose request has ended holds the one that stands for none.
LEMMA EndTyped ==
    ASSUME IInv, NEW r \in Slots, End(r)
    PROVE  req' \in [Slots -> Requests] /\ pc' = [pc EXCEPT ![r] = "idle"]
<1>1. First \in Requests
    BY DEF First, Requests, Kinds
<1> QED
    BY <1>1 DEF End, Go, IInv, TypeOK

LEMMA NextKeeps == IInv /\ [Next]_vars => IInv'
<1> SUFFICES ASSUME IInv, [Next]_vars PROVE IInv'
    OBVIOUS
<1>1. CASE UNCHANGED vars
    BY <1>1 DEF IInv, TypeOK, Stages, StageOK, ConnectionsComeBack, vars
<1>2. ASSUME NEW r \in Slots, NEW q \in Inputs, Arrive(r, q) PROVE IInv'
  <2>1. /\ req' \in [Slots -> Requests] /\ r \notin held
        /\ pc' = [pc EXCEPT ![r] = pc'[r]] /\ pc'[r] \in {"idle", "body", "limit"}
        /\ answer' = [answer EXCEPT ![r] = answer'[r]] /\ answer'[r] \in {"none", "error"}
      BY <1>2, EndTyped, PathAssumption DEF Arrive, Go, Answer, IInv, TypeOK, ConnectionsComeBack
  <2>2. StepOf(r, pc'[r], "none", answer'[r])
      BY <1>2, <2>1 DEF Arrive, StepOf
  <2> QED
      BY <2>2, OneSlot
<1>3. ASSUME NEW r \in Slots, Refuse(r), pc[r] \in {"body", "limit"} PROVE IInv'
  <2>1. /\ saved' = [saved EXCEPT ![r] = "none"] /\ r \notin held
        /\ req' \in [Slots -> Requests]
      BY <1>3, EndTyped DEF Refuse, IInv, TypeOK, Stages, StageOK, ConnectionsComeBack
  <2>2. StepOf(r, "idle", "none", "error")
      BY <1>3, <2>1, EndTyped DEF Refuse, Answer, StepOf
  <2> QED
      BY <2>2, OneSlot
\* A slot without a connection moves on, having changed nothing.
<1>4. ASSUME NEW r \in Slots, NEW p \in {"idle", "limit", "wait", "undo"},
             pc[r] \in {"body", "limit", "wait"}, pc' = [pc EXCEPT ![r] = p],
             req' \in [Slots -> Requests], UNCHANGED <<held, saved>>,
             (UNCHANGED answer /\ p # "idle") \/ Answer(r, "ok")
      PROVE  IInv'
  <2>1. /\ saved' = [saved EXCEPT ![r] = "none"] /\ r \notin held
        /\ req' \in [Slots -> Requests]
        /\ answer' = [answer EXCEPT ![r] = answer'[r]]
        /\ answer'[r] \in {"none", "ok", "error"} /\ (p = "idle" => answer'[r] = "ok")
      BY <1>4 DEF Answer, IInv, TypeOK, Stages, StageOK, ConnectionsComeBack
  <2>2. StepOf(r, p, "none", answer'[r])
      BY <1>4, <2>1 DEF StepOf
  <2> QED
      BY <2>2, OneSlot
<1>5. ASSUME NEW r \in Slots, Limited(r) \/ ReadBody(r) \/ ClientLeaves(r) \/ Route(r) \/ PoolTimeout(r)
      PROVE  IInv'
  <2>1. CASE Limited(r)
      BY <2>1, <1>3 DEF Limited
  <2>2. CASE ReadBody(r)
      BY <2>2, <1>3, <1>4 DEF ReadBody, Go, IInv, TypeOK
  <2>3. CASE Route(r)
      BY <2>3, <1>3, <1>4, EndTyped DEF Route, Go, IInv, TypeOK
  <2>4. CASE PoolTimeout(r)
      BY <2>4, <1>4 DEF PoolTimeout, Go, IInv, TypeOK
  <2>5. CASE ClientLeaves(r)
      BY <2>5, <1>3 DEF ClientLeaves
  <2> QED
      BY <1>5, <2>1, <2>2, <2>3, <2>4, <2>5
<1>6. ASSUME NEW r \in Slots, Checkout(r) PROVE IInv'
  <2>1. /\ saved' = [saved EXCEPT ![r] = "none"] /\ req' \in [Slots -> Requests]
        /\ answer' = [answer EXCEPT ![r] = answer[r]]
        /\ answer[r] \in {"none", "ok", "error"}
      BY <1>6 DEF Checkout, IInv, TypeOK, Stages, StageOK
  <2>2. StepOf(r, "work", "none", answer[r])
      BY <1>6, <2>1 DEF Checkout, Go, StepOf
  <2> QED
      BY <2>2, OneSlot
<1>7. ASSUME NEW r \in Slots, Handle(r) PROVE IInv'
  <2>1. /\ pc[r] = "work" /\ saved[r] = "none"
        /\ answer = [answer EXCEPT ![r] = answer[r]]
        /\ answer[r] \in {"none", "ok", "error"} /\ req' \in [Slots -> Requests]
      BY <1>7, EndTyped DEF Handle, Probe, ShowPage, ShowData, OpenFile, Change, SaveForm,
                            At, Reply, IInv, TypeOK, Stages, StageOK
  <2>2. CASE Probe(r)
    <3>1. saved' = [saved EXCEPT ![r] = "none"]
        BY <2>1, <2>2 DEF Probe, IInv, TypeOK
    <3>2. StepOf(r, "idle", "none", "ok")
        BY <2>1, <2>2, <3>1, EndTyped DEF Probe, Answer, StepOf
    <3> QED
        BY <3>2, OneSlot
  <2>3. CASE ~Probe(r)
    <3>1. PICK s \in {"none", "pending"} : Reply(r, s)
        BY <1>7, <2>3 DEF Handle, ShowPage, ShowData, OpenFile, Change, SaveForm
    <3>2. StepOf(r, "answer", s, answer[r])
        BY <2>1, <3>1 DEF Reply, Go, StepOf
    <3> QED
        BY <3>2, OneSlot
  <2> QED
      BY <2>2, <2>3
<1>8. ASSUME NEW r \in Slots, HandlerRaises(r) PROVE IInv'
  <2>1. PICK s \in {"none", "pending"} : saved' = [saved EXCEPT ![r] = s]
      BY <1>8 DEF HandlerRaises
  <2>2. /\ answer' = [answer EXCEPT ![r] = answer[r]]
        /\ answer[r] \in {"none", "ok", "error"} /\ req' \in [Slots -> Requests]
      BY <1>8 DEF HandlerRaises, IInv, TypeOK
  <2>3. StepOf(r, "undo", s, answer[r])
      BY <1>8, <2>1, <2>2 DEF HandlerRaises, Go, StepOf
  <2> QED
      BY <2>3, OneSlot
<1>9. ASSUME NEW r \in Slots, Undo(r) PROVE IInv'
  <2>1. StepOf(r, "idle", "none", "error")
      BY <1>9, EndTyped DEF Undo, Answer, IInv, TypeOK, StepOf
  <2> QED
      BY <2>1, OneSlot
<1>10. ASSUME NEW r \in Slots, Send(r) PROVE IInv'
  <2>1. /\ saved' = [saved EXCEPT ![r] = saved[r]]
        /\ saved[r] \in {"none", "pending"} /\ req' \in [Slots -> Requests]
      BY <1>10 DEF Send, IInv, TypeOK, Stages, StageOK
  <2>2. Outcome(r) = "ok" \/ (Outcome(r) = "error" /\ saved[r] = "none")
      BY DEF Outcome
  <2>3. StepOf(r, "close", saved[r], Outcome(r))
      BY <1>10, <2>1, <2>2 DEF Send, Go, Answer, StepOf
  <2> QED
      BY <2>2, <2>3, OneSlot
<1>11. ASSUME NEW r \in Slots, Commit(r) \/ CommitFails(r) PROVE IInv'
  <2>1. PICK s \in {"none", "committed", "lost"} :
           Close(r, s) /\ (saved[r] = "none" => s = "none")
      BY <1>11 DEF Commit, CommitFails, Close, IInv, Stages, StageOK
  <2>2. /\ answer' = [answer EXCEPT ![r] = answer[r]] /\ req' \in [Slots -> Requests]
        /\ answer[r] = "ok" \/ (answer[r] = "error" /\ s = "none")
      BY <2>1, EndTyped DEF Close, IInv, TypeOK, Stages, StageOK
  <2>3. StepOf(r, "idle", s, answer[r])
      BY <2>1, <2>2, EndTyped DEF Close, Released, StepOf
  <2> QED
      BY <2>2, <2>3, OneSlot
<1> QED
    BY <1>1, <1>2, <1>5, <1>6, <1>7, <1>8, <1>9, <1>10, <1>11 DEF Next, Client, Ending

\* The inductive invariant holds in every reachable state.
LEMMA Invariance == Spec => []IInv
BY InitHolds, NextKeeps, PTL DEF Spec

\* What is answered matches what was changed (get_async_session, and the order
\* of the answer and the commit).
THEOREM AnswersHold == Spec => []AnswersMatchEffects
<1>1. IInv => AnswersMatchEffects
    BY DEF IInv, Stages, StageOK, AnswersMatchEffects
<1> QED
    BY <1>1, Invariance, PTL

\* Connections come back and never exceed the pool (db/session.py).
THEOREM ConnectionsHold == Spec => []ConnectionsComeBack
<1>1. IInv => ConnectionsComeBack
    BY DEF IInv
<1> QED
    BY <1>1, Invariance, PTL
=============================================================================
