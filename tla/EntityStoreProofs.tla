-------------------------- MODULE EntityStoreProofs --------------------------
(***************************************************************************)
(* Theorems about EntityStore, for every set of entities, requests, bodies *)
(* and keys and every bound.                                               *)
(***************************************************************************)
EXTENDS EntityStore, TLAPS

\* A request that is past its read has a row to change; one that creates an
\* entity has an id that no row and no other creation has.
RowsFound ==
    \A p \in Procs :
        /\ pc[p] \notin {"idle", "read"} /\ kind[p] # "create" =>
             rows[id[p]] # None
        /\ pc[p] # "idle" /\ kind[p] = "create" => rows[id[p]] = None
        /\ \A q \in Procs \ {p} :
             /\ pc[p] # "idle" /\ kind[p] = "create"
             /\ pc[q] # "idle" /\ kind[q] = "create"
             => id[q] # id[p]

\* Nobody but delete_entity sends the deletion stamp, and it never clears it.
NoUndelete ==
    \A p \in Procs :
        pc[p] # "idle" /\ kind[p] # "create" /\ "deleted" \in sent[p] =>
            val[p].deleted = TRUE

\* A flushed change waits for its commit, and clashes with no other row,
\* committed or flushed.
FlushedIsSafe(p) ==
    /\ pc[p] \in {"respond", "commit"}
    /\ After(p) \in Row
    /\ \A i \in Ids \ {id[p]} : rows[i] # None => ~Clash(After(p), rows[i])
    /\ \A q \in Procs \ {p} :
         pending[q] => id[q] # id[p] /\ ~Clash(After(p), After(q))

PendingOK == \A p \in Procs : pending[p] => FlushedIsSafe(p)

KeyInv == TypeOK /\ RowsFound /\ NoUndelete /\ PendingOK /\ KeysUnique

-----------------------------------------------------------------------------
(***************************************************************************)
(* Lemmas about rows and keys.                                             *)
(***************************************************************************)

\* Merging what a body sends into a row gives a row, unless a column that is
\* NOT NULL gets a null.
LEMMA MergeType ==
    ASSUME NEW r \in Row, NEW v \in Draft, NEW fs,
           Merge(r, v, fs).type # None, Merge(r, v, fs).active # None
    PROVE  Merge(r, v, fs) \in Row
BY DEF Merge, Row, Draft

\* The row that a permitted statement leaves is a row.
LEMMA AfterIsRow ==
    ASSUME TypeOK, NEW p \in Procs, ~BreaksNotNull(p),
           kind[p] # "create" => rows[id[p]] # None
    PROVE  After(p) \in Row
<1>1. val[p] \in Draft /\ id[p] \in Ids
  BY DEF TypeOK
<1>2. CASE kind[p] = "create"
  BY <1>1, <1>2 DEF After, BreaksNotNull, Draft, Row
<1>3. CASE kind[p] # "create"
  <2>1. rows[id[p]] \in Row
    BY <1>1, <1>3 DEF TypeOK
  <2> QED
    BY <1>1, <1>3, <2>1, MergeType DEF After, BreaksNotNull
<1> QED
  BY <1>2, <1>3

\* Clashing is symmetric.
LEMMA ClashSymmetric ==
    ASSUME NEW r, NEW s, Clash(r, s) PROVE Clash(s, r)
BY DEF Clash, SameEinKey, SameXeroKey

\* A request that a step leaves alone, on a row that it leaves alone, will
\* write what it would have written.
LEMMA AfterStays ==
    ASSUME NEW p \in Procs, kind'[p] = kind[p], id'[p] = id[p],
           sent'[p] = sent[p], val'[p] = val[p], seen'[p] = seen[p],
           rows'[id[p]] = rows[id[p]]
    PROVE  After(p)' = After(p)
<1>1. Changed(p)' = Changed(p)
  BY DEF Changed
<1> QED
  BY <1>1 DEF After, Merge

\* A step of a request without a flushed change, which neither commits nor
\* flushes, disturbs no other request's flushed change.
LEMMA LocalStep ==
    ASSUME KeyInv, NEW p \in Procs, ~pending[p],
           rows' = rows, pending' = pending,
           \A q \in Procs \ {p} :
               /\ pc'[q] = pc[q] /\ kind'[q] = kind[q] /\ id'[q] = id[q]
               /\ sent'[q] = sent[q] /\ val'[q] = val[q] /\ seen'[q] = seen[q]
    PROVE  PendingOK' /\ KeysUnique'
<1>1. KeysUnique'
  BY DEF KeyInv, KeysUnique
<1>2. ASSUME NEW q \in Procs, pending[q]
      PROVE  After(q)' = After(q) /\ id'[q] = id[q] /\ pc'[q] = pc[q]
  BY <1>2, AfterStays
<1>3. ASSUME NEW q \in Procs, pending'[q] PROVE FlushedIsSafe(q)'
  BY <1>2, <1>3 DEF KeyInv, PendingOK, FlushedIsSafe
<1> QED
  BY <1>1, <1>3 DEF PendingOK

-----------------------------------------------------------------------------
(***************************************************************************)
(* The steps.                                                              *)
(***************************************************************************)

\* The initial state satisfies the invariant.
LEMMA KeyInit == Init => KeyInv
<1> SUFFICES ASSUME Init PROVE KeyInv
  OBVIOUS
<1>1. Blank \in Row /\ Blank \in Draft
  BY DEF Blank, Row, Draft, Types
<1>2. TypeOK
  BY <1>1, BoundAssumption DEF Init, TypeOK, Steps, Kinds, Replies
<1> QED
  BY <1>2 DEF Init, KeyInv, RowsFound, NoUndelete, PendingOK, KeysUnique

\* A request arrives: it is about an entity, and has a body of its kind.
LEMMA ArriveStep ==
    ASSUME KeyInv, NEW p \in Procs, Arrive(p)
    PROVE  KeyInv'
<1> USE DEF KeyInv
<1>1. PICK k \in Kinds, i \in Ids, fs \in SUBSET Fields, v \in Draft :
        /\ Receive(p, k, i, fs, v)
        /\ k = "create" => FreshId(i)
        /\ k # "create" /\ "deleted" \in fs => v.deleted = TRUE
  <2>1. CASE ReceiveCreate(p)
    BY <2>1, BodyAssumption
    DEF ReceiveCreate, Kinds, Fields, Row, Draft
  <2>2. CASE ReceivePatch(p)
    BY <2>2, BodyAssumption DEF ReceivePatch, Kinds, Body
  <2>3. CASE ReceiveForm(p)
    BY <2>3, BodyAssumption DEF ReceiveForm, Kinds, Body
  <2>4. CASE ReceiveDelete(p)
    <3>1. Gone \in Draft /\ Gone.deleted = TRUE
      BY DEF Gone, Blank, Draft, Types
    <3>2. {"deleted"} \in SUBSET Fields /\ "delete" \in Kinds
      BY DEF Fields, Kinds
    <3>3. PICK i \in Ids : Receive(p, "delete", i, {"deleted"}, Gone)
      BY <2>4 DEF ReceiveDelete
    <3> QED
      BY <3>1, <3>2, <3>3
  <2> QED
    BY <2>1, <2>2, <2>3, <2>4 DEF Arrive
<1>2. TypeOK'
  BY <1>1, BoundAssumption
  DEF Receive, TypeOK, Steps, Kinds, Replies, Blank, Row, Types
<1>3. RowsFound'
  BY <1>1 DEF Receive, RowsFound, TypeOK, FreshId
<1>4. NoUndelete'
  BY <1>1 DEF Receive, NoUndelete, TypeOK
<1>5. ~pending[p]
  BY <1>1 DEF Receive, PendingOK, FlushedIsSafe
<1>6. PendingOK' /\ KeysUnique'
  BY <1>1, <1>5, LocalStep DEF Receive, TypeOK
<1> QED
  BY <1>2, <1>3, <1>4, <1>6

\* A request reads, checks or is refused.
LEMMA CheckStep ==
    ASSUME KeyInv, NEW p \in Procs,
           \/ NotFound(p) \/ PersonalRefused(p) \/ Read(p)
           \/ EinRefused(p) \/ EinFree(p)
           \/ XeroRefused(p) \/ XeroFree(p) \/ FlushRefused(p)
    PROVE  KeyInv'
<1> USE DEF KeyInv
<1> DEFINE Checks == {"read", "ein", "xero", "flush"}
<1>1. /\ pc[p] \in Checks /\ pc' = [pc EXCEPT ![p] = pc'[p]]
      /\ pc'[p] \in {"idle", "ein", "xero", "flush"}
      /\ pc'[p] # "idle" /\ pc[p] = "read" =>
           rows[id[p]] # None /\ seen'[p] = rows[id[p]]
      /\ reply' = [reply EXCEPT ![p] = reply'[p]] /\ reply'[p] \in Replies
      /\ seen' = [seen EXCEPT ![p] = seen'[p]]
      /\ seen'[p] \in {seen[p], rows[id[p]]}
      /\ seen'[p] # seen[p] => Live(id[p])
      /\ since' = [since EXCEPT ![p] = since'[p]] /\ since'[p] \in {since[p], {}}
      /\ UNCHANGED <<rows, kind, id, sent, val, pending, requests, faults>>
  BY DEF NotFound, PersonalRefused, Read, EinRefused, EinFree, XeroRefused,
     XeroFree, FlushRefused, Refuse, Goto, TypeOK, Live, Replies
<1>2. TypeOK'
  <2>1. seen'[p] \in Row
    BY <1>1 DEF TypeOK, Live
  <2> QED
    BY <1>1, <2>1 DEF TypeOK, Steps
<1>3. RowsFound'
  BY <1>1 DEF RowsFound, TypeOK
<1>4. NoUndelete'
  BY <1>1 DEF NoUndelete, TypeOK
<1>5. ~pending[p]
  BY <1>1 DEF PendingOK, FlushedIsSafe
<1>6. PendingOK' /\ KeysUnique'
  BY <1>1, <1>5, LocalStep DEF TypeOK
<1> QED
  BY <1>2, <1>3, <1>4, <1>6

\* A request flushes: nothing that is committed or flushed has its keys.
LEMMA FlushStep ==
    ASSUME KeyInv, NEW p \in Procs, Flush(p)
    PROVE  KeyInv'
<1> USE DEF KeyInv
<1>1. /\ TypeOK' /\ RowsFound' /\ NoUndelete' /\ KeysUnique'
  BY DEF Flush, TypeOK, Steps, Writes, RowsFound, NoUndelete, KeysUnique
<1>2. ASSUME NEW q \in Procs PROVE After(q)' = After(q)
  BY <1>2, AfterStays DEF Flush
<1>3. ~pending[p]
  BY DEF Flush, PendingOK, FlushedIsSafe
<1>4. ASSUME Writes(p)
      PROVE  /\ After(p) \in Row
             /\ \A i \in Ids \ {id[p]} :
                  rows[i] # None => ~Clash(After(p), rows[i])
             /\ \A q \in Procs \ {p} :
                  pending[q] => id[q] # id[p] /\ ~Clash(After(p), After(q))
  <2>1. ~Waits(p) /\ ~BreaksIndex(p) /\ ~BreaksNotNull(p)
    BY <1>4 DEF Flush, Violates
  <2>2. After(p) \in Row
    BY <2>1, AfterIsRow DEF Flush, RowsFound
  <2>3. ASSUME NEW i \in Ids \ {id[p]}, rows[i] # None
        PROVE  ~Clash(After(p), rows[i])
    BY <2>1, <2>3 DEF BreaksIndex, Locked, Waits
  <2> QED
    BY <2>1, <2>2, <2>3 DEF Waits
<1>5. ASSUME NEW q \in Procs, pending'[q] PROVE FlushedIsSafe(q)'
  <2>1. CASE q = p
    BY <1>2, <1>4, <1>5, <2>1 DEF Flush, FlushedIsSafe, TypeOK
  <2>2. CASE q # p
    <3>1. pending[q]
      BY <1>5, <2>2 DEF Flush, TypeOK
    <3>2. FlushedIsSafe(q)
      BY <3>1 DEF PendingOK
    <3>3. Writes(p) => id[q] # id[p] /\ ~Clash(After(q), After(p))
      BY <1>4, <2>2, <3>1, ClashSymmetric
    <3> QED
      BY <1>2, <2>2, <3>1, <3>2, <3>3 DEF Flush, FlushedIsSafe, TypeOK
  <2> QED
    BY <2>1, <2>2
<1> QED
  BY <1>1, <1>5 DEF PendingOK

\* A request is answered before its commit.
LEMMA RespondStep ==
    ASSUME KeyInv, NEW p \in Procs, Respond(p)
    PROVE  KeyInv'
<1> USE DEF KeyInv
<1>1. TypeOK' /\ RowsFound' /\ NoUndelete' /\ KeysUnique'
  BY DEF Respond, TypeOK, Steps, Replies, RowsFound, NoUndelete, KeysUnique
<1>2. ASSUME NEW q \in Procs PROVE After(q)' = After(q)
  BY <1>2, AfterStays DEF Respond
<1>3. ASSUME NEW q \in Procs, pending'[q] PROVE FlushedIsSafe(q)'
  BY <1>2, <1>3 DEF Respond, PendingOK, FlushedIsSafe, TypeOK
<1> QED
  BY <1>1, <1>3 DEF PendingOK

\* A session commits: what it flushed becomes the row, and clashes with none.
LEMMA CommitStep ==
    ASSUME KeyInv, NEW p \in Procs, Commit(p)
    PROVE  KeyInv'
<1> USE DEF KeyInv
<1>1. CASE ~pending[p]
  <2>1. rows' = rows /\ pending' = pending
    BY <1>1 DEF Commit, Committed, TypeOK
  <2>2. TypeOK' /\ RowsFound' /\ NoUndelete'
    BY <2>1 DEF Commit, SinceCommit, TypeOK, Steps, RowsFound, NoUndelete
  <2>3. PendingOK' /\ KeysUnique'
    BY <1>1, <2>1, LocalStep DEF Commit, TypeOK
  <2> QED
    BY <2>2, <2>3
<1>2. CASE pending[p]
  <2>1. FlushedIsSafe(p)
    BY <1>2 DEF PendingOK
  <2>2. /\ id[p] \in Ids
        /\ rows' = [rows EXCEPT ![id[p]] = After(p)]
        /\ rows'[id[p]] = After(p)
        /\ \A i \in Ids \ {id[p]} : rows'[i] = rows[i]
    BY <1>2 DEF Commit, Committed, TypeOK
  <2>3. TypeOK'
    BY <2>1, <2>2 DEF Commit, SinceCommit, FlushedIsSafe, TypeOK, Steps
  <2>4. RowsFound'
    <3>1. ASSUME NEW q \in Procs \ {p}, pc[q] # "idle", kind[q] = "create"
          PROVE  id[q] # id[p]
      BY <2>1, <3>1 DEF RowsFound, FlushedIsSafe
    <3>2. After(p) # None
      BY <2>1, NullAssumption DEF FlushedIsSafe
    <3> QED
      BY <2>2, <3>1, <3>2 DEF Commit, RowsFound, TypeOK
  <2>5. NoUndelete'
    BY DEF Commit, NoUndelete, TypeOK
  <2>6. KeysUnique'
    <3> SUFFICES ASSUME NEW i \in Ids, NEW j \in Ids, i # j,
                        rows'[i] # None, rows'[j] # None,
                        Clash(rows'[i], rows'[j])
                 PROVE  FALSE
      BY DEF KeysUnique
    <3>1. CASE i = id[p]
      BY <2>1, <2>2, <3>1 DEF FlushedIsSafe
    <3>2. CASE j = id[p]
      BY <2>1, <2>2, <3>2, ClashSymmetric DEF FlushedIsSafe
    <3>3. CASE i # id[p] /\ j # id[p]
      BY <2>2, <3>3 DEF KeysUnique
    <3> QED
      BY <3>1, <3>2, <3>3
  <2>7. ASSUME NEW q \in Procs, pending'[q] PROVE FlushedIsSafe(q)'
    <3>1. q # p /\ pending[q]
      BY <2>7 DEF Commit, TypeOK
    <3>2. FlushedIsSafe(q) /\ id[q] \in Ids
      BY <3>1 DEF PendingOK, TypeOK
    <3>3. ASSUME NEW r \in Procs \ {p}, pending[r] PROVE After(r)' = After(r)
      <4>1. id[r] # id[p] /\ id[r] \in Ids
        BY <2>1, <3>3 DEF FlushedIsSafe, TypeOK
      <4> QED
        BY <2>2, <4>1, AfterStays DEF Commit
    <3>4. After(q)' = After(q)
      BY <3>1, <3>3
    <3>5. \A i \in Ids \ {id[q]} : rows'[i] # None => ~Clash(After(q), rows'[i])
      <4>1. ~Clash(After(q), After(p)) /\ id[p] # id[q]
        BY <1>2, <3>1, <3>2 DEF FlushedIsSafe
      <4> QED
        BY <2>2, <3>2, <4>1 DEF FlushedIsSafe
    <3>6. /\ pc'[q] = pc[q] /\ id' = id
          /\ \A r \in Procs : pending'[r] => pending[r] /\ r # p
      BY <3>1 DEF Commit, TypeOK
    <3> QED
      BY <3>1, <3>2, <3>3, <3>4, <3>5, <3>6 DEF FlushedIsSafe
  <2> QED
    BY <2>3, <2>4, <2>5, <2>6, <2>7 DEF PendingOK
<1> QED
  BY <1>1, <1>2

\* A lost connection takes the flushed change with it.
LEMMA RollbackStep ==
    ASSUME KeyInv, NEW p \in Procs, CommitFails(p)
    PROVE  KeyInv'
<1> USE DEF KeyInv
<1>1. TypeOK' /\ RowsFound' /\ NoUndelete' /\ KeysUnique'
  BY BoundAssumption
  DEF CommitFails, TypeOK, Steps, Replies, RowsFound, NoUndelete, KeysUnique
<1>2. ASSUME NEW q \in Procs PROVE After(q)' = After(q)
  BY <1>2, AfterStays DEF CommitFails
<1>3. ASSUME NEW q \in Procs, pending'[q] PROVE FlushedIsSafe(q)'
  BY <1>2, <1>3 DEF CommitFails, PendingOK, FlushedIsSafe, TypeOK
<1> QED
  BY <1>1, <1>3 DEF PendingOK

\* Every step keeps the invariant.
LEMMA KeyNext == KeyInv /\ [Next]_vars => KeyInv'
<1> SUFFICES ASSUME KeyInv, [Next]_vars PROVE KeyInv'
  OBVIOUS
<1>1. ASSUME NEW p \in Procs, Handle(p) PROVE KeyInv'
  BY <1>1, CheckStep, FlushStep, RespondStep, CommitStep DEF Handle
<1>2. CASE UNCHANGED vars
  <2>1. ASSUME NEW q \in Procs PROVE After(q)' = After(q)
    BY <1>2, <2>1, AfterStays DEF vars
  <2> QED
    BY <1>2, <2>1
    DEF vars, KeyInv, TypeOK, RowsFound, NoUndelete, PendingOK, KeysUnique,
        FlushedIsSafe
<1> QED
  BY <1>1, <1>2, ArriveStep, RollbackStep DEF Next

\* The invariant holds in every reachable state.
LEMMA KeyInvariant == Spec => []KeyInv
BY KeyInit, KeyNext, PTL DEF Spec

-----------------------------------------------------------------------------
(***************************************************************************)
(* The theorems.                                                           *)
(***************************************************************************)

\* Every variable keeps its type, so no null reaches a column that is NOT
\* NULL.
THEOREM RowsTyped == Spec => []TypeOK
<1>1. KeyInv => TypeOK
  BY DEF KeyInv
<1> QED
  BY <1>1, KeyInvariant, PTL

\* No two committed rows hold the same key of a unique index.
THEOREM KeysStayUnique == Spec => []KeysUnique
<1>1. KeyInv => KeysUnique
  BY DEF KeyInv
<1> QED
  BY <1>1, KeyInvariant, PTL

\* A commit writes nothing but the fields its request sent, as it sent them.
LEMMA CommitWritesSent ==
    ASSUME KeyInv, NEW p \in Procs, Commit(p), NEW i \in Ids, NEW f \in Fields,
           rows[i] # None, rows'[i][f] # rows[i][f]
    PROVE  id[p] = i /\ f \in sent[p] /\ rows'[i][f] = val[p][f]
<1>1. pending[p] /\ id[p] = i /\ rows'[i] = After(p)
  BY DEF Commit, Committed, KeyInv, TypeOK
<1>2. kind[p] # "create"
  BY <1>1 DEF KeyInv, RowsFound, PendingOK, FlushedIsSafe
<1>3. rows'[i] = Merge(rows[i], val[p], Changed(p))
  BY <1>1, <1>2 DEF After
<1>4. rows[i] \in Row
  BY DEF KeyInv, TypeOK
<1>5. f \in Changed(p) /\ rows'[i][f] = val[p][f]
  BY <1>3, <1>4 DEF Merge, Fields, Row
<1> QED
  BY <1>1, <1>5 DEF Changed

\* A step that is not a commit leaves the rows alone.
LEMMA OnlyCommitWrites ==
    ASSUME KeyInv, [Next]_vars, \A p \in Procs : ~Commit(p)
    PROVE  rows' = rows
BY DEF Next, Arrive, ReceiveCreate, ReceivePatch, ReceiveForm, ReceiveDelete,
       Receive, Handle, NotFound, PersonalRefused, Read, EinRefused, EinFree,
       XeroRefused, XeroFree, FlushRefused, Refuse, Goto, Flush, Respond,
       CommitFails, vars

\* No update that another request has committed is lost.
THEOREM NoLostUpdate == Spec => OnlySentFieldsChange
<1>1. KeyInv /\ [Next]_vars =>
        [\A i \in Ids, f \in Fields :
            rows[i] # None /\ rows'[i] # rows[i] /\ rows'[i][f] # rows[i][f] =>
              \E p \in Procs : /\ pc[p] = "commit" /\ pc'[p] = "idle"
                              /\ id[p] = i /\ f \in sent[p]
                              /\ rows'[i][f] = val[p][f]]_vars
  <2> SUFFICES ASSUME KeyInv, [Next]_vars, NEW i \in Ids, NEW f \in Fields,
                      rows[i] # None, rows'[i] # rows[i],
                      rows'[i][f] # rows[i][f]
               PROVE  \E p \in Procs : /\ pc[p] = "commit" /\ pc'[p] = "idle"
                                       /\ id[p] = i /\ f \in sent[p]
                                       /\ rows'[i][f] = val[p][f]
    OBVIOUS
  <2>1. PICK p \in Procs : Commit(p)
    BY OnlyCommitWrites
  <2>2. pc[p] = "commit" /\ pc'[p] = "idle"
    BY <2>1 DEF Commit, KeyInv, TypeOK
  <2> QED
    BY <2>1, <2>2, CommitWritesSent
<1> QED
  BY <1>1, KeyInvariant, PTL DEF Spec, OnlySentFieldsChange

\* Deletion is final, whatever a request had read before it.
THEOREM DeletionIsFinal == Spec => DeletedStaysDeleted
<1>1. KeyInv /\ [Next]_vars =>
        [\A i \in Ids :
            rows[i] # None =>
              rows'[i] # None /\ (rows[i].deleted => rows'[i].deleted)]_vars
  <2> SUFFICES ASSUME KeyInv, [Next]_vars, NEW i \in Ids, rows[i] # None
               PROVE  rows'[i] # None /\ (rows[i].deleted => rows'[i].deleted)
    OBVIOUS
  <2>1. CASE rows' = rows
    BY <2>1
  <2>2. CASE rows' # rows
    <3>1. PICK p \in Procs : Commit(p)
      BY <2>2, OnlyCommitWrites
    <3>2. KeyInv'
      BY KeyNext
    <3>3. rows'[i] # None
      BY <3>1, NullAssumption
      DEF Commit, Committed, KeyInv, TypeOK, PendingOK, FlushedIsSafe
    <3>4. rows[i] \in Row /\ rows'[i] \in Row
      BY <3>2, <3>3 DEF KeyInv, TypeOK
    <3>5. ASSUME rows'[i].deleted # rows[i].deleted
          PROVE  rows'[i].deleted
      <4>1. /\ id[p] = i /\ "deleted" \in sent[p]
            /\ rows'[i].deleted = val[p].deleted
        BY <3>1, <3>5, CommitWritesSent DEF Fields
      <4>2. pc[p] # "idle" /\ kind[p] # "create"
        BY <3>1, <4>1 DEF Commit, KeyInv, RowsFound
      <4> QED
        BY <4>1, <4>2 DEF KeyInv, NoUndelete
    <3> QED
      BY <3>3, <3>4, <3>5 DEF Row
  <2> QED
    BY <2>1, <2>2
<1> QED
  BY <1>1, KeyInvariant, PTL DEF Spec, DeletedStaysDeleted

-----------------------------------------------------------------------------
(***************************************************************************)
(* Requests that overtake each other.                                      *)
(***************************************************************************)

\* The page's form selects a type, and entity_edit_save sets is_active from
\* whether the box is checked.
FormsComplete ==
    \A u \in FormBodies : u.val.type # None /\ u.val.active # None

\* A request carries a body of its kind.
BodyOK(p) ==
    CASE kind[p] = "create" -> val[p] \in CreateBodies /\ sent[p] = Fields
      [] kind[p] = "patch"  -> "deleted" \notin sent[p]
      [] kind[p] = "form"   -> /\ sent[p] = {"type", "ein", "active"}
                               /\ val[p].ein # EmptyEin
                               /\ FormsComplete => val[p].type # None
                                                   /\ val[p].active # None
      [] kind[p] = "delete" -> sent[p] = {"deleted"} /\ val[p] = Gone

\* Row r may be stored: it is no person with legal fields.
Fit(r) == r.type \in Personal => r.ein \in Absent

\* What a request knows whatever the others do: its body is one of its kind, an
\* update of the API was judged with the row as it was read, and who holds the
\* EIN it gives its entity was committed after its check.
RaceOK(p) ==
    /\ pc[p] # "idle" => BodyOK(p)
    /\ pc[p] = "read" => kind[p] # "create"
    /\ pc[p] \notin {"idle", "read"} =>
         /\ kind[p] = "create" => seen[p] = Blank
         /\ kind[p] = "patch" => Fit(Merge(seen[p], val[p], sent[p]))
    /\ pc[p] \in Checked /\ NewValue(p, "ein") => EinHolders(p) \subseteq since[p]

RaceInv == \A p \in Procs : RaceOK(p)

\* A request arrives with a body of its kind.
LEMMA ArriveBody ==
    ASSUME KeyInv, NEW p \in Procs, Arrive(p)
    PROVE  /\ BodyOK(p)' /\ rows' = rows /\ pc'[p] \in {"ein", "read"}
           /\ pc'[p] = "ein" <=> kind'[p] = "create"
           /\ seen'[p] = Blank /\ reply'[p] = "none"
<1> DEFINE Body1(k, fs, v) ==
       CASE k = "create" -> v \in CreateBodies /\ fs = Fields
         [] k = "patch"  -> "deleted" \notin fs
         [] k = "form"   -> /\ fs = {"type", "ein", "active"}
                            /\ v.ein # EmptyEin
                            /\ FormsComplete => v.type # None /\ v.active # None
         [] k = "delete" -> fs = {"deleted"} /\ v = Gone
<1>1. PICK k \in Kinds, i \in Ids :
        \E fs, v : Receive(p, k, i, fs, v) /\ Body1(k, fs, v)
  <2>1. CASE ReceiveCreate(p)
    BY <2>1 DEF ReceiveCreate, Kinds
  <2>2. CASE ReceivePatch(p)
    BY <2>2, BodyAssumption DEF ReceivePatch, Kinds
  <2>3. CASE ReceiveForm(p)
    <3>1. PICK i \in Ids, u \in FormBodies : Receive(p, "form", i, u.sent, u.val)
      BY <2>3 DEF ReceiveForm
    <3>2. Body1("form", u.sent, u.val)
      BY BodyAssumption DEF FormsComplete
    <3> QED
      BY <3>1, <3>2 DEF Kinds
  <2>4. CASE ReceiveDelete(p)
    BY <2>4 DEF ReceiveDelete, Kinds
  <2> QED
    BY <2>1, <2>2, <2>3, <2>4 DEF Arrive
<1>2. PICK fs, v : Receive(p, k, i, fs, v) /\ Body1(k, fs, v)
  BY <1>1
<1>3. /\ kind'[p] = k /\ sent'[p] = fs /\ val'[p] = v /\ seen'[p] = Blank
      /\ reply'[p] = "none" /\ pc'[p] = IF k = "create" THEN "ein" ELSE "read"
      /\ rows' = rows
  BY <1>2 DEF Receive, KeyInv, TypeOK
<1>4. BodyOK(p)'
  BY <1>2, <1>3 DEF BodyOK, Kinds
<1> QED
  BY <1>3, <1>4

\* What a step of a handler before its commit does not change.
LEMMA HandlerKeeps ==
    ASSUME NEW p \in Procs,
           \/ NotFound(p) \/ PersonalRefused(p) \/ Read(p)
           \/ EinRefused(p) \/ EinFree(p)
           \/ XeroRefused(p) \/ XeroFree(p) \/ FlushRefused(p)
           \/ Flush(p) \/ Respond(p) \/ CommitFails(p)
    PROVE  /\ pc[p] # "idle"
           /\ UNCHANGED <<rows, kind, id, sent, val>>
BY DEF NotFound, PersonalRefused, Read, EinRefused, EinFree, XeroRefused,
   XeroFree, FlushRefused, Flush, Respond, CommitFails, Refuse, Goto

\* A step of request p, before its commit or with it, keeps what it knows.
LEMMA OwnStep ==
    ASSUME KeyInv, NEW p \in Procs, RaceOK(p),
           Arrive(p) \/ Handle(p) \/ CommitFails(p)
    PROVE  RaceOK(p)'
<1> USE DEF KeyInv
<1>1. CASE Arrive(p)
  BY <1>1, ArriveBody DEF RaceOK, Checked
<1>2. CASE Commit(p)
  BY <1>2 DEF Commit, TypeOK, RaceOK, Checked
<1>3. CASE \/ NotFound(p) \/ PersonalRefused(p) \/ EinRefused(p)
           \/ XeroRefused(p) \/ FlushRefused(p) \/ CommitFails(p)
  <2>1. pc'[p] = "idle"
    BY <1>3 DEF NotFound, PersonalRefused, EinRefused, XeroRefused,
                FlushRefused, CommitFails, Refuse, TypeOK
  <2> QED
    BY <2>1 DEF RaceOK, Checked
<1>4. CASE Read(p)
  <2>1. /\ pc[p] = "read" /\ seen'[p] = rows[id[p]]
        /\ pc'[p] = IF kind[p] = "delete" THEN "flush" ELSE "ein"
        /\ UNCHANGED <<rows, kind, id, sent, val>>
        /\ kind[p] = "patch" => ~PersonalWithLegalFields(p)
    BY <1>4 DEF Read, Goto, TypeOK
  <2>2. BodyOK(p)' /\ kind[p] # "create"
    BY <2>1 DEF RaceOK, BodyOK
  <2>3. kind[p] = "patch" => Fit(Merge(seen[p], val[p], sent[p]))'
    BY <2>1 DEF PersonalWithLegalFields, Fit, Merge
  <2>4. pc'[p] \in Checked => ~NewValue(p, "ein")'
    <3>1. kind[p] = "delete" => "ein" \notin sent[p]
      BY <2>1 DEF RaceOK, BodyOK
    <3> QED
      BY <2>1, <3>1 DEF Checked, NewValue
  <2> QED
    BY <2>1, <2>2, <2>3, <2>4 DEF RaceOK
<1>5. CASE EinFree(p) \/ XeroFree(p) \/ Flush(p) \/ Respond(p)
  <2>1. /\ pc[p] \in {"ein", "xero", "flush", "respond"}
        /\ pc'[p] \in {"xero", "flush", "respond", "commit"}
        /\ pc[p] = "ein" => ~EinTaken(p)
        /\ UNCHANGED <<rows, kind, id, sent, val, seen, since>>
    BY <1>5 DEF EinFree, XeroFree, Flush, Respond, Goto, TypeOK
  <2>2. BodyOK(p)'
    BY <2>1 DEF RaceOK, BodyOK
  <2>3. Fit(Merge(seen[p], val[p], sent[p]))' <=> Fit(Merge(seen[p], val[p], sent[p]))
    BY <2>1 DEF Fit, Merge
  <2>4. /\ NewValue(p, "ein")' = NewValue(p, "ein")
        /\ EinHolders(p)' = EinHolders(p)
    BY <2>1 DEF NewValue, EinHolders
  <2>5. NewValue(p, "ein") => EinHolders(p) \subseteq since[p]
    BY <2>1 DEF RaceOK, Checked, EinTaken
  <2> QED
    BY <2>1, <2>2, <2>3, <2>4, <2>5 DEF RaceOK, Checked
<1> QED
  BY <1>1, <1>2, <1>3, <1>4, <1>5 DEF Handle

\* What a step of request p leaves of the others: only its commit shows, and they
\* remember whose row it was.
LEMMA OthersSee ==
    ASSUME KeyInv, NEW p \in Procs, Arrive(p) \/ Handle(p) \/ CommitFails(p),
           NEW q \in Procs \ {p}
    PROVE  /\ pc'[q] = pc[q] /\ kind'[q] = kind[q] /\ id'[q] = id[q]
           /\ sent'[q] = sent[q] /\ val'[q] = val[q] /\ seen'[q] = seen[q]
           /\ since[q] \subseteq since'[q]
           /\ \A i \in Ids : rows'[i] # rows[i] /\ pc[q] \in Checked => i \in since'[q]
<1> USE DEF KeyInv
<1>1. CASE Arrive(p)
  BY <1>1 DEF Arrive, ReceiveCreate, ReceivePatch, ReceiveForm, ReceiveDelete,
              Receive, TypeOK
<1>2. CASE Commit(p)
  BY <1>2 DEF Commit, Committed, SinceCommit, TypeOK
<1>3. CASE \/ NotFound(p) \/ PersonalRefused(p) \/ EinRefused(p)
           \/ XeroRefused(p) \/ FlushRefused(p) \/ CommitFails(p)
  BY <1>3 DEF NotFound, PersonalRefused, EinRefused, XeroRefused,
              FlushRefused, CommitFails, Refuse, TypeOK
<1>4. CASE Read(p) \/ EinFree(p) \/ XeroFree(p) \/ Flush(p) \/ Respond(p)
  BY <1>4 DEF Read, EinFree, XeroFree, Flush, Respond, Goto, TypeOK
<1> QED
  BY <1>1, <1>2, <1>3, <1>4 DEF Handle

\* Every step keeps what the requests know.
LEMMA RaceNext == KeyInv /\ RaceInv /\ [Next]_vars => RaceInv'
<1> SUFFICES ASSUME KeyInv, RaceInv, [Next]_vars, NEW q \in Procs
             PROVE  RaceOK(q)'
  BY DEF RaceInv
<1>0. RaceOK(q)
  BY DEF RaceInv
<1>1. ASSUME NEW p \in Procs \ {q}, Arrive(p) \/ Handle(p) \/ CommitFails(p)
      PROVE  RaceOK(q)'
  <2>1. /\ pc'[q] = pc[q] /\ kind'[q] = kind[q] /\ id'[q] = id[q]
        /\ sent'[q] = sent[q] /\ val'[q] = val[q] /\ seen'[q] = seen[q]
        /\ since[q] \subseteq since'[q]
        /\ \A i \in Ids : rows'[i] # rows[i] /\ pc[q] \in Checked => i \in since'[q]
    BY <1>1, OthersSee
  <2>2. pc[q] # "idle" => BodyOK(q)'
    BY <1>0, <2>1 DEF RaceOK, BodyOK
  <2>3. Fit(Merge(seen[q], val[q], sent[q]))' <=> Fit(Merge(seen[q], val[q], sent[q]))
    BY <2>1 DEF Fit, Merge
  <2>4. NewValue(q, "ein")' = NewValue(q, "ein")
    BY <2>1 DEF NewValue
  <2>5. ASSUME pc[q] \in Checked, NewValue(q, "ein")
        PROVE  (EinHolders(q) \subseteq since[q])'
    <3> SUFFICES ASSUME NEW j \in Ids \ {id[q]}, rows'[j] # None,
                        rows'[j].ein = val[q].ein
                 PROVE  j \in since'[q]
      BY <2>1 DEF EinHolders
    <3>1. CASE rows'[j] # rows[j]
      BY <2>1, <2>5, <3>1
    <3>2. CASE rows'[j] = rows[j]
      BY <1>0, <2>1, <2>5, <3>2 DEF RaceOK, EinHolders
    <3> QED
      BY <3>1, <3>2
  <2> QED
    BY <1>0, <2>1, <2>2, <2>3, <2>4, <2>5 DEF RaceOK
<1>2. CASE UNCHANGED vars
  <2>1. /\ BodyOK(q)' <=> BodyOK(q)
        /\ Fit(Merge(seen[q], val[q], sent[q]))' <=> Fit(Merge(seen[q], val[q], sent[q]))
    BY <1>2 DEF vars, BodyOK, Fit, Merge
  <2>2. (NewValue(q, "ein")' <=> NewValue(q, "ein")) /\ EinHolders(q)' = EinHolders(q)
    BY <1>2 DEF vars, NewValue, EinHolders
  <2> QED
    BY <1>0, <1>2, <2>1, <2>2 DEF vars, RaceOK
<1> QED
  BY <1>0, <1>1, <1>2, OwnStep DEF Next

\* The invariant holds in every reachable state.
LEMMA RaceInvariant == Spec => []RaceInv
<1>1. Init => RaceInv
  BY DEF Init, RaceInv, RaceOK, Checked
<1> QED
  BY <1>1, RaceNext, KeyInvariant, PTL DEF Spec

\* What a commit that changes a row writes.
LEMMA CommitWrites ==
    ASSUME KeyInv, NEW p \in Procs, Commit(p), rows'[id[p]] # rows[id[p]]
    PROVE  /\ pc[p] = "commit" /\ rows'[id[p]] = After(p) /\ After(p) \in Row
           /\ kind[p] = "create" <=> rows[id[p]] = None
           /\ kind[p] # "create" => rows[id[p]] \in Row
BY DEF Commit, Committed, KeyInv, TypeOK, PendingOK, FlushedIsSafe, RowsFound

\* Two live entities come to share an EIN only in a race: the one that is written
\* last had checked before the other was committed.
THEOREM SharedEinsWereRaced == Spec => SharedEinsRaced
<1>1. KeyInv /\ RaceInv /\ [Next]_vars =>
        [\A p \in Procs, j \in Ids :
          LET i == id[p] IN
          (/\ pc[p] = "commit" /\ pc'[p] = "idle" /\ rows'[i] # rows[i] /\ i # j
           /\ rows[i] # None => rows[i].ein # rows'[i].ein
           /\ ~rows'[i].deleted /\ rows'[i].ein \notin Absent
           /\ Live(j) /\ rows[j].ein = rows'[i].ein) =>
              j \in since[p]]_vars
  <2> SUFFICES ASSUME KeyInv, RaceInv, [Next]_vars, NEW p \in Procs, NEW j \in Ids,
                      pc[p] = "commit", pc'[p] = "idle",
                      rows'[id[p]] # rows[id[p]], id[p] # j,
                      rows[id[p]] # None => rows[id[p]].ein # rows'[id[p]].ein,
                      rows'[id[p]].ein \notin Absent,
                      Live(j), rows[j].ein = rows'[id[p]].ein
               PROVE  j \in since[p]
    OBVIOUS
  <2>0. RaceOK(p) /\ id[p] \in Ids
    BY DEF RaceInv, KeyInv, TypeOK
  <2>1. Commit(p)
    BY OnlyCommitWrites DEF Commit, KeyInv, TypeOK
  <2>2. /\ rows'[id[p]] = After(p)
        /\ kind[p] = "create" <=> rows[id[p]] = None
        /\ kind[p] # "create" => rows[id[p]] \in Row
    BY <2>1, CommitWrites
  <2>3. After(p).ein = val[p].ein /\ NewValue(p, "ein")
    <3>1. CASE kind[p] = "create"
      BY <2>0, <2>2, <3>1 DEF After, RaceOK, BodyOK, NewValue, Fields, Blank, Absent
    <3>2. CASE kind[p] # "create"
      <4>1. After(p) = Merge(rows[id[p]], val[p], Changed(p))
        BY <3>2 DEF After
      <4>2. "ein" \in Changed(p) /\ After(p).ein = val[p].ein
        BY <2>2, <3>2, <4>1 DEF Merge
      <4> QED
        BY <2>2, <4>2 DEF Changed, NewValue
    <3> QED
      BY <3>1, <3>2
  <2> QED
    BY <2>0, <2>2, <2>3 DEF RaceOK, Checked, EinHolders, Live
<1> QED
  BY <1>1, KeyInvariant, RaceInvariant, PTL DEF Spec, SharedEinsRaced

\* A person or household comes to have legal fields only through the form, or
\* through an update whose row was changed after it was judged.
THEOREM LegalPersonsWereRaced == Spec => LegalPersonsRaced
<1>1. KeyInv /\ RaceInv /\ [Next]_vars =>
        [\A p \in Procs :
          (/\ pc[p] = "commit" /\ pc'[p] = "idle"
           /\ LegalPerson(rows'[id[p]]) /\ ~LegalPerson(rows[id[p]])) =>
              kind[p] = "form" \/ (kind[p] = "patch" /\ rows[id[p]] # seen[p])]_vars
  <2> SUFFICES ASSUME KeyInv, RaceInv, [Next]_vars, NEW p \in Procs,
                      pc[p] = "commit", pc'[p] = "idle",
                      LegalPerson(rows'[id[p]]), ~LegalPerson(rows[id[p]]),
                      kind[p] # "form", kind[p] = "patch" => rows[id[p]] = seen[p]
               PROVE  FALSE
    OBVIOUS
  <2>0. /\ RaceOK(p) /\ BodyOK(p) /\ kind[p] \in {"create", "patch", "delete"}
        /\ rows'[id[p]] # rows[id[p]]
    BY DEF RaceInv, RaceOK, KeyInv, TypeOK, Kinds
  <2>1. Commit(p)
    BY <2>0, OnlyCommitWrites DEF Commit, KeyInv, TypeOK
  <2>2. /\ rows'[id[p]] = After(p) /\ ~Fit(After(p)) /\ ~After(p).deleted
        /\ kind[p] # "create" => rows[id[p]] \in Row
    BY <2>0, <2>1, CommitWrites DEF LegalPerson, Fit
  <2>3. CASE kind[p] = "create"
    BY <2>0, <2>2, <2>3, BodyAssumption DEF After, BodyOK, Fit
  <2>4. CASE kind[p] = "patch"
    <3>1. After(p) = Merge(seen[p], val[p], Changed(p))
      BY <2>4 DEF After
    <3>2. Merge(seen[p], val[p], Changed(p)) = Merge(seen[p], val[p], sent[p])
      BY DEF Merge, Changed
    <3> QED
      BY <2>0, <2>2, <2>4, <3>1, <3>2 DEF RaceOK
  <2>5. CASE kind[p] = "delete"
    <3>1. /\ sent[p] = {"deleted"} /\ val[p].deleted = TRUE
          /\ After(p) = Merge(rows[id[p]], val[p], Changed(p))
      BY <2>0, <2>5 DEF BodyOK, Gone, Blank, After
    <3>2. CASE "deleted" \in Changed(p)
      BY <2>2, <3>1, <3>2 DEF Merge
    <3>3. CASE "deleted" \notin Changed(p)
      <4>1. Changed(p) = {}
        BY <3>1, <3>3 DEF Changed
      <4>2. After(p) = rows[id[p]]
        BY <2>2, <2>5, <3>1, <4>1 DEF Merge, Row
      <4> QED
        BY <2>0, <2>2, <4>2
    <3> QED
      BY <3>2, <3>3
  <2> QED
    BY <2>0, <2>3, <2>4, <2>5
<1> QED
  BY <1>1, KeyInvariant, RaceInvariant, PTL DEF Spec, LegalPersonsRaced

-----------------------------------------------------------------------------
(***************************************************************************)
(* One request at a time.                                                  *)
(***************************************************************************)

\* No two rows have one EIN, whether they are live or deleted.
EinUnique ==
    \A i, j \in Ids :
        i # j /\ rows[i] # None /\ rows[j] # None /\ rows[i].ein \notin Absent =>
            rows[i].ein # rows[j].ein

\* Past its read, the request knows the row as it is; past the check, its EIN
\* is free.
KnowsOK(p) ==
    /\ pc[p] \notin {"idle", "read"} =>
         seen[p] = IF kind[p] = "create" THEN Blank ELSE rows[id[p]]
    /\ pc[p] = "read" => kind[p] # "create"
    /\ pc[p] \in {"xero", "flush", "respond", "commit"} => ~EinTaken(p)

AloneOK(p) ==
    /\ EinUnique
    /\ pc[p] # "idle" => BodyOK(p)
    /\ KnowsOK(p)
    /\ FormsComplete /\ faults = 0 => reply[p] # "error"

\* The initial state.
LEMMA AloneInit ==
    ASSUME NEW p, Procs = {p}, Init
    PROVE  AloneOK(p)
BY DEF Init, AloneOK, EinUnique, KnowsOK

\* The arrival of a request.
LEMMA AloneArrives ==
    ASSUME NEW p, Procs = {p}, KeyInv, AloneOK(p), Arrive(p)
    PROVE  AloneOK(p)'
<1>1. /\ BodyOK(p)' /\ rows' = rows /\ pc'[p] \in {"ein", "read"}
      /\ pc'[p] = "ein" <=> kind'[p] = "create"
      /\ seen'[p] = Blank /\ reply'[p] = "none"
  BY ArriveBody
<1>2. EinUnique'
  BY <1>1 DEF AloneOK, EinUnique
<1>3. KnowsOK(p)'
  BY <1>1 DEF KnowsOK
<1> QED
  BY <1>1, <1>2, <1>3 DEF AloneOK

\* Alone, a form breaks no constraint when it flushes.
LEMMA FormAlone ==
    ASSUME NEW p, Procs = {p}, KeyInv, AloneOK(p), FormsComplete,
           pc[p] = "flush", kind[p] = "form"
    PROVE  ~Violates(p)
<1> USE DEF KeyInv, AloneOK
<1>1. /\ sent[p] = {"type", "ein", "active"}
      /\ val[p].type # None /\ val[p].active # None
      /\ val[p] \in Draft /\ id[p] \in Ids
      /\ rows[id[p]] # None /\ rows[id[p]] \in Row
      /\ seen[p] = rows[id[p]] /\ ~EinTaken(p)
  BY DEF BodyOK, KnowsOK, RowsFound, TypeOK
<1>2. After(p) = Merge(rows[id[p]], val[p], Changed(p))
  BY DEF After
<1>3. /\ After(p).type \in {val[p].type, rows[id[p]].type}
      /\ After(p).active \in {val[p].active, rows[id[p]].active}
      /\ After(p).xero = rows[id[p]].xero
      /\ After(p).deleted = rows[id[p]].deleted
      /\ After(p).ein = IF "ein" \in Changed(p) THEN val[p].ein
                                                ELSE rows[id[p]].ein
  BY <1>1, <1>2 DEF Merge, Changed
<1>4. ~BreaksNotNull(p)
  BY <1>1, <1>3, NullAssumption DEF BreaksNotNull, Row
<1>5. ASSUME NEW i \in Ids \ {id[p]}, rows[i] # None
      PROVE  ~Clash(After(p), rows[i])
  <2>1. ~SameXeroKey(After(p), rows[i])
    BY <1>1, <1>3, <1>5 DEF KeysUnique, Clash, SameXeroKey
  <2>2. ~(After(p).ein \notin Absent /\ After(p).ein = rows[i].ein)
    <3>1. CASE "ein" \in Changed(p)
      <4>1. NewValue(p, "ein") \/ val[p].ein \in Absent
        BY <3>1 DEF NewValue, Changed
      <4>2. NewValue(p, "ein") => i \notin EinHolders(p)
        BY <1>1 DEF EinTaken
      <4> QED
        BY <1>3, <1>5, <3>1, <4>1, <4>2 DEF EinHolders
    <3>2. CASE "ein" \notin Changed(p)
      BY <1>1, <1>3, <1>5, <3>2 DEF EinUnique
    <3> QED
      BY <3>1, <3>2
  <2>3. After(p).ein = val[p].ein /\ val[p].ein # EmptyEin
    BY <1>1, <1>3 DEF BodyOK, Changed
  <2> QED
    BY <2>1, <2>2, <2>3 DEF Clash, SameEinKey, Absent
<1> QED
  BY <1>4, <1>5 DEF Violates, BreaksIndex

\* A step of the handler before its commit.
LEMMA AloneHandles ==
    ASSUME NEW p, Procs = {p}, KeyInv, AloneOK(p),
           \/ NotFound(p) \/ PersonalRefused(p) \/ Read(p)
           \/ EinRefused(p) \/ EinFree(p)
           \/ XeroRefused(p) \/ XeroFree(p) \/ FlushRefused(p)
           \/ Flush(p) \/ Respond(p) \/ CommitFails(p)
    PROVE  AloneOK(p)'
<1> USE DEF KeyInv
<1>1. pc[p] # "idle" /\ UNCHANGED <<rows, kind, id, sent, val>>
  BY HandlerKeeps
<1>2. EinUnique'
  BY <1>1 DEF AloneOK, EinUnique
<1>3. BodyOK(p)'
  BY <1>1 DEF AloneOK, BodyOK
<1>4. KnowsOK(p)'
  <2>1. seen'[p] = seen[p] => EinTaken(p)' = EinTaken(p)
    BY <1>1 DEF EinTaken, NewValue, EinHolders
  <2>2. CASE NotFound(p) \/ PersonalRefused(p) \/ EinRefused(p)
             \/ XeroRefused(p) \/ FlushRefused(p) \/ CommitFails(p)
    <3>1. pc'[p] = "idle"
      BY <2>2 DEF NotFound, PersonalRefused, EinRefused, XeroRefused,
                  FlushRefused, CommitFails, Refuse, TypeOK
    <3> QED
      BY <3>1 DEF KnowsOK
  <2>3. CASE Read(p)
    <3>1. /\ pc[p] = "read" /\ kind[p] # "create" /\ seen'[p] = rows[id[p]]
          /\ pc'[p] = IF kind[p] = "delete" THEN "flush" ELSE "ein"
      BY <2>3 DEF Read, Goto, TypeOK, AloneOK, KnowsOK
    <3>2. kind[p] = "delete" => ~EinTaken(p)'
      <4>1. kind[p] = "delete" => "ein" \notin sent'[p]
        BY <1>1 DEF AloneOK, BodyOK
      <4> QED
        BY <4>1 DEF EinTaken, NewValue
    <3> QED
      BY <1>1, <3>1, <3>2 DEF KnowsOK
  <2>4. CASE EinFree(p)
    <3>1. /\ pc[p] = "ein" /\ ~EinTaken(p) /\ seen'[p] = seen[p]
          /\ pc'[p] \in {"flush", "xero"}
      BY <2>4 DEF EinFree, Goto, TypeOK
    <3> QED
      BY <1>1, <2>1, <3>1 DEF KnowsOK, AloneOK
  <2>5. CASE XeroFree(p) \/ Flush(p) \/ Respond(p)
    <3>1. /\ pc[p] \in {"xero", "flush", "respond"} /\ seen'[p] = seen[p]
          /\ pc'[p] \in {"flush", "respond", "commit"}
      BY <2>5 DEF XeroFree, Flush, Respond, Goto, TypeOK
    <3> QED
      BY <1>1, <2>1, <3>1 DEF KnowsOK, AloneOK
  <2> QED
    BY <2>2, <2>3, <2>4, <2>5
<1>5. ASSUME FormsComplete, faults' = 0 PROVE reply'[p] # "error"
  <2>1. ~CommitFails(p) /\ faults = 0
    BY <1>5, HandlerKeeps DEF CommitFails, TypeOK, NotFound, PersonalRefused,
       Read, EinRefused, EinFree, XeroRefused, XeroFree, FlushRefused, Flush,
       Respond, Refuse, Goto
  <2>2. CASE EinRefused(p)
    <3>1. val[p].ein \notin Absent
      BY <2>2 DEF EinRefused, EinTaken, NewValue
    <3>2. ~Several(EinHolders(p))
      BY <3>1 DEF Several, EinHolders, AloneOK, EinUnique
    <3> QED
      BY <2>2, <3>2 DEF EinRefused, Refuse, TypeOK
  <2>3. CASE FlushRefused(p)
    <3>1. kind[p] # "form"
      BY <1>5, <2>3, FormAlone DEF FlushRefused
    <3> QED
      BY <2>3, <3>1 DEF FlushRefused, Refuse, TypeOK
  <2>4. CASE NotFound(p) \/ PersonalRefused(p) \/ XeroRefused(p) \/ Respond(p)
    BY <2>4 DEF NotFound, PersonalRefused, XeroRefused, Respond, Refuse, TypeOK
  <2>5. CASE Read(p) \/ EinFree(p) \/ XeroFree(p) \/ Flush(p)
    BY <1>5, <2>1, <2>5 DEF Read, EinFree, XeroFree, Flush, Goto, AloneOK
  <2> QED
    BY <2>1, <2>2, <2>3, <2>4, <2>5
<1> QED
  BY <1>2, <1>3, <1>4, <1>5 DEF AloneOK

\* What a commit writes, when no other request has changed the row: the fields
\* sent, of the row as it was read.
LEMMA CommitsRow ==
    ASSUME NEW p, Procs = {p}, KeyInv, AloneOK(p), Commit(p), pending[p]
    PROVE  /\ id[p] \in Ids /\ rows' = [rows EXCEPT ![id[p]] = After(p)]
           /\ rows'[id[p]] = After(p) /\ After(p) \in Row
           /\ \A i \in Ids \ {id[p]} : rows'[i] = rows[i]
           /\ kind[p] # "create" =>
                /\ rows[id[p]] \in Row
                /\ After(p) = Merge(rows[id[p]], val[p], sent[p])
<1> USE DEF KeyInv
<1>1. /\ id[p] \in Ids /\ After(p) \in Row
      /\ rows' = [rows EXCEPT ![id[p]] = After(p)]
      /\ rows'[id[p]] = After(p)
      /\ \A i \in Ids \ {id[p]} : rows'[i] = rows[i]
  BY DEF Commit, Committed, TypeOK, PendingOK, FlushedIsSafe
<1>2. ASSUME kind[p] # "create"
      PROVE  /\ rows[id[p]] \in Row
             /\ After(p) = Merge(rows[id[p]], val[p], sent[p])
  <2>1. seen[p] = rows[id[p]] /\ rows[id[p]] \in Row
    BY <1>1, <1>2 DEF Commit, AloneOK, KnowsOK, RowsFound, TypeOK
  <2>2. Merge(rows[id[p]], val[p], Changed(p))
          = Merge(rows[id[p]], val[p], sent[p])
    BY <2>1 DEF Merge, Changed
  <2> QED
    BY <1>2, <2>1, <2>2 DEF After
<1> QED
  BY <1>1, <1>2

\* The commit keeps the EINs apart.
LEMMA AloneCommits ==
    ASSUME NEW p, Procs = {p}, KeyInv, AloneOK(p), Commit(p)
    PROVE  AloneOK(p)'
<1> USE DEF KeyInv
<1>1. /\ pc[p] = "commit" /\ pc'[p] = "idle"
      /\ UNCHANGED <<kind, id, sent, val, seen, reply, requests, faults>>
  BY DEF Commit, TypeOK
<1>2. EinUnique'
  <2>1. CASE ~pending[p]
    BY <2>1 DEF Commit, Committed, AloneOK, EinUnique
  <2>2. CASE pending[p]
    <3>1. /\ id[p] \in Ids /\ rows'[id[p]] = After(p)
          /\ \A i \in Ids \ {id[p]} : rows'[i] = rows[i]
      BY <2>2, CommitsRow
    <3>2. BodyOK(p) /\ KnowsOK(p) /\ ~EinTaken(p) /\ EinUnique
      BY <1>1 DEF AloneOK, KnowsOK
    <3>3. ASSUME NEW i \in Ids \ {id[p]}, rows[i] # None, After(p).ein \notin Absent
          PROVE  After(p).ein # rows[i].ein
      <4>1. CASE kind[p] = "create"
        <5>1. /\ After(p) = val[p] /\ "ein" \in sent[p]
              /\ seen[p].ein \in Absent
          BY <1>1, <3>2, <4>1 DEF After, BodyOK, KnowsOK, Fields, Blank,
                                          Absent
        <5> QED
          BY <3>2, <3>3, <5>1 DEF EinTaken, NewValue, EinHolders
      <4>2. CASE kind[p] # "create"
        <5>1. /\ rows[id[p]] # None /\ seen[p] = rows[id[p]]
              /\ After(p) = Merge(rows[id[p]], val[p], Changed(p))
          BY <1>1, <3>2, <4>2 DEF After, KnowsOK, RowsFound
        <5>2. CASE "ein" \in Changed(p)
          <6>1. After(p).ein = val[p].ein /\ NewValue(p, "ein")
            BY <3>3, <5>1, <5>2 DEF Merge, Changed, NewValue
          <6> QED
            BY <3>2, <3>3, <6>1 DEF EinTaken, EinHolders
        <5>3. CASE "ein" \notin Changed(p)
          <6>1. After(p).ein = rows[id[p]].ein
            BY <5>1, <5>3 DEF Merge
          <6> QED
            BY <3>1, <3>2, <3>3, <5>1, <6>1 DEF EinUnique
        <5> QED
          BY <5>2, <5>3
      <4> QED
        BY <4>1, <4>2
    <3>4. ASSUME NEW i \in Ids, NEW j \in Ids, i # j,
                 rows'[i] # None, rows'[j] # None, rows'[i].ein \notin Absent
          PROVE  rows'[i].ein # rows'[j].ein
      BY <3>1, <3>2, <3>3, <3>4 DEF EinUnique
    <3> QED
      BY <3>4 DEF EinUnique
  <2> QED
    BY <2>1, <2>2
<1> QED
  BY <1>1, <1>2 DEF AloneOK, KnowsOK

\* No step of a request alone breaks its part of the invariant.
LEMMA AloneNext ==
    ASSUME NEW p, Procs = {p}, KeyInv, AloneOK(p), [Next]_vars
    PROVE  AloneOK(p)'
<1>1. CASE UNCHANGED vars
  BY <1>1 DEF vars, AloneOK, EinUnique, BodyOK, KnowsOK, EinTaken, NewValue,
              EinHolders
<1> QED
  BY <1>1, AloneArrives, AloneHandles, AloneCommits DEF Next, Handle

\* When requests come one at a time, and forms send what the page's form does, no
\* request ends in a server error unless its connection is lost.
THEOREM OnlyLostConnectionsFail ==
    ASSUME NEW p, Procs = {p}, FormsComplete
    PROVE  Spec => []NoServerError
<1>1. AloneOK(p) => NoServerError
  BY DEF AloneOK, NoServerError
<1>2. Init => AloneOK(p)
  BY AloneInit
<1>3. KeyInv /\ AloneOK(p) /\ [Next]_vars => AloneOK(p)'
  BY AloneNext
<1> QED
  BY <1>1, <1>2, <1>3, KeyInvariant, PTL DEF Spec

=============================================================================
