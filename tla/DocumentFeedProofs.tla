-------------------------- MODULE DocumentFeedProofs --------------------------
(***************************************************************************)
(* Theorems about DocumentFeed, for every set of documents and writers and *)
(* every page size and bound.                                              *)
(***************************************************************************)
EXTENDS DocumentFeed, FiniteSetTheorems, WellFoundedInduction, TLAPS

\* The overlap the consumer needs: an import may commit that much behind the
\* clock, and the poll that misses it ends that much later.
OverlapSuffices == Overlap >= LongestImport + LongestPoll

\* What lies in the past, and how far.
TimesOK ==
    /\ \A d \in Docs : stamp[d] <= now
    /\ newest <= now
    /\ \A w \in Writers :
         Open(w) => began[w] <= now /\ now <= began[w] + LongestImport
    /\ page > 0 => polled <= now /\ now <= polled + LongestPoll

\* The watermark is behind what has been seen, by the overlap between polls.
SinceOK ==
    /\ since <= Watermark(newest)
    /\ page <= 1 => since = Watermark(newest)

Missed(d) == Visible(d) /\ d \notin taken

AheadOK == \A d \in Docs : Missed(d) => stamp[d] >= since

\* During a poll, what is missed has been committed since it began, or is on a
\* page still to come and not older than anything read.
PagingOK ==
    page > 0 =>
        \A d \in Docs : Missed(d) =>
            \/ polled <= stamp[d] + LongestImport
            \/ /\ page - 1 <= Position(d) \div PageSize
               /\ Watermark(newest) <= stamp[d]

FeedInv == TypeOK /\ TimesOK /\ SinceOK /\ AheadOK /\ PagingOK

-----------------------------------------------------------------------------
(***************************************************************************)
(* Lemmas about positions and watermarks.                                  *)
(***************************************************************************)

\* Rows of earlier positions are on the same page or an earlier one.
LEMMA DivMonotone ==
    ASSUME NEW a \in Nat, NEW b \in Nat, NEW n \in Nat \ {0}, a <= b
    PROVE  /\ a \div n \in Nat /\ b \div n \in Nat
           /\ a \div n <= b \div n
<1>1. n \in Nat /\ n > 0
  OBVIOUS
<1>2. a \div n \in Nat /\ b \div n \in Nat
  OBVIOUS
<1> QED
  BY <1>1, <1>2

\* Of some documents one has the newest stamp.
LEMMA NewestExists ==
    ASSUME TypeOK, NEW ds \in SUBSET Docs, ds # {}
    PROVE  \E d \in ds : \A e \in ds : stamp[e] <= stamp[d]
<1> DEFINE ages == {MaxTime - stamp[d] : d \in ds}
           R == {ss \in Nat \X Nat : ss[1] < ss[2]}
<1>1. \A d \in Docs : stamp[d] \in Nat /\ MaxTime - stamp[d] \in Nat
  BY FeedAssumption DEF TypeOK
<1>2. ages \subseteq Nat /\ ages # {}
  BY <1>1
<1>3. IsWellFoundedOn(R, Nat)
  BY NatLessThanWellFounded DEF OpToRel
<1>4. PICK m \in ages : \A k \in ages : <<k, m>> \notin R
  BY <1>2, <1>3, WFMin
<1>5. PICK d \in ds : m = MaxTime - stamp[d]
  BY <1>4
<1>6. ASSUME NEW e \in ds PROVE stamp[e] <= stamp[d]
  <2>1. ~(MaxTime - stamp[e] < MaxTime - stamp[d])
    BY <1>1, <1>2, <1>4, <1>5
  <2> QED
    BY <1>1, <2>1, FeedAssumption
<1> QED
  BY <1>6

\* The newest stamp seen is not older than any document just read, and is the
\* former one or that of a document just read.
LEMMA NewestIs ==
    ASSUME TypeOK, NEW ds \in SUBSET Docs
    PROVE  /\ newest <= Newest(ds)
           /\ Newest(ds) = newest \/ \E d \in ds : Newest(ds) = stamp[d]
           /\ Newest(ds) \in 0..MaxTime
<1>1. CASE ds = {}
  BY <1>1 DEF Newest, TypeOK
<1>2. CASE ds # {}
  <2> DEFINE last == CHOOSE d \in ds : \A e \in ds : stamp[e] <= stamp[d]
  <2>1. last \in ds
    BY <1>2, NewestExists
  <2>2. Newest(ds) = IF stamp[last] > newest THEN stamp[last] ELSE newest
    BY <1>2 DEF Newest
  <2> HIDE DEF last
  <2>3. stamp[last] \in 0..MaxTime /\ newest \in 0..MaxTime
    BY <2>1 DEF TypeOK
  <2> QED
    BY <2>1, <2>2, <2>3, FeedAssumption
<1> QED
  BY <1>1, <1>2

\* A watermark of something not newer than a stamp and the overlap.
LEMMA WatermarkBehind ==
    ASSUME NEW a \in Nat, NEW b \in Nat, a <= b + Overlap
    PROVE  Watermark(a) <= b
BY FeedAssumption DEF Watermark

LEMMA WatermarkMonotone ==
    ASSUME NEW a \in Nat, NEW b \in Nat, a <= b
    PROVE  Watermark(a) <= Watermark(b) /\ Watermark(a) \in 0..a
BY FeedAssumption DEF Watermark

\* A position is a number, at most that of the documents.
LEMMA Positions ==
    ASSUME NEW d
    PROVE  /\ Position(d) \in Nat /\ Position(d) \div PageSize \in Nat
           /\ 0 <= Position(d) \div PageSize
           /\ IsFiniteSet({e \in Selected : Before(e, d)})
           /\ Cardinality(Selected) \in 0..Cardinality(Docs)
<1>1. IsFiniteSet(Docs) /\ PageSize \in Nat \ {0}
  BY FeedAssumption
<1>2. Selected \in SUBSET Docs /\ {e \in Selected : Before(e, d)} \in SUBSET Docs
  BY DEF Selected
<1>3. /\ IsFiniteSet({e \in Selected : Before(e, d)}) /\ IsFiniteSet(Selected)
      /\ Cardinality(Selected) <= Cardinality(Docs)
  BY <1>1, <1>2, FS_Subset
<1>4. /\ Cardinality(Docs) \in Nat /\ Cardinality(Selected) \in Nat
      /\ Position(d) \in Nat
  BY <1>1, <1>3, FS_CardinalityType DEF Position
<1>5. Position(d) \div PageSize \in Nat
  BY <1>1, <1>4, DivMonotone
<1>6. 0 <= Position(d) \div PageSize
  BY <1>5
<1> QED
  BY <1>3, <1>4, <1>5, <1>6

\* A document on an earlier page is not newer.
LEMMA EarlierPagesAreOlder ==
    ASSUME TypeOK, NEW d \in Docs, NEW e \in Docs,
           Position(e) \div PageSize < Position(d) \div PageSize
    PROVE  stamp[e] <= stamp[d]
<1> SUFFICES ASSUME stamp[d] < stamp[e] PROVE FALSE
  BY FeedAssumption DEF TypeOK
<1>1. \A x \in Docs : stamp[x] \in Nat
  BY FeedAssumption DEF TypeOK
<1>2. {x \in Selected : Before(x, d)} \in SUBSET {x \in Selected : Before(x, e)}
  BY <1>1 DEF Before, Selected
<1>3. Position(d) <= Position(e)
  BY <1>2, Positions, FS_Subset DEF Position
<1>4. Position(d) \div PageSize <= Position(e) \div PageSize
  BY <1>3, Positions, DivMonotone, FeedAssumption
<1>5. /\ Position(d) \div PageSize \in Nat
      /\ Position(e) \div PageSize \in Nat
  BY Positions
<1> QED
  BY <1>4, <1>5

\* While the documents that exist keep their stamps and the watermark stands,
\* a document is only pushed to a later position.
LEMMA LaterPositions ==
    ASSUME NEW d
    PROVE  /\ Position(d)' \in Nat /\ Position(d)' \div PageSize \in Nat
           /\ 0 <= Position(d)' \div PageSize
           /\ (/\ UNCHANGED <<deleted, since>>
               /\ Exists(d) /\ d \in Docs
               /\ \A x \in Docs : Exists(x) => stamp'[x] = stamp[x]) =>
                Position(d) \div PageSize <= Position(d)' \div PageSize
<1>1. /\ Selected' \in SUBSET Docs
      /\ {e \in Selected' : Before(e, d)'} \in SUBSET Docs
      /\ Position(d)' = Cardinality({e \in Selected' : Before(e, d)'})
  BY DEF Selected, Position
<1>2. IsFiniteSet({e \in Selected' : Before(e, d)'})
  BY <1>1, FS_Subset, FeedAssumption
<1>3. Position(d)' \in Nat
  BY <1>1, <1>2, FS_CardinalityType
<1>4. ASSUME /\ UNCHANGED <<deleted, since>>
             /\ Exists(d) /\ d \in Docs
             /\ \A x \in Docs : Exists(x) => stamp'[x] = stamp[x]
      PROVE  Position(d) \div PageSize <= Position(d)' \div PageSize
  <2>1. {e \in Selected : Before(e, d)} \in SUBSET {e \in Selected' : Before(e, d)'}
    BY <1>4 DEF Selected, Matches, Visible, Exists, Before
  <2>2. Position(d) <= Position(d)'
    BY <1>1, <1>2, <2>1, FS_Subset DEF Position
  <2> QED
    BY <1>3, <2>2, Positions, DivMonotone, FeedAssumption
<1>5. Position(d)' \div PageSize \in Nat
  BY <1>3, DivMonotone, FeedAssumption
<1>6. 0 <= Position(d)' \div PageSize
  BY <1>5
<1> QED
  BY <1>3, <1>4, <1>5, <1>6

-----------------------------------------------------------------------------
(***************************************************************************)
(* The steps.                                                              *)
(***************************************************************************)
LEMMA FeedInit == Init => FeedInv
<1> SUFFICES ASSUME Init PROVE FeedInv
  OBVIOUS
<1>1. Cardinality(Docs) \in Nat
  BY FeedAssumption, FS_CardinalityType
<1>2. TypeOK
  BY <1>1, FeedAssumption DEF Init, TypeOK, None
<1>3. TimesOK
  BY DEF Init, TimesOK, Open
<1>4. SinceOK
  BY FeedAssumption DEF Init, SinceOK, Watermark
<1>5. AheadOK /\ PagingOK
  BY DEF Init, AheadOK, PagingOK, Missed, Visible, Exists
<1> QED
  BY <1>2, <1>3, <1>4, <1>5 DEF FeedInv

\* Time passes, and nothing else changes.
LEMMA TickKeeps ==
    ASSUME FeedInv, Tick
    PROVE  FeedInv'
<1> USE DEF FeedInv
<1>1. /\ now' = now + 1 /\ now < MaxTime
      /\ UNCHANGED <<stamp, deleted, began, page, polled, total, since, newest,
                     taken>>
  BY DEF Tick
<1>2. TypeOK'
  BY <1>1, FeedAssumption DEF TypeOK, None
<1>3. TimesOK'
  BY <1>1, FeedAssumption DEF TypeOK, TimesOK, Tick, Open
<1>4. SinceOK' /\ AheadOK'
  BY <1>1 DEF SinceOK, AheadOK, Missed, Visible, Exists, Watermark
<1>5. PagingOK'
  BY <1>1 DEF PagingOK, Missed, Visible, Exists, Watermark, Position, Selected,
              Matches, Before
<1> QED
  BY <1>2, <1>3, <1>4, <1>5

\* A transaction begins at the present time.
LEMMA BeginKeeps ==
    ASSUME FeedInv, NEW w \in Writers, Begin(w)
    PROVE  FeedInv'
<1> USE DEF FeedInv
<1>1. /\ began' = [began EXCEPT ![w] = now]
      /\ UNCHANGED <<now, stamp, deleted, page, polled, total, since, newest,
                     taken>>
  BY DEF Begin
<1>2. TypeOK'
  BY <1>1, FeedAssumption DEF TypeOK, None
<1>3. TimesOK'
  BY <1>1, FeedAssumption DEF TypeOK, TimesOK, Open
<1>4. SinceOK' /\ AheadOK'
  BY <1>1 DEF SinceOK, AheadOK, Missed, Visible, Exists, Watermark
<1>5. PagingOK'
  BY <1>1 DEF PagingOK, Missed, Visible, Exists, Watermark, Position, Selected,
              Matches, Before
<1> QED
  BY <1>2, <1>3, <1>4, <1>5

\* A poll begins: what is missed is not older than the watermark.
LEMMA StartKeeps ==
    ASSUME FeedInv, StartPoll
    PROVE  FeedInv'
<1> USE DEF FeedInv
<1>1. /\ page = 0 /\ page' = 1 /\ polled' = now
      /\ UNCHANGED <<now, stamp, deleted, began, total, since, newest, taken>>
  BY DEF StartPoll
<1>2. TypeOK'
  BY <1>1, FeedAssumption DEF TypeOK, None
<1>3. TimesOK'
  BY <1>1, FeedAssumption DEF TypeOK, TimesOK, Open
<1>4. SinceOK' /\ AheadOK'
  BY <1>1 DEF SinceOK, AheadOK, Missed, Visible, Exists, Watermark
<1>5. PagingOK'
  <2> SUFFICES ASSUME NEW d \in Docs, Missed(d)'
               PROVE  /\ 0 <= Position(d)' \div PageSize
                      /\ Watermark(newest) <= stamp[d]
    BY <1>1 DEF PagingOK, Watermark
  <2>1. Missed(d)
    BY <1>1 DEF Missed, Visible, Exists
  <2>2. Position(d)' = Position(d)
    BY <1>1 DEF Position, Selected, Matches, Visible, Exists, Before
  <2>3. 0 <= Position(d) \div PageSize
    BY Positions
  <2> QED
    <3>1. Watermark(newest) <= stamp[d]
      BY <1>1, <2>1 DEF AheadOK, SinceOK
    <3> QED
      BY <2>2, <2>3, <3>1
<1> QED
  BY <1>2, <1>3, <1>4, <1>5

\* The count of a request is at most that of the documents.
LEMMA CountKeeps ==
    ASSUME FeedInv, CountRows
    PROVE  FeedInv'
<1> USE DEF FeedInv
<1>1. /\ total' = Cardinality(Selected)
      /\ UNCHANGED <<now, stamp, deleted, began, page, polled, since, newest,
                     taken>>
  BY DEF CountRows
<1>2. Cardinality(Selected) \in 0..Cardinality(Docs) /\ Cardinality(Docs) \in Nat
  BY Positions, FeedAssumption, FS_CardinalityType
<1>3. TypeOK'
  BY <1>1, <1>2 DEF TypeOK, None
<1>4. TimesOK' /\ SinceOK' /\ AheadOK'
  BY <1>1 DEF TimesOK, Open, SinceOK, AheadOK, Missed, Visible, Exists, Watermark
<1>5. PagingOK'
  BY <1>1 DEF PagingOK, Missed, Visible, Exists, Watermark, Position, Selected,
              Matches, Before
<1> QED
  BY <1>3, <1>4, <1>5

\* An import commits: what it changed was not begun longer ago than it may
\* last, and what it left alone only moves to a later position.
LEMMA CommitKeeps ==
    ASSUME ~MovesWhilePaging, OverlapSuffices, FeedInv,
           NEW w \in Writers, CommitImport(w)
    PROVE  FeedInv'
<1> USE DEF FeedInv
<1>1. PICK changed \in SUBSET (Docs \ deleted) :
        /\ Paging => \A d \in changed : ~Exists(d)
        /\ stamp' = [d \in Docs |-> IF d \in changed THEN began[w]
                                                     ELSE stamp[d]]
        /\ taken' = taken \ changed
  BY DEF CommitImport
<1>2. /\ Open(w)
      /\ began' = [began EXCEPT ![w] = 0]
      /\ UNCHANGED <<now, deleted, page, polled, total, since, newest>>
  BY DEF CommitImport
<1>3. /\ began[w] \in 1..now /\ now <= began[w] + LongestImport
      /\ now \in Nat /\ since \in Nat /\ newest \in Nat /\ newest <= now
      /\ \A d \in Docs : stamp[d] \in Nat
  BY <1>2, FeedAssumption DEF TypeOK, TimesOK, Open
<1>4. /\ \A d \in changed : stamp'[d] = began[w]
      /\ \A d \in Docs \ changed : stamp'[d] = stamp[d]
  BY <1>1
<1>5. TypeOK'
  <2>1. stamp' \in [Docs -> 0..MaxTime]
    BY <1>1, <1>3, FeedAssumption DEF TypeOK
  <2>2. began' \in [Writers -> 0..MaxTime]
    BY <1>2, FeedAssumption DEF TypeOK
  <2> QED
    BY <1>1, <1>2, <2>1, <2>2 DEF TypeOK, None
<1>6. TimesOK'
  <2>1. \A d \in Docs : stamp'[d] <= now
    BY <1>1, <1>3, <1>4 DEF TimesOK
  <2>2. \A x \in Writers : Open(x)' =>
          began'[x] <= now /\ now <= began'[x] + LongestImport
    BY <1>2 DEF TypeOK, TimesOK, Open
  <2> QED
    BY <1>2, <2>1, <2>2 DEF TimesOK
<1>7. SinceOK'
  BY <1>2 DEF SinceOK, Watermark
<1>8. \A d \in Docs \ changed : Missed(d)' => Missed(d)
  BY <1>1, <1>2, <1>4 DEF Missed, Visible, Exists
<1>9. AheadOK'
  <2> SUFFICES ASSUME NEW d \in Docs, Missed(d)' PROVE stamp'[d] >= since
    BY <1>2 DEF AheadOK
  <2>1. CASE d \in changed
    <3>1. Watermark(newest) <= began[w]
      BY <1>3, WatermarkBehind, FeedAssumption DEF OverlapSuffices
    <3>2. Watermark(newest) \in Nat
      BY <1>3, WatermarkMonotone
    <3> QED
      BY <1>3, <1>4, <2>1, <3>1, <3>2 DEF SinceOK
  <2>2. CASE d \notin changed
    BY <1>4, <1>8, <2>2 DEF AheadOK
  <2> QED
    BY <2>1, <2>2
<1>10. PagingOK'
  <2> SUFFICES ASSUME page > 0, NEW d \in Docs, Missed(d)'
               PROVE  \/ polled <= stamp'[d] + LongestImport
                      \/ /\ page - 1 <= Position(d)' \div PageSize
                         /\ Watermark(newest) <= stamp'[d]
    BY <1>2 DEF PagingOK, Watermark
  <2>1. CASE d \in changed
    BY <1>3, <1>4, <2>1, FeedAssumption DEF TimesOK, TypeOK
  <2>2. CASE d \notin changed
    <3>1. \/ polled <= stamp[d] + LongestImport
          \/ /\ page - 1 <= Position(d) \div PageSize
             /\ Watermark(newest) <= stamp[d]
      BY <1>8, <2>2 DEF PagingOK
    <3>2. stamp'[d] = stamp[d]
      BY <1>4, <2>2
    <3>3. CASE page = 1
      <4>1. 0 <= Position(d)' \div PageSize
        BY LaterPositions
      <4> QED
        BY <3>1, <3>2, <3>3, <4>1
    <3>4. CASE page # 1
      <4>1. \A x \in changed : ~Exists(x)
        BY <1>1, <3>4 DEF Paging, TypeOK
      <4>2. Position(d) \div PageSize <= Position(d)' \div PageSize
        <5>1. \A x \in Docs : Exists(x) => stamp'[x] = stamp[x]
          BY <1>4, <4>1
        <5>2. Exists(d)
          BY <1>8, <2>2 DEF Missed, Visible
        <5> QED
          BY <1>2, <5>1, <5>2, LaterPositions
      <4>3. /\ Position(d) \div PageSize \in Nat
            /\ Position(d)' \div PageSize \in Nat
        BY Positions, LaterPositions
      <4> QED
        BY <3>1, <3>2, <4>2, <4>3 DEF TypeOK
    <3> QED
      BY <3>3, <3>4
  <2> QED
    BY <2>1, <2>2
<1> QED
  BY <1>5, <1>6, <1>7, <1>9, <1>10

\* A document is deleted between two pages only when documents may move then.
LEMMA DeleteKeeps ==
    ASSUME ~MovesWhilePaging, FeedInv, NEW x \in Docs, Delete(x)
    PROVE  FeedInv'
<1> USE DEF FeedInv
<1>1. /\ deleted' = deleted \cup {x} /\ ~Paging
      /\ UNCHANGED <<now, stamp, began, page, polled, total, since, newest,
                     taken>>
  BY DEF Delete
<1>2. \A d \in Docs : Missed(d)' => Missed(d)
  BY <1>1 DEF Missed, Visible, Exists
<1>3. TypeOK'
  BY <1>1, FeedAssumption DEF TypeOK, None
<1>4. TimesOK' /\ SinceOK' /\ AheadOK'
  BY <1>1, <1>2 DEF TimesOK, Open, SinceOK, AheadOK, Watermark
<1>5. PagingOK'
  <2> SUFFICES ASSUME page > 0, NEW d \in Docs, Missed(d)'
               PROVE  \/ polled <= stamp[d] + LongestImport
                      \/ /\ 0 <= Position(d)' \div PageSize
                         /\ Watermark(newest) <= stamp[d]
    BY <1>1 DEF PagingOK, Watermark, Paging, TypeOK
  <2>1. 0 <= Position(d)' \div PageSize
    BY LaterPositions
  <2> QED
    BY <1>2, <2>1 DEF PagingOK
<1> QED
  BY <1>3, <1>4, <1>5

\* What the page does not hold is on a later one, and what it holds is not
\* newer; what was committed since the poll began is within the overlap.
LEMMA FetchKeeps ==
    ASSUME OverlapSuffices, FeedInv, FetchPage
    PROVE  FeedInv'
<1> USE DEF FeedInv
<1>1. /\ page > 0
      /\ taken' = taken \cup Items(page)
      /\ newest' = Newest(Items(page))
      /\ total' = None
      /\ \/ page' = page + 1 /\ UNCHANGED <<polled, since>>
         \/ page' = 0 /\ polled' = 0 /\ since' = Watermark(newest')
      /\ UNCHANGED <<now, stamp, deleted, began>>
  BY DEF FetchPage
<1>2. /\ page \in Nat /\ polled \in Nat /\ now \in Nat /\ newest \in Nat
      /\ now \in 1..MaxTime /\ since \in 0..MaxTime
      /\ \A d \in Docs : stamp[d] \in Nat /\ stamp[d] <= now
  BY FeedAssumption DEF TypeOK, TimesOK
<1>3. Items(page) \in SUBSET Docs
  BY DEF Items, Selected
<1>4. /\ newest <= newest' /\ newest' \in 0..MaxTime
      /\ newest' = newest \/ \E e \in Items(page) : newest' = stamp[e]
  BY <1>1, <1>3, NewestIs
<1>5. newest' <= now
  BY <1>2, <1>3, <1>4 DEF TimesOK
<1>6. /\ Watermark(newest) <= Watermark(newest')
      /\ Watermark(newest') \in 0..newest'
      /\ Watermark(newest) \in Nat
  BY <1>2, <1>4, WatermarkMonotone
<1>7. TypeOK'
  <2>1. None \in Nat
    BY FeedAssumption, FS_CardinalityType DEF None
  <2>2. since' \in 0..MaxTime
    BY <1>1, <1>2, <1>4, <1>6, FeedAssumption
  <2>3. page' \in Nat /\ polled' \in 0..MaxTime
    BY <1>1, <1>2, FeedAssumption DEF TypeOK
  <2>4. total' \in 0..None'
    BY <1>1, <2>1 DEF None
  <2> QED
    BY <1>1, <1>3, <1>4, <2>2, <2>3, <2>4 DEF TypeOK
<1>8. TimesOK'
  BY <1>1, <1>2, <1>5 DEF TimesOK, Open
<1>9. SinceOK'
  <2>1. Watermark(newest)' = Watermark(newest')
    BY DEF Watermark
  <2>2. since' <= Watermark(newest')
    BY <1>1, <1>2, <1>6, FeedAssumption DEF SinceOK
  <2>3. page' <= 1 => since' = Watermark(newest')
    BY <1>1, <1>2
  <2> QED
    BY <2>1, <2>2, <2>3 DEF SinceOK
<1>10. ASSUME NEW d \in Docs, Missed(d)'
       PROVE  /\ Missed(d)
              /\ \/ polled <= stamp[d] + LongestImport
                 \/ /\ page <= Position(d) \div PageSize
                    /\ Watermark(newest') <= stamp[d]
  <2>1. Missed(d) /\ d \notin Items(page)
    BY <1>1, <1>10 DEF Missed, Visible, Exists
  <2> SUFFICES ASSUME ~(polled <= stamp[d] + LongestImport)
               PROVE  /\ page <= Position(d) \div PageSize
                      /\ Watermark(newest') <= stamp[d]
    BY <2>1
  <2>2. page - 1 <= Position(d) \div PageSize /\ Watermark(newest) <= stamp[d]
    BY <1>1, <2>1 DEF PagingOK
  <2>3. Position(d) \div PageSize # page - 1
    BY <2>1 DEF Items, Selected, Matches, AheadOK, Missed
  <2>4. Position(d) \div PageSize \in Nat
    BY Positions
  <2>5. page <= Position(d) \div PageSize
    BY <1>2, <2>2, <2>3, <2>4
  <2>6. CASE newest' = newest
    BY <2>2, <2>5, <2>6
  <2>7. ASSUME NEW e \in Items(page), newest' = stamp[e]
        PROVE  Watermark(newest') <= stamp[d]
    <3>1. e \in Docs /\ Position(e) \div PageSize = page - 1
      BY <2>7, <1>3 DEF Items
    <3>2. Position(e) \div PageSize < Position(d) \div PageSize
      BY <1>2, <2>4, <2>5, <3>1
    <3>3. stamp[e] <= stamp[d]
      BY <3>1, <3>2, EarlierPagesAreOlder
    <3> QED
      BY <1>2, <1>6, <2>7, <3>1, <3>3
  <2> QED
    BY <1>4, <2>5, <2>6, <2>7
<1>11. AheadOK'
  <2> SUFFICES ASSUME NEW d \in Docs, Missed(d)' PROVE stamp[d] >= since'
    BY <1>1 DEF AheadOK
  <2>1. CASE since' = since
    BY <1>10, <2>1 DEF AheadOK
  <2>2. CASE since' = Watermark(newest')
    <3>1. CASE polled <= stamp[d] + LongestImport
      <4>1. now <= polled + LongestPoll
        BY <1>1 DEF TimesOK
      <4>2. newest' <= stamp[d] + Overlap
        BY <1>2, <1>4, <1>5, <3>1, <4>1, FeedAssumption DEF OverlapSuffices
      <4>3. Watermark(newest') <= stamp[d]
        BY <1>2, <1>4, <4>2, WatermarkBehind
      <4> QED
        BY <1>2, <1>6, <2>2, <4>3
    <3>2. CASE Watermark(newest') <= stamp[d]
      BY <1>2, <1>6, <2>2, <3>2
    <3> QED
      BY <1>10, <3>1, <3>2
  <2> QED
    BY <1>1, <2>1, <2>2
<1>12. PagingOK'
  <2> SUFFICES ASSUME page' > 0, NEW d \in Docs, Missed(d)'
               PROVE  \/ polled' <= stamp[d] + LongestImport
                      \/ /\ page' - 1 <= Position(d)' \div PageSize
                         /\ Watermark(newest') <= stamp[d]
    BY <1>1 DEF PagingOK, Watermark
  <2>1. page' = page + 1 /\ polled' = polled /\ since' = since
    BY <1>1
  <2>2. Position(d)' = Position(d)
    BY <1>1, <2>1 DEF Position, Selected, Matches, Visible, Exists, Before
  <2>3. page' - 1 = page
    BY <1>2, <2>1
  <2> QED
    BY <1>10, <2>1, <2>2, <2>3
<1> QED
  BY <1>7, <1>8, <1>9, <1>11, <1>12

LEMMA FeedNext ==
    ASSUME ~MovesWhilePaging, OverlapSuffices, FeedInv, [Next]_vars
    PROVE  FeedInv'
<1>1. CASE Tick
  BY <1>1, TickKeeps
<1>2. CASE StartPoll
  BY <1>2, StartKeeps
<1>3. CASE CountRows
  BY <1>3, CountKeeps
<1>4. CASE FetchPage
  BY <1>4, FetchKeeps
<1>5. ASSUME NEW w \in Writers, Begin(w) PROVE FeedInv'
  BY <1>5, BeginKeeps
<1>6. ASSUME NEW w \in Writers, CommitImport(w) PROVE FeedInv'
  BY <1>6, CommitKeeps
<1>7. ASSUME NEW d \in Docs, Delete(d) PROVE FeedInv'
  BY <1>7, DeleteKeeps
<1>8. CASE UNCHANGED vars
  BY <1>8 DEF vars, FeedInv, TypeOK, None, TimesOK, Open, SinceOK, AheadOK,
              PagingOK, Missed, Visible, Exists, Watermark, Position, Selected,
              Matches, Before
<1> QED
  BY <1>1, <1>2, <1>3, <1>4, <1>5, <1>6, <1>7, <1>8 DEF Next

-----------------------------------------------------------------------------
(***************************************************************************)
(* The theorem.                                                            *)
(***************************************************************************)

\* A consumer of list_documents that keeps its watermark behind the newest
\* updated_at it has seen, by the longest import and the longest poll
\* together, never leaves a change behind the watermark, for every page size
\* and any number of documents and writers, as long as only new documents
\* appear between the pages of a poll.
THEOREM NothingFallsBehind ==
    ASSUME ~MovesWhilePaging, OverlapSuffices
    PROVE  Spec => []MissedIsStillAhead
<1>1. Init => FeedInv
  BY FeedInit
<1>2. FeedInv /\ [Next]_vars => FeedInv'
  BY FeedNext
<1>3. FeedInv => MissedIsStillAhead
  BY DEF FeedInv, AheadOK, Missed, MissedIsStillAhead
<1> QED
  BY <1>1, <1>2, <1>3, PTL DEF Spec
=============================================================================
