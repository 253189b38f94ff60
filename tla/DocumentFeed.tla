---------------------------- MODULE DocumentFeed ----------------------------
(***************************************************************************)
(* The change feed of list_documents (api/v1/endpoints/documents.py) and a *)
(* consumer that follows the rule its description gives: page through      *)
(* "updated_since", then poll again with a watermark a little behind the   *)
(* newest updated_at seen, taking documents by id.  updated_at is the time *)
(* at which the writing transaction began (AuditMixin), so a change becomes*)
(* visible only some time after its updated_at.                            *)
(***************************************************************************)
EXTENDS Naturals, FiniteSets

CONSTANTS
    Docs,           \* document ids, numbers, so that they can be ordered
    Writers,        \* transactions that can be open at once
    PageSize,       \* the size parameter
    Overlap,        \* how far the consumer's watermark stays behind
    LongestImport,  \* the longest a writing transaction lasts
    LongestPoll,    \* the longest the consumer takes for one poll
    MovesWhilePaging, \* whether documents change while a poll has pages left
    Deletable,      \* bound: documents that are ever deleted
    MaxTime         \* bound: the clock

ASSUME FeedAssumption ==
    /\ Docs \subseteq Nat /\ IsFiniteSet(Docs)
    /\ PageSize \in Nat \ {0}
    /\ Overlap \in Nat /\ LongestImport \in Nat /\ LongestPoll \in Nat
    /\ MaxTime \in Nat \ {0}
    /\ MovesWhilePaging \in BOOLEAN
    /\ Deletable \subseteq Docs

VARIABLES
    now,        \* the clock
    stamp,      \* updated_at of each document, 0 while it does not exist
    deleted,    \* soft-deleted documents
    began,      \* when each writer's open transaction began, 0 for none
    page,       \* the page the consumer asks for next, 0 between polls
    polled,     \* when its poll began, 0 between polls
    total,      \* what the count of the current request found
    since,      \* the watermark, the updated_since of the polls
    newest,     \* the newest updated_at the consumer has seen
    taken       \* documents of which the consumer has the current version

vars ==
    <<now, stamp, deleted, began, page, polled, total, since, newest, taken>>

Exists(d)  == stamp[d] > 0
Visible(d) == Exists(d) /\ d \notin deleted
Open(w)    == began[w] > 0
None       == Cardinality(Docs) + 1     \* total before the count is known

TypeOK ==
    /\ now \in 1..MaxTime
    /\ stamp \in [Docs -> 0..MaxTime]
    /\ deleted \subseteq Docs
    /\ began \in [Writers -> 0..MaxTime]
    /\ page \in Nat
    /\ polled \in 0..MaxTime
    /\ total \in 0..None
    /\ since \in 0..MaxTime
    /\ newest \in 0..MaxTime
    /\ taken \subseteq Docs

Init ==
    /\ now = 1
    /\ stamp = [d \in Docs |-> 0]
    /\ deleted = {}
    /\ began = [w \in Writers |-> 0]
    /\ page = 0
    /\ polled = 0
    /\ total = None
    /\ since = 0
    /\ newest = 0
    /\ taken = {}

-----------------------------------------------------------------------------
\* Time passes, but not beyond what an open transaction or a poll may take.
Tick ==
    /\ now < MaxTime
    /\ \A w \in Writers :
         Open(w) => now + 1 <= began[w] + LongestImport
    /\ page > 0 => now + 1 <= polled + LongestPoll
    /\ now' = now + 1
    /\ UNCHANGED <<stamp, deleted, began, page, polled, total, since, newest,
                   taken>>

\* A writer begins its transaction.
Begin(w) ==
    /\ ~Open(w)
    /\ began' = [began EXCEPT ![w] = now]
    /\ UNCHANGED <<now, stamp, deleted, page, polled, total, since, newest,
                   taken>>

\* The consumer has read a page and has more to read.
Paging == page > 1

\* A writer commits: what it created or changed becomes visible with the
\* time at which the transaction began.
CommitImport(w) ==
    /\ Open(w)
    /\ \E changed \in SUBSET (Docs \ deleted) :
        /\ Paging /\ ~MovesWhilePaging => \A d \in changed : ~Exists(d)
        /\ stamp' = [d \in Docs |-> IF d \in changed THEN began[w]
                                                 ELSE stamp[d]]
        /\ taken' = taken \ changed
    /\ began' = [began EXCEPT ![w] = 0]
    /\ UNCHANGED <<now, deleted, page, polled, total, since, newest>>

\* A document is soft-deleted by an operator.
Delete(d) ==
    /\ d \in Deletable
    /\ Visible(d)
    /\ Paging => MovesWhilePaging
    /\ deleted' = deleted \cup {d}
    /\ UNCHANGED <<now, stamp, began, page, polled, total, since, newest, taken>>

-----------------------------------------------------------------------------
\* The documents a request selects.
Matches(d) == Visible(d) /\ stamp[d] >= since
Selected   == {d \in Docs : Matches(d)}

\* Mutant of Before: ORDER BY id.
BeforeById(d, e) == d < e

\* ORDER BY updated_at, id.
Before(d, e) ==
    stamp[d] < stamp[e] \/ (stamp[d] = stamp[e] /\ d < e)

Position(d) == Cardinality({e \in Selected : Before(e, d)})

\* OFFSET (page - 1) * size LIMIT size.
Items(p) == {d \in Selected : Position(d) \div PageSize = p - 1}

\* Mutant of Pages: rounded the wrong way.
PagesBelow == IF total = 0 THEN 1 ELSE (total - 1) \div PageSize

\* pages of the response.
Pages == IF total = 0 THEN 1 ELSE (total + PageSize - 1) \div PageSize

\* A poll begins with the first page.
StartPoll ==
    /\ page = 0
    /\ page' = 1
    /\ polled' = now
    /\ UNCHANGED <<now, stamp, deleted, began, total, since, newest, taken>>

\* The first query of a request counts what matches.
CountRows ==
    /\ page > 0
    /\ total = None
    /\ total' = Cardinality(Selected)
    /\ UNCHANGED <<now, stamp, deleted, began, page, polled, since, newest,
                   taken>>

Newest(ds) ==
    IF ds = {} THEN newest
    ELSE LET last == CHOOSE d \in ds : \A e \in ds : stamp[e] <= stamp[d]
         IN IF stamp[last] > newest THEN stamp[last] ELSE newest

\* Mutant of Watermark: no overlap.
NewestSeen(n) == n

\* The watermark for the next poll.
Watermark(n) == IF n > Overlap THEN n - Overlap ELSE 0

\* The second query selects the page.  The consumer takes its documents and
\* asks for the next page, or ends the poll after the last one.
FetchPage ==
    /\ page > 0
    /\ total # None
    /\ taken' = taken \cup Items(page)
    /\ newest' = Newest(Items(page))
    /\ total' = None
    /\ \/ /\ page < Pages
          /\ page' = page + 1
          /\ UNCHANGED <<polled, since>>
       \/ /\ page >= Pages
          /\ page' = 0
          /\ polled' = 0
          /\ since' = Watermark(newest')
    /\ UNCHANGED <<now, stamp, deleted, began>>

Next ==
    \/ Tick \/ StartPoll \/ CountRows \/ FetchPage
    \/ \E w \in Writers : Begin(w) \/ CommitImport(w)
    \/ \E d \in Docs : Delete(d)

Spec == Init /\ [][Next]_vars

\* The consumer goes on polling.
FairSpec ==
    Spec /\ WF_vars(StartPoll) /\ WF_vars(CountRows) /\ WF_vars(FetchPage)

-----------------------------------------------------------------------------
(***************************************************************************)
(* Properties.                                                             *)
(***************************************************************************)

\* Between polls, every change the consumer does not have yet is one that the
\* next poll selects: nothing is left behind the watermark for good, although
\* changes become visible late and pages are read at different times.
MissedIsStillAhead ==
    page = 0 =>
        \A d \in Docs : Visible(d) /\ d \notin taken => stamp[d] >= since

\* Every document that was created or changed is taken in the end, unless it
\* is deleted first.
EveryChangeIsTaken ==
    \A d \in Docs :
        (Exists(d) /\ d \notin taken) ~> (d \in taken \/ d \in deleted)
=============================================================================
