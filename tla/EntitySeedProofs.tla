--------------------------- MODULE EntitySeedProofs ---------------------------
(***************************************************************************)
(* Theorems about EntitySeed, for every set of entities, runners, seeds    *)
(* and initial tables and every bound.                                     *)
(***************************************************************************)
EXTENDS EntitySeed, WellFoundedInduction, TLAPS

Columns == {"ein", "xero", "active", "deleted"}

\* Where a run is: what it has written belongs to its flushes, and it reads
\* the whole file before them.
ControlOK ==
    \A p \in Runners :
        /\ pc[p] = "idle" => touched[p] = {}
        /\ pc[p] # "idle" => seed[p] \in Seeds /\ ValidSeed(seed[p])
        /\ pc[p] # "flush" => work[p] = Empty
        /\ pc[p] \in {"flush", "mapping"} => unread[p] = {}

\* A row that a run has read is there, and is as it was read unless others
\* have changed it.
SeenOK ==
    \A p \in Runners, i \in Ids :
        /\ seen[p][i] # None => rows[i] # None
        /\ /\ pc[p] \in {"plan", "flush"}
           /\ i \in Named(p) \ (unread[p] \cup touched[p])
           => seen[p][i] = rows[i]

\* Row r is on the way from the row of i to what run p makes of it: the fields
\* p does not change are as they are in the table, the others are as the file
\* says, given up, or not written yet.
OnTheWay(p, i, r) ==
    \A f \in Columns :
        IF f \in Diff(p, i)
        THEN \/ r[f] = seed[p][i][f]
             \/ f \in Released(p, i) /\ r[f] = None
             \/ f \notin Released(p, i) /\ r[f] = rows[i][f]
        ELSE r[f] = rows[i][f]

\* What a run has written is a new row or a change of its plan.
WorkOf(p) ==
    \A i \in DOMAIN work[p] :
        \/ /\ i \in NewRows(p)
           /\ rows[i] = None
           /\ work[p][i] = Merge(Default, seed[p][i], DOMAIN seed[p][i])
        \/ i \in Changes(p) /\ OnTheWay(p, i, work[p][i])

WorkOK == \A p \in Runners : WorkOf(p)

\* A row that a run has written clashes with no row that the run sees.
OwnKeysOK ==
    \A p \in Runners : \A i \in DOMAIN work[p], j \in Ids :
        i # j /\ View(p, j) # None => ~Clash(work[p][i], View(p, j))

\* Two runs have written different rows, and none that clash.
OthersKeysOK ==
    \A p, q \in Runners : p # q =>
        \A i \in DOMAIN work[p], j \in DOMAIN work[q] :
            i # j /\ ~Clash(work[p][i], work[q][j])

\* When the mapping is written, and after, its entities have rows.
MappingOK ==
    /\ MappingNamesCommitted
    /\ \A p \in Runners :
         pc[p] = "mapping" => \A i \in Named(p) : rows[i] # None

\* The rows are as seed s says, but for those that are deleted.
Applied(s) ==
    \A i \in DOMAIN s :
        /\ rows[i] # None
        /\ rows[i].deleted \/ \A f \in DOMAIN s[i] : rows[i][f] = s[i][f]

\* The last seed to be applied is the one the table shows.
LastOK == last # None => Applied(last)

SeedInv ==
    /\ TypeOK
    /\ ControlOK
    /\ SeenOK
    /\ WorkOK
    /\ OwnKeysOK
    /\ OthersKeysOK
    /\ KeysUnique
    /\ MappingOK
    /\ LastOK

-----------------------------------------------------------------------------
(***************************************************************************)
(* Lemmas about rows and keys.                                             *)
(***************************************************************************)

\* A row has the four columns.
LEMMA RowColumns ==
    ASSUME NEW r \in Row
    PROVE  /\ DOMAIN r = Columns
           /\ \A f \in Unique \cup {"active"} : r[f] \in Value(f)
           /\ r.deleted \in BOOLEAN
BY DEF Row, Columns, Unique, Value

\* A function of the four columns with values of theirs is a row.
LEMMA RowOfColumns ==
    ASSUME NEW r, r = [f \in Columns |-> r[f]],
           \A f \in Fields : r[f] \in Value(f), r["deleted"] \in BOOLEAN
    PROVE  r \in Row
<1>1. /\ r["ein"] \in Eins \cup {None}
      /\ r["xero"] \in Xeros \cup {None}
      /\ r["active"] \in BOOLEAN
  BY DEF Fields, Unique, Value
<1> QED
  BY <1>1 DEF Row, Columns

\* A row with some fields set as an entry sets them is a row.
LEMMA MergeIsRow ==
    ASSUME NEW r \in Row, NEW e, NEW fs \in SUBSET Fields,
           \A f \in fs : e[f] \in Value(f)
    PROVE  Merge(r, e, fs) \in Row
<1> DEFINE m == Merge(r, e, fs)
<1>1. m = [f \in Columns |-> IF f \in fs THEN e[f] ELSE r[f]]
  BY RowColumns DEF Merge
<1>2. \A f \in Fields : m[f] \in Value(f)
  BY <1>1, RowColumns DEF Fields, Unique, Columns
<1>3. m["deleted"] \in BOOLEAN
  BY <1>1, RowColumns DEF Fields, Unique, Columns
<1> QED
  BY <1>1, <1>2, <1>3, RowOfColumns

\* Rows clash both ways or not at all.
LEMMA ClashSymmetric ==
    ASSUME NEW r, NEW s, Clash(r, s)
    PROVE  Clash(s, r)
BY DEF Clash, SameKey

\* What a run has written are rows of the table.
LEMMA WorkRows ==
    ASSUME TypeOK, NEW p \in Runners
    PROVE  /\ DOMAIN work[p] \subseteq Ids
           /\ \A i \in DOMAIN work[p] : work[p][i] \in Row
<1>1. PICK S \in SUBSET Ids : work[p] \in [S -> Row]
  BY DEF TypeOK
<1> QED
  BY <1>1

\* A run that has written nothing.
LEMMA EmptyWork ==
    /\ DOMAIN Empty = {}
    /\ Empty \in UNION {[S -> Row] : S \in SUBSET Ids}
<1>1. DOMAIN Empty = {}
  BY DEF Empty
<1>2. Empty \in [{} -> Row] /\ {} \in SUBSET Ids
  BY DEF Empty
<1> QED
  BY <1>1, <1>2

\* The rows that a run sees.
LEMMA ViewRows ==
    ASSUME TypeOK, NEW p \in Runners, NEW i \in Ids
    PROVE  View(p, i) \in Row \cup {None}
BY WorkRows DEF View, TypeOK

\* What the entries of a running seed set.
LEMMA SeedEntries ==
    ASSUME TypeOK, ControlOK, NEW p \in Runners, pc[p] # "idle"
    PROVE  /\ Named(p) \subseteq Ids
           /\ \A i \in Named(p) :
                /\ DOMAIN seed[p][i] \subseteq Fields
                /\ \A f \in DOMAIN seed[p][i] : seed[p][i][f] \in Value(f)
BY SeedAssumption DEF ControlOK, Named

\* The least id of some is one of them.
LEMMA FirstIsOne ==
    ASSUME NEW S \in SUBSET Ids, S # {}
    PROVE  First(S) \in S
<1>1. S \subseteq Nat
  BY IdAssumption
<1> DEFINE R == {ss \in Nat \X Nat : ss[1] < ss[2]}
<1>2. IsWellFoundedOn(R, Nat)
  BY NatLessThanWellFounded DEF OpToRel
<1>3. PICK i \in S : \A j \in S : <<j, i>> \notin R
  BY <1>1, <1>2, WFMin
<1>4. ASSUME NEW j \in S PROVE i <= j
  <2>1. ~(j < i)
    BY <1>1, <1>3
  <2> QED
    BY <1>1, <2>1
<1> QED
  BY <1>4 DEF First

-----------------------------------------------------------------------------
(***************************************************************************)
(* What the next statement of a run writes.                                *)
(***************************************************************************)

\* A turn is an UPDATE of the first flush, one of the second, or an INSERT.
LEMMA TurnKinds ==
    ASSUME TypeOK, ControlOK, NEW p \in Runners, pc[p] = "flush",
           NEW i \in Turns(p)
    PROVE  /\ i \in Named(p) /\ i \in Ids
           /\ \/ i \in Unreleased(p)
              \/ Unreleased(p) = {} /\ i \in Unwritten(p)
              \/ /\ Unreleased(p) = {} /\ Unwritten(p) = {}
                 /\ i \in Uninserted(p)
<1>1. Named(p) \subseteq Ids
  BY SeedEntries
<1>2. /\ Unreleased(p) \subseteq Named(p)
      /\ Unwritten(p) \subseteq Named(p)
      /\ Uninserted(p) \subseteq Named(p)
  BY DEF Unreleased, Unwritten, Uninserted, Changes, NewRows
<1>3. CASE Unreleased(p) # {}
  <2>1. i = First(Unreleased(p))
    BY <1>3 DEF Turns
  <2> QED
    BY <1>1, <1>2, <1>3, <2>1, FirstIsOne
<1>4. CASE Unreleased(p) = {} /\ Unwritten(p) # {}
  <2>1. i = First(Unwritten(p))
    BY <1>4 DEF Turns
  <2>2. First(Unwritten(p)) \in Unwritten(p)
    BY <1>1, <1>2, <1>4, FirstIsOne
  <2> QED
    BY <1>1, <1>2, <1>4, <2>1, <2>2
<1>5. CASE Unreleased(p) = {} /\ Unwritten(p) = {}
  <2>1. i \in Uninserted(p)
    BY <1>5 DEF Turns
  <2> QED
    BY <1>1, <1>2, <1>5, <2>1
<1> QED
  BY <1>3, <1>4, <1>5

\* The table has the row of an entry that the run updates.
LEMMA ChangedRow ==
    ASSUME TypeOK, ControlOK, SeenOK, WorkOK, NEW p \in Runners,
           pc[p] = "flush", NEW i \in Changes(p)
    PROVE  /\ i \in Ids /\ i \in Named(p) /\ i \notin NewRows(p)
           /\ seen[p][i] \in Row /\ seen[p][i].deleted = FALSE
           /\ rows[i] \in Row
           /\ View(p, i) \in Row
           /\ i \in DOMAIN work[p] => OnTheWay(p, i, work[p][i])
           /\ Diff(p, i) \subseteq Fields /\ Diff(p, i) # {}
           /\ Released(p, i) \subseteq Unique
<1>1. i \in Named(p) /\ i \notin NewRows(p) /\ i \notin Skipped(p)
  BY DEF Changes
<1>2. i \in Ids
  BY <1>1, SeedEntries
<1>3. seen[p][i] # None /\ seen[p][i] \in Row
  BY <1>1, <1>2 DEF NewRows, TypeOK
<1>4. seen[p][i].deleted = FALSE
  BY <1>1, <1>3, RowColumns DEF Skipped
<1>5. rows[i] # None /\ rows[i] \in Row
  BY <1>2, <1>3 DEF SeenOK, TypeOK
<1>6. i \in DOMAIN work[p] => work[p][i] \in Row
  BY WorkRows
<1>7. View(p, i) \in Row
  BY <1>5, <1>6 DEF View
<1>8. i \in DOMAIN work[p] => OnTheWay(p, i, work[p][i])
  BY <1>1 DEF WorkOK, WorkOf
<1>9. Diff(p, i) \subseteq Fields /\ Diff(p, i) # {}
  BY <1>1, SeedEntries DEF Diff, Changes
<1> QED
  BY <1>1, <1>2, <1>3, <1>4, <1>5, <1>7, <1>8, <1>9 DEF Released

\* What a run sees of a row it changes is on the way.
LEMMA ViewOnTheWay ==
    ASSUME TypeOK, ControlOK, SeenOK, WorkOK, NEW p \in Runners,
           pc[p] = "flush", NEW i \in Changes(p), i \notin Unreleased(p)
    PROVE  \A f \in Columns \ Diff(p, i) : View(p, i)[f] = rows[i][f]
BY ChangedRow DEF OnTheWay, View

\* An UPDATE of the first flush gives the unique values up.
LEMMA AfterReleases ==
    ASSUME TypeOK, ControlOK, SeenOK, WorkOK, NEW p \in Runners,
           pc[p] = "flush", NEW i \in Unreleased(p)
    PROVE  /\ After(p, i) \in Row
           /\ \A f \in Columns :
                After(p, i)[f] = IF f \in Released(p, i) THEN None
                                                         ELSE rows[i][f]
<1>1. i \in Changes(p) /\ i \notin DOMAIN work[p]
  BY DEF Unreleased
<1>2. View(p, i) = rows[i] /\ rows[i] \in Row
  BY <1>1, ChangedRow DEF View
<1>3. After(p, i) = [f \in Columns |->
                        IF f \in Released(p, i) THEN None ELSE rows[i][f]]
  <2>1. i \notin NewRows(p) /\ DOMAIN View(p, i) = Columns
    BY <1>1, <1>2, ChangedRow, RowColumns
  <2>2. After(p, i) = [f \in DOMAIN View(p, i) |->
                  IF f \in Released(p, i) THEN None ELSE View(p, i)[f]]
    BY <2>1 DEF After
  <2> QED
    BY <1>2, <2>1, <2>2
<1>4. Released(p, i) \subseteq Unique
  BY <1>1, ChangedRow
<1>5. \A f \in Fields : After(p, i)[f] \in Value(f)
  <2>1. \A f \in Fields : rows[i][f] \in Value(f) /\ f \in Columns
    BY <1>2, RowColumns DEF Fields, Unique, Columns
  <2>2. \A f \in Unique : None \in Value(f)
    BY DEF Unique, Value
  <2> QED
    BY <1>3, <1>4, <2>1, <2>2
<1>6. After(p, i)["deleted"] \in BOOLEAN
  BY <1>2, <1>3, <1>4, RowColumns DEF Unique, Columns
<1>7. After(p, i) \in Row
  BY <1>3, <1>5, <1>6, RowOfColumns
<1> QED
  BY <1>3, <1>7

\* An UPDATE of the second flush sets the changed fields.
LEMMA AfterAssigns ==
    ASSUME TypeOK, ControlOK, SeenOK, WorkOK, NEW p \in Runners,
           pc[p] = "flush", Unreleased(p) = {}, NEW i \in Changes(p)
    PROVE  /\ After(p, i) \in Row
           /\ \A f \in Columns :
                After(p, i)[f] = IF f \in Diff(p, i) THEN seed[p][i][f]
                                                     ELSE rows[i][f]
<1>1. /\ i \notin NewRows(p) /\ View(p, i) \in Row /\ rows[i] \in Row
      /\ Diff(p, i) \subseteq Fields /\ i \in Named(p)
  BY ChangedRow
<1>2. After(p, i) = Merge(View(p, i), seed[p][i], Diff(p, i))
  BY <1>1 DEF After
<1>3. \A f \in Diff(p, i) : seed[p][i][f] \in Value(f)
  BY <1>1, SeedEntries DEF Diff
<1>4. After(p, i) \in Row
  BY <1>1, <1>2, <1>3, MergeIsRow
<1>5. \A f \in Columns \ Diff(p, i) : View(p, i)[f] = rows[i][f]
  BY ViewOnTheWay
<1> QED
  BY <1>1, <1>2, <1>4, <1>5, RowColumns DEF Merge

\* An INSERT writes the defaults with what the entry sets.
LEMMA AfterInserts ==
    ASSUME TypeOK, ControlOK, SeenOK, WorkOK, NEW p \in Runners,
           pc[p] = "flush", NEW i \in NewRows(p)
    PROVE  /\ Merge(Default, seed[p][i], DOMAIN seed[p][i]) \in Row
           /\ Default \in Row
           /\ After(p, i) = Merge(Default, seed[p][i], DOMAIN seed[p][i])
<1>1. i \in Named(p) /\ i \notin Unreleased(p)
  BY DEF NewRows, Unreleased, Changes
<1>2. Default \in Row
  BY DEF Default, Row
<1>3. After(p, i) = Merge(Default, seed[p][i], DOMAIN seed[p][i])
  BY <1>1 DEF After
<1> QED
  BY <1>1, <1>2, <1>3, SeedEntries, MergeIsRow

\* What a statement writes is a row, either new or on the way of a change.
LEMMA AfterIs ==
    ASSUME TypeOK, ControlOK, SeenOK, WorkOK, NEW p \in Runners,
           pc[p] = "flush", NEW i \in Turns(p)
    PROVE  /\ i \in Ids /\ After(p, i) \in Row
           /\ \/ /\ i \in NewRows(p)
                 /\ After(p, i) = Merge(Default, seed[p][i], DOMAIN seed[p][i])
              \/ i \in Changes(p) /\ OnTheWay(p, i, After(p, i))
<1>1. CASE i \in Unreleased(p)
  <2>1. i \in Changes(p)
    BY <1>1 DEF Unreleased
  <2>2. Released(p, i) \subseteq Diff(p, i)
    BY DEF Released
  <2>3. OnTheWay(p, i, After(p, i))
    BY <1>1, <2>2, AfterReleases DEF OnTheWay
  <2> QED
    BY <1>1, <2>1, <2>3, TurnKinds, AfterReleases
<1>2. CASE Unreleased(p) = {} /\ i \in Unwritten(p)
  <2>1. i \in Changes(p)
    BY <1>2 DEF Unwritten
  <2> QED
    BY <1>2, <2>1, TurnKinds, AfterAssigns DEF OnTheWay
<1>3. CASE i \in Uninserted(p)
  <2>1. i \in NewRows(p)
    BY <1>3 DEF Uninserted
  <2> QED
    BY <2>1, TurnKinds, AfterInserts
<1> QED
  BY <1>1, <1>2, <1>3, TurnKinds

-----------------------------------------------------------------------------
(***************************************************************************)
(* The steps.                                                              *)
(***************************************************************************)

\* A run that keeps its seed and what it has read keeps its plan.
LEMMA SamePlan ==
    ASSUME NEW p \in Runners, seed'[p] = seed[p], seen'[p] = seen[p]
    PROVE  /\ Named(p)' = Named(p)
           /\ NewRows(p)' = NewRows(p)
           /\ Skipped(p)' = Skipped(p)
           /\ Changes(p)' = Changes(p)
           /\ \A i : /\ Diff(p, i)' = Diff(p, i)
                     /\ Released(p, i)' = Released(p, i)
<1>1. /\ Named(p)' = Named(p)
      /\ \A i : Diff(p, i)' = Diff(p, i)
  BY DEF Named, Diff
<1>2. NewRows(p)' = NewRows(p) /\ Skipped(p)' = Skipped(p)
  BY <1>1 DEF NewRows, Skipped
<1>3. \A i : Released(p, i)' = Released(p, i)
  BY <1>1 DEF Released
<1>4. Changes(p)' = Changes(p)
  BY <1>1, <1>2 DEF Changes
<1> QED
  BY <1>1, <1>2, <1>3, <1>4

\* A run whose rows nobody changes has written what it had.
LEMMA SameWork ==
    ASSUME NEW p \in Runners, WorkOf(p), seed'[p] = seed[p],
           seen'[p] = seen[p], work'[p] = work[p],
           \A i \in DOMAIN work[p] : rows'[i] = rows[i]
    PROVE  WorkOf(p)'
<1>1. /\ NewRows(p)' = NewRows(p) /\ Changes(p)' = Changes(p)
      /\ \A i : Diff(p, i)' = Diff(p, i) /\ Released(p, i)' = Released(p, i)
  BY SamePlan
<1>2. SUFFICES ASSUME NEW i \in DOMAIN work[p]
               PROVE  \/ /\ i \in NewRows(p)'
                         /\ rows'[i] = None
                         /\ work'[p][i] = Merge(Default, seed'[p][i],
                                                DOMAIN seed'[p][i])
                      \/ i \in Changes(p)' /\ OnTheWay(p, i, work[p][i])'
  BY DEF WorkOf
<1>3. CASE /\ i \in NewRows(p) /\ rows[i] = None
           /\ work[p][i] = Merge(Default, seed[p][i], DOMAIN seed[p][i])
  BY <1>1, <1>3
<1>4. CASE i \in Changes(p) /\ OnTheWay(p, i, work[p][i])
  BY <1>1, <1>4 DEF OnTheWay
<1> QED
  BY <1>3, <1>4 DEF WorkOf

\* The initial state satisfies the invariant.
LEMMA SeedInit == Init => SeedInv
<1> SUFFICES ASSUME Init PROVE SeedInv
  OBVIOUS
<1>1. TypeOK
  <2>1. /\ rows \in [Ids -> Row \cup {None}]
        /\ mapping = None \/ mapping \subseteq Ids
        /\ pc \in [Runners -> {"idle", "plan", "flush", "mapping"}]
        /\ seed \in [Runners -> Seeds \cup {Empty}]
        /\ unread \in [Runners -> SUBSET Ids]
    BY InitialAssumption DEF Init
  <2>2. seen \in [Runners -> [Ids -> Row \cup {None}]]
    BY DEF Init
  <2>3. work \in [Runners -> UNION {[S -> Row] : S \in SUBSET Ids}]
    BY EmptyWork DEF Init
  <2>4. /\ result \in Results
        /\ runs \in 0..MaxRuns /\ edits \in 0..MaxEdits /\ faults \in 0..MaxFaults
        /\ touched \in [Runners -> SUBSET Ids]
        /\ last \in Seeds \cup {None}
    BY BoundAssumption DEF Init, Results
  <2> QED
    BY <2>1, <2>2, <2>3, <2>4 DEF TypeOK
<1>2. KeysUnique
  BY InitialAssumption DEF Init, KeysUnique
<1> QED
  BY <1>1, <1>2, EmptyWork
  DEF Init, SeedInv, ControlOK, SeenOK, WorkOK, WorkOf, OwnKeysOK,
      OthersKeysOK, MappingOK, MappingNamesCommitted, LastOK

\* A command starts.
LEMMA StartStep ==
    ASSUME SeedInv, NEW p \in Runners, NEW s \in Seeds, Start(p, s)
    PROVE  SeedInv'
<1> USE DEF SeedInv
<1>1. /\ pc[p] = "idle" /\ runs' = runs + 1 /\ runs < MaxRuns
      /\ pc' = [pc EXCEPT ![p] = "plan"]
      /\ seed' = [seed EXCEPT ![p] = s]
      /\ unread' = [unread EXCEPT ![p] = DOMAIN s]
      /\ UNCHANGED <<rows, mapping, result, seen, work, edits, faults,
                     touched, last>>
      /\ ValidSeed(s)
  BY DEF Start
<1>2. TypeOK'
  BY <1>1, SeedAssumption, BoundAssumption DEF TypeOK
<1>3. ControlOK'
  BY <1>1 DEF ControlOK, TypeOK
<1>4. work[p] = Empty
  BY <1>1 DEF ControlOK
<1>5. SeenOK'
  BY <1>1 DEF SeenOK, TypeOK, Named
<1>6. ASSUME NEW q \in Runners PROVE WorkOf(q)'
  <2>1. CASE q = p
    BY <1>1, <1>4, <2>1, EmptyWork DEF WorkOf
  <2>2. CASE q # p
    BY <1>1, <2>2, SameWork DEF TypeOK, WorkOK
  <2> QED
    BY <2>1, <2>2
<1>7. OwnKeysOK' /\ OthersKeysOK' /\ KeysUnique'
  BY <1>1 DEF OwnKeysOK, OthersKeysOK, KeysUnique, View
<1>8. MappingOK' /\ LastOK'
  BY <1>1 DEF MappingOK, MappingNamesCommitted, LastOK, Applied, TypeOK, Named
<1> QED
  BY <1>2, <1>3, <1>5, <1>6, <1>7, <1>8 DEF WorkOK

\* A command reads one row.
LEMMA ReadStep ==
    ASSUME SeedInv, NEW p \in Runners, NEW i \in Ids, Read(p, i)
    PROVE  SeedInv'
<1> USE DEF SeedInv
<1>1. /\ pc[p] = "plan" /\ i \in unread[p]
      /\ seen' = [seen EXCEPT ![p] = [seen[p] EXCEPT ![i] = rows[i]]]
      /\ unread' = [unread EXCEPT ![p] = unread[p] \ {i}]
      /\ pc' = [pc EXCEPT ![p] = IF unread[p] = {i} THEN "flush" ELSE "plan"]
      /\ UNCHANGED <<rows, mapping, seed, work, result, runs, edits, faults,
                     touched, last>>
  BY DEF Read, bounds
<1>2. TypeOK'
  BY <1>1 DEF TypeOK
<1>3. ControlOK'
  BY <1>1 DEF ControlOK, TypeOK
<1>4. work[p] = Empty
  BY <1>1 DEF ControlOK
<1>5. SeenOK'
  BY <1>1 DEF SeenOK, TypeOK, Named
<1>6. ASSUME NEW q \in Runners PROVE WorkOf(q)'
  <2>1. CASE q = p
    BY <1>1, <1>4, <2>1, EmptyWork DEF WorkOf
  <2>2. CASE q # p
    BY <1>1, <2>2, SameWork DEF TypeOK, WorkOK
  <2> QED
    BY <2>1, <2>2
<1>7. OwnKeysOK' /\ OthersKeysOK' /\ KeysUnique'
  BY <1>1 DEF OwnKeysOK, OthersKeysOK, KeysUnique, View
<1>8. MappingOK' /\ LastOK'
  BY <1>1 DEF MappingOK, MappingNamesCommitted, LastOK, Applied, TypeOK, Named
<1> QED
  BY <1>2, <1>3, <1>5, <1>6, <1>7, <1>8 DEF WorkOK

\* A statement of a flush succeeds.
LEMMA WriteStep ==
    ASSUME SeedInv, NEW p \in Runners, NEW i \in Ids, Write(p, i)
    PROVE  SeedInv'
<1> USE DEF SeedInv
<1> DEFINE a == After(p, i)
           g == [j \in DOMAIN work[p] \cup {i} |->
                    IF j = i THEN a ELSE work[p][j]]
<1>1. /\ pc[p] = "flush" /\ i \in Turns(p)
      /\ Ready(p, i) /\ ~Breaks(p, i)
      /\ work' = [work EXCEPT ![p] = g]
      /\ UNCHANGED <<rows, mapping, pc, seed, unread, seen, result, runs,
                     edits, faults, touched, last>>
  BY DEF Write, bounds
<1>2. /\ a \in Row
      /\ \/ /\ i \in NewRows(p)
            /\ a = Merge(Default, seed[p][i], DOMAIN seed[p][i])
         \/ i \in Changes(p) /\ OnTheWay(p, i, a)
  BY <1>1, AfterIs
<1>3. /\ \A q \in Runners \ {p} : work'[q] = work[q]
      /\ work'[p] = g
      /\ \A j \in DOMAIN work[p] \ {i} : g[j] = work[p][j]
      /\ g[i] = a /\ DOMAIN g = DOMAIN work[p] \cup {i}
  BY <1>1 DEF TypeOK
<1>4. TypeOK'
  <2>1. DOMAIN work[p] \subseteq Ids /\ \A j \in DOMAIN work[p] : work[p][j] \in Row
    BY WorkRows
  <2>2. g \in [DOMAIN work[p] \cup {i} -> Row]
    BY <1>2, <2>1
  <2>3. DOMAIN work[p] \cup {i} \in SUBSET Ids
    BY <2>1
  <2>4. g \in UNION {[S -> Row] : S \in SUBSET Ids}
    BY <2>2, <2>3
  <2>5. work' \in [Runners -> UNION {[S -> Row] : S \in SUBSET Ids}]
    BY <1>1, <2>4 DEF TypeOK
  <2> QED
    BY <1>1, <2>5 DEF TypeOK
<1>5. ControlOK' /\ SeenOK'
  BY <1>1, <1>3 DEF ControlOK, SeenOK, Named
<1>6. i \in NewRows(p) => rows[i] = None
  BY <1>1 DEF Breaks
<1>7. ASSUME NEW q \in Runners PROVE WorkOf(q)'
  <2>1. CASE q = p
    <3>1. /\ NewRows(p)' = NewRows(p) /\ Changes(p)' = Changes(p)
          /\ \A j : Diff(p, j)' = Diff(p, j) /\ Released(p, j)' = Released(p, j)
      BY <1>1, SamePlan
    <3>2. ASSUME NEW j \in DOMAIN g
          PROVE  \/ /\ j \in NewRows(p)
                    /\ rows[j] = None
                    /\ g[j] = Merge(Default, seed[p][j], DOMAIN seed[p][j])
                 \/ j \in Changes(p) /\ OnTheWay(p, j, g[j])
      <4>1. CASE j = i
        BY <1>2, <1>3, <1>6, <4>1
      <4>2. CASE j # i
        <5>1. j \in DOMAIN work[p] /\ g[j] = work[p][j] /\ WorkOf(p)
          BY <1>3, <4>2 DEF WorkOK
        <5> QED
          BY <5>1 DEF WorkOf
      <4> QED
        BY <4>1, <4>2
    <3> HIDE DEF g
    <3>3. ASSUME NEW j \in DOMAIN g, OnTheWay(p, j, g[j])
          PROVE  OnTheWay(p, j, work[p][j])'
      <4>1. rows' = rows /\ seed' = seed /\ work'[p][j] = g[j]
        BY <1>1, <1>3
      <4>2. Diff(p, j)' = Diff(p, j) /\ Released(p, j)' = Released(p, j)
        BY <3>1
      <4> QED
        BY <3>3, <4>1, <4>2 DEF OnTheWay
    <3>4. \A j \in DOMAIN g :
            \/ /\ j \in NewRows(p)'
               /\ rows'[j] = None
               /\ work'[p][j] = Merge(Default, seed'[p][j], DOMAIN seed'[p][j])
            \/ j \in Changes(p)' /\ OnTheWay(p, j, work[p][j])'
      BY <1>1, <1>3, <3>1, <3>2, <3>3
    <3>5. WorkOf(p)'
      BY <1>3, <3>4 DEF WorkOf
    <3> QED
      BY <2>1, <3>5
  <2>2. CASE q # p
    BY <1>1, <1>3, <2>2, SameWork DEF WorkOK
  <2> QED
    BY <2>1, <2>2
<1>8. OwnKeysOK'
  <2>1. \A j \in Ids \ {i} : View(p, j)' = View(p, j)
    BY <1>1, <1>3 DEF View
  <2>2. \A q \in Runners \ {p}, j \in Ids : View(q, j)' = View(q, j)
    BY <1>1, <1>3 DEF View
  <2>3. View(p, i)' = a
    BY <1>3 DEF View
  <2>4. \A j \in Ids \ {i} : View(p, j) # None =>
          ~Clash(a, View(p, j)) /\ ~Clash(View(p, j), a)
    BY <1>1, ClashSymmetric DEF Breaks
  <2>5. ASSUME NEW q \in Runners, NEW j \in DOMAIN work'[q], NEW k \in Ids,
               j # k, View(q, k)' # None
        PROVE  ~Clash(work'[q][j], View(q, k)')
    <3>1. CASE q # p
      BY <1>3, <2>2, <2>5, <3>1 DEF OwnKeysOK
    <3>2. CASE q = p /\ j = i
      BY <1>3, <2>1, <2>4, <2>5, <3>2
    <3>3. CASE q = p /\ j # i
      <4>1. /\ j \in DOMAIN work[p] /\ work'[p][j] = work[p][j]
            /\ j \in Ids /\ View(p, j) = work[p][j] /\ work[p][j] # None
        BY <1>3, <2>5, <3>3, WorkRows, NoneAssumption DEF View
      <4>2. CASE k = i
        BY <2>3, <2>4, <3>3, <4>1, <4>2
      <4>3. CASE k # i
        BY <2>1, <2>5, <3>3, <4>1, <4>3 DEF OwnKeysOK
      <4> QED
        BY <4>2, <4>3
    <3> QED
      BY <3>1, <3>2, <3>3
  <2> QED
    BY <2>5 DEF OwnKeysOK, Clash, SameKey
<1>9. OthersKeysOK'
  <2>1. \A q \in Runners \ {p} :
          /\ i \notin DOMAIN work[q]
          /\ \A j \in DOMAIN work[q] :
               ~Clash(a, work[q][j]) /\ ~Clash(work[q][j], a)
    BY <1>1, ClashSymmetric DEF Ready, Holds
  <2>2. ASSUME NEW q \in Runners, NEW r \in Runners, q # r,
               NEW j \in DOMAIN work'[q], NEW k \in DOMAIN work'[r]
        PROVE  j # k /\ ~Clash(work'[q][j], work'[r][k])
    <3>1. CASE q = p /\ j = i
      BY <1>3, <2>1, <2>2, <3>1
    <3>2. CASE r = p /\ k = i
      BY <1>3, <2>1, <2>2, <3>2
    <3>3. CASE ~(q = p /\ j = i) /\ ~(r = p /\ k = i)
      <4>1. j \in DOMAIN work[q] /\ work'[q][j] = work[q][j]
        BY <1>3, <3>3
      <4>2. k \in DOMAIN work[r] /\ work'[r][k] = work[r][k]
        BY <1>3, <3>3
      <4> QED
        BY <2>2, <4>1, <4>2 DEF OthersKeysOK
    <3> QED
      BY <3>1, <3>2, <3>3
  <2> QED
    BY <2>2 DEF OthersKeysOK, Clash, SameKey
<1>10. KeysUnique' /\ MappingOK' /\ LastOK'
  BY <1>1 DEF KeysUnique, MappingOK, MappingNamesCommitted, LastOK, Applied,
              Named, Clash, SameKey
<1> QED
  BY <1>4, <1>5, <1>7, <1>8, <1>9, <1>10 DEF WorkOK

\* The history that a step of run p leaves to the others.
LEMMA Touches ==
    ASSUME TypeOK, NEW p, NEW S \in SUBSET Ids, Touch(p, S)
    PROVE  /\ touched' \in [Runners -> SUBSET Ids]
           /\ \A q \in Runners :
                touched'[q] = IF q = p \/ pc[q] = "idle"
                              THEN {} ELSE touched[q] \cup S
BY DEF Touch, TypeOK

\* What EndRun leaves of run p, and of the others.
LEMMA Ended ==
    ASSUME TypeOK, NEW p \in Runners, NEW how \in Results, EndRun(p, how)
    PROVE  /\ pc' \in [Runners -> {"idle", "plan", "flush", "mapping"}]
           /\ seed' \in [Runners -> Seeds \cup {Empty}]
           /\ unread' \in [Runners -> SUBSET Ids]
           /\ seen' \in [Runners -> [Ids -> Row \cup {None}]]
           /\ work' \in [Runners -> UNION {[S -> Row] : S \in SUBSET Ids}]
           /\ result' \in Results
           /\ pc'[p] = "idle" /\ work'[p] = Empty
           /\ \A i \in Ids : seen'[p][i] = None
           /\ \A q \in Runners \ {p} :
                /\ pc'[q] = pc[q] /\ seed'[q] = seed[q]
                /\ unread'[q] = unread[q] /\ seen'[q] = seen[q]
                /\ work'[q] = work[q]
BY EmptyWork DEF EndRun, TypeOK

\* A run ends and leaves the rows as they are.
LEMMA EndStep ==
    ASSUME SeedInv, NEW p \in Runners, NEW how \in Results, EndRun(p, how),
           Touch(p, {}), rows' = rows, last' = last, runs' = runs,
           edits' = edits, faults' \in 0..MaxFaults,
           mapping' # mapping =>
               mapping' \subseteq Ids /\ \A i \in mapping' : rows[i] # None
    PROVE  SeedInv'
<1> USE DEF SeedInv
<1>1. /\ touched' \in [Runners -> SUBSET Ids]
      /\ \A q \in Runners :
           touched'[q] = IF q = p \/ pc[q] = "idle" THEN {} ELSE touched[q]
  BY Touches
<1>2. /\ pc'[p] = "idle" /\ work'[p] = Empty
      /\ \A i \in Ids : seen'[p][i] = None
      /\ \A q \in Runners \ {p} :
           /\ pc'[q] = pc[q] /\ seed'[q] = seed[q]
           /\ unread'[q] = unread[q] /\ seen'[q] = seen[q]
           /\ work'[q] = work[q]
  BY Ended
<1>3. TypeOK'
  <2>1. mapping' = None \/ mapping' \subseteq Ids
    BY DEF TypeOK
  <2> QED
    BY <1>1, <2>1, Ended DEF TypeOK
<1>4. ControlOK'
  BY <1>1, <1>2 DEF ControlOK
<1>5. SeenOK'
  <2>1. ASSUME NEW q \in Runners, NEW i \in Ids
        PROVE  /\ seen'[q][i] # None => rows'[i] # None
               /\ /\ pc'[q] \in {"plan", "flush"}
                  /\ i \in DOMAIN seed'[q] \ (unread'[q] \cup touched'[q])
                  => seen'[q][i] = rows'[i]
    <3>1. CASE q = p
      BY <1>2, <3>1
    <3>2. CASE q # p
      BY <1>1, <1>2, <3>2 DEF SeenOK, Named
    <3> QED
      BY <3>1, <3>2
  <2> QED
    BY <2>1 DEF SeenOK, Named
<1>6. ASSUME NEW q \in Runners PROVE WorkOf(q)'
  <2>1. CASE q = p
    BY <1>2, <2>1, EmptyWork DEF WorkOf
  <2>2. CASE q # p
    BY <1>2, <2>2, SameWork DEF WorkOK
  <2> QED
    BY <2>1, <2>2
<1>7. OwnKeysOK'
  BY <1>2, EmptyWork DEF OwnKeysOK, View, Clash, SameKey
<1>8. OthersKeysOK'
  BY <1>2, EmptyWork DEF OthersKeysOK, Clash, SameKey
<1>9. KeysUnique' /\ LastOK'
  BY DEF KeysUnique, LastOK, Applied, Clash, SameKey
<1>10. MappingOK'
  BY <1>2 DEF MappingOK, MappingNamesCommitted, Named
<1> QED
  BY <1>3, <1>4, <1>5, <1>6, <1>7, <1>8, <1>9, <1>10 DEF WorkOK

-----------------------------------------------------------------------------
(***************************************************************************)
(* The commit.                                                             *)
(***************************************************************************)

\* A run that has no statement left has written all it planned.
LEMMA AllWritten ==
    ASSUME SeedInv, NEW p \in Runners, pc[p] = "flush", Turns(p) = {}
    PROVE  /\ \A i \in Changes(p) :
                /\ i \in DOMAIN work[p]
                /\ \A f \in Diff(p, i) : work[p][i][f] = seed[p][i][f]
                /\ \A f \in Columns \ Diff(p, i) : work[p][i][f] = rows[i][f]
           /\ \A i \in NewRows(p) :
                /\ i \in DOMAIN work[p] /\ rows[i] = None
                /\ work[p][i] = Merge(Default, seed[p][i], DOMAIN seed[p][i])
           /\ DOMAIN work[p] = Changes(p) \cup NewRows(p)
<1>1. Unwritten(p) = {} /\ Uninserted(p) = {}
  <2>1. Unreleased(p) = {}
    BY DEF Turns
  <2>2. Unwritten(p) = {}
    BY <2>1 DEF Turns
  <2> QED
    BY <2>1, <2>2 DEF Turns
<1>2. WorkOf(p) /\ Changes(p) \cap NewRows(p) = {}
  BY DEF SeedInv, WorkOK, Changes
<1>3. \A i \in Changes(p) :
        /\ i \in DOMAIN work[p]
        /\ \A f \in Diff(p, i) : work[p][i][f] = seed[p][i][f]
  BY <1>1 DEF Unwritten
<1>4. \A i \in Changes(p) :
        \A f \in Columns \ Diff(p, i) : work[p][i][f] = rows[i][f]
  BY <1>2, <1>3 DEF WorkOf, OnTheWay
<1>5. \A i \in NewRows(p) :
        /\ i \in DOMAIN work[p] /\ rows[i] = None
        /\ work[p][i] = Merge(Default, seed[p][i], DOMAIN seed[p][i])
  BY <1>1, <1>2 DEF Uninserted, WorkOf
<1>6. DOMAIN work[p] \subseteq Changes(p) \cup NewRows(p)
  BY <1>2 DEF WorkOf
<1> QED
  BY <1>3, <1>4, <1>5, <1>6

\* Then the entities of its file have rows, and those nobody else has changed
\* are deleted or have every value the file sets.
LEMMA TakesEffect ==
    ASSUME SeedInv, NEW p \in Runners, pc[p] = "flush", Turns(p) = {},
           NEW i \in Named(p)
    PROVE  /\ View(p, i) # None
           /\ i \notin touched[p] =>
                \/ View(p, i).deleted
                \/ \A f \in DOMAIN seed[p][i] : View(p, i)[f] = seed[p][i][f]
<1> USE DEF SeedInv
<1>1. /\ i \in Ids /\ DOMAIN seed[p][i] \subseteq Fields
      /\ Fields \subseteq Columns
  BY SeedEntries DEF Fields, Unique, Columns
<1>2. i \notin touched[p] => seen[p][i] = rows[i]
  BY <1>1 DEF SeenOK, ControlOK
<1>3. CASE i \in NewRows(p)
  <2>1. View(p, i) = Merge(Default, seed[p][i], DOMAIN seed[p][i])
    BY <1>3, AllWritten DEF View
  <2>2. View(p, i) \in Row /\ Default \in Row
    BY <1>3, <2>1, AfterInserts
  <2>3. \A f \in DOMAIN seed[p][i] : View(p, i)[f] = seed[p][i][f]
    BY <1>1, <2>1, <2>2, RowColumns DEF Merge
  <2> QED
    BY <2>2, <2>3, NoneAssumption
<1>4. CASE i \in Changes(p)
  <2>1. View(p, i) = work[p][i] /\ View(p, i) \in Row
    BY <1>4, AllWritten, ChangedRow DEF View
  <2>2. \A f \in Diff(p, i) : View(p, i)[f] = seed[p][i][f]
    BY <1>4, <2>1, AllWritten
  <2>3. \A f \in DOMAIN seed[p][i] \ Diff(p, i) :
          /\ View(p, i)[f] = rows[i][f]
          /\ seen[p][i][f] = seed[p][i][f]
    BY <1>1, <1>4, <2>1, AllWritten DEF Diff
  <2> QED
    BY <1>2, <2>1, <2>2, <2>3, NoneAssumption
<1>5. CASE i \notin NewRows(p) /\ i \notin Changes(p)
  <2>1. View(p, i) = rows[i] /\ seen[p][i] # None /\ rows[i] # None
    BY <1>1, <1>5, AllWritten DEF View, NewRows, SeenOK
  <2>2. CASE i \in Skipped(p)
    BY <1>2, <2>1, <2>2 DEF Skipped
  <2>3. CASE i \notin Skipped(p)
    <3>1. Diff(p, i) = {}
      BY <1>5, <2>3 DEF Changes
    <3>2. \A f \in DOMAIN seed[p][i] : seen[p][i][f] = seed[p][i][f]
      BY <3>1 DEF Diff
    <3> QED
      BY <1>2, <2>1, <3>2
  <2> QED
    BY <2>2, <2>3
<1> QED
  BY <1>3, <1>4, <1>5

\* What EndRun and the step to the mapping have in common: run p leaves its
\* flushes, and nothing of the other runs changes.
Leaves(p) ==
    /\ pc' \in [Runners -> {"idle", "plan", "flush", "mapping"}]
    /\ seed' \in [Runners -> Seeds \cup {Empty}]
    /\ unread' \in [Runners -> SUBSET Ids]
    /\ seen' \in [Runners -> [Ids -> Row \cup {None}]]
    /\ work' \in [Runners -> UNION {[S -> Row] : S \in SUBSET Ids}]
    /\ result' \in Results
    /\ \/ /\ pc'[p] = "mapping" /\ seed'[p] = seed[p]
          /\ unread'[p] = unread[p] /\ seen'[p] = seen[p]
       \/ pc'[p] = "idle" /\ \A i \in Ids : seen'[p][i] = None
    /\ work'[p] = Empty
    /\ \A q \in Runners \ {p} :
         /\ pc'[q] = pc[q] /\ seed'[q] = seed[q]
         /\ unread'[q] = unread[q] /\ seen'[q] = seen[q]
         /\ work'[q] = work[q]

\* The rows of a run become the rows of the table.
LEMMA EffectStep ==
    ASSUME SeedInv, NEW p \in Runners, pc[p] = "flush", Turns(p) = {},
           Effect(p), Leaves(p), mapping' = mapping, runs' = runs,
           edits' = edits, faults' \in 0..MaxFaults
    PROVE  SeedInv'
<1> USE DEF SeedInv
<1> DEFINE T == {i \in Ids : rows[i] # View(p, i)}
<1>1. /\ rows' = [i \in Ids |-> View(p, i)]
      /\ Touch(p, T)
      /\ last' = IF touched[p] = {} THEN seed[p] ELSE None
  BY DEF Effect, Committed
<1>2. /\ touched' \in [Runners -> SUBSET Ids]
      /\ \A q \in Runners :
           touched'[q] = IF q = p \/ pc[q] = "idle" THEN {} ELSE touched[q] \cup T
  BY <1>1, Touches
<1>3. /\ \A i \in Ids : rows'[i] = View(p, i)
      /\ \A i \in DOMAIN work[p] : rows'[i] = work[p][i] /\ work[p][i] \in Row
      /\ \A i \in Ids \ DOMAIN work[p] : rows'[i] = rows[i]
      /\ \A i \in Ids : rows[i] # None => rows'[i] # None
  BY <1>1, WorkRows, NoneAssumption DEF View
<1>4. /\ pc'[p] \in {"mapping", "idle"}
      /\ pc'[p] = "mapping" => /\ seed'[p] = seed[p] /\ unread'[p] = unread[p]
                               /\ seen'[p] = seen[p]
      /\ pc'[p] = "idle" => \A i \in Ids : seen'[p][i] = None
      /\ work'[p] = Empty
      /\ \A q \in Runners \ {p} :
           /\ pc'[q] = pc[q] /\ seed'[q] = seed[q]
           /\ unread'[q] = unread[q] /\ seen'[q] = seen[q]
           /\ work'[q] = work[q]
  BY DEF Leaves
<1>5. TypeOK'
  <2>1. rows' \in [Ids -> Row \cup {None}]
    BY <1>1, ViewRows
  <2>2. last' \in Seeds \cup {None}
    BY <1>1 DEF ControlOK
  <2> QED
    BY <1>2, <2>1, <2>2 DEF TypeOK, Leaves
<1>6. ControlOK'
  BY <1>2, <1>4 DEF ControlOK
<1>7. SeenOK'
  <2>1. ASSUME NEW q \in Runners, NEW i \in Ids
        PROVE  /\ seen'[q][i] # None => rows'[i] # None
               /\ /\ pc'[q] \in {"plan", "flush"}
                  /\ i \in DOMAIN seed'[q] \ (unread'[q] \cup touched'[q])
                  => seen'[q][i] = rows'[i]
    <3>1. CASE q = p
      BY <1>3, <1>4, <3>1 DEF SeenOK
    <3>2. CASE q # p
      <4>1. seen'[q][i] # None => rows'[i] # None
        BY <1>3, <1>4, <3>2 DEF SeenOK
      <4>2. ASSUME pc'[q] \in {"plan", "flush"},
                   i \in DOMAIN seed'[q] \ (unread'[q] \cup touched'[q])
            PROVE  seen'[q][i] = rows'[i]
        <5>1. i \notin touched[q] /\ i \notin T
          BY <1>2, <1>4, <3>2, <4>2
        <5>2. seen[q][i] = rows[i]
          BY <1>4, <3>2, <4>2, <5>1 DEF SeenOK, Named
        <5> QED
          BY <1>3, <1>4, <3>2, <5>1, <5>2
      <4> QED
        BY <4>1, <4>2
    <3> QED
      BY <3>1, <3>2
  <2> QED
    BY <2>1 DEF SeenOK, Named
<1>8. \A q \in Runners \ {p} : \A i \in DOMAIN work[q] :
        i \in Ids /\ i \notin DOMAIN work[p] /\ rows'[i] = rows[i]
  BY <1>3, WorkRows DEF OthersKeysOK
<1>9. ASSUME NEW q \in Runners PROVE WorkOf(q)'
  <2>1. CASE q = p
    BY <1>4, <2>1, EmptyWork DEF WorkOf
  <2>2. CASE q # p
    BY <1>4, <1>8, <2>2, SameWork DEF WorkOK
  <2> QED
    BY <2>1, <2>2
<1>10. OwnKeysOK'
  <2>1. ASSUME NEW q \in Runners \ {p}, NEW i \in DOMAIN work[q], NEW j \in Ids,
               i # j, View(q, j)' # None
        PROVE  ~Clash(work[q][i], View(q, j)')
    <3>1. CASE j \in DOMAIN work[q]
      <4>1. View(q, j)' = View(q, j)
        BY <1>4, <3>1 DEF View
      <4> QED
        BY <2>1, <4>1 DEF OwnKeysOK
    <3>2. CASE j \notin DOMAIN work[q] /\ j \in DOMAIN work[p]
      <4>1. View(q, j)' = work[p][j]
        BY <1>3, <1>4, <3>2 DEF View
      <4> QED
        BY <3>2, <4>1 DEF OthersKeysOK
    <3>3. CASE j \notin DOMAIN work[q] /\ j \notin DOMAIN work[p]
      <4>1. View(q, j)' = View(q, j)
        BY <1>3, <1>4, <3>3 DEF View
      <4> QED
        BY <2>1, <4>1 DEF OwnKeysOK
    <3> QED
      BY <3>1, <3>2, <3>3
  <2>2. ASSUME NEW q \in Runners, NEW i \in DOMAIN work'[q], NEW j \in Ids,
               i # j, View(q, j)' # None
        PROVE  ~Clash(work'[q][i], View(q, j)')
    BY <1>4, <2>1, <2>2, EmptyWork
  <2> QED
    BY <2>2 DEF OwnKeysOK, Clash, SameKey
<1>11. OthersKeysOK'
  BY <1>4, EmptyWork DEF OthersKeysOK, Clash, SameKey
<1>12. KeysUnique'
  <2>1. ASSUME NEW i \in Ids, NEW j \in Ids, i # j,
               rows'[i] # None, rows'[j] # None
        PROVE  ~Clash(rows'[i], rows'[j])
    <3>1. rows'[i] = View(p, i) /\ rows'[j] = View(p, j)
      BY <1>3
    <3>2. CASE i \in DOMAIN work[p]
      BY <2>1, <3>1, <3>2 DEF OwnKeysOK, View
    <3>3. CASE j \in DOMAIN work[p]
      <4>1. ~Clash(rows'[j], rows'[i])
        BY <2>1, <3>1, <3>3 DEF OwnKeysOK, View
      <4> QED
        BY <4>1, ClashSymmetric
    <3>4. CASE i \notin DOMAIN work[p] /\ j \notin DOMAIN work[p]
      BY <1>3, <2>1, <3>4 DEF KeysUnique
    <3> QED
      BY <3>2, <3>3, <3>4
  <2> QED
    BY <2>1 DEF KeysUnique, Clash, SameKey
<1>13. \A i \in Named(p) : rows'[i] # None
  <2>1. Named(p) \subseteq Ids
    BY SeedEntries
  <2> QED
    BY <1>3, <2>1, TakesEffect
<1>14. MappingOK'
  <2>1. MappingNamesCommitted'
    BY <1>3 DEF MappingOK, MappingNamesCommitted, TypeOK
  <2>2. ASSUME NEW q \in Runners, pc'[q] = "mapping", NEW i \in DOMAIN seed'[q]
        PROVE  rows'[i] # None
    <3>1. CASE q = p
      BY <1>4, <1>13, <2>2, <3>1 DEF Named
    <3>2. CASE q # p
      <4>1. pc[q] = "mapping" /\ i \in Named(q)
        BY <1>4, <2>2, <3>2 DEF Named
      <4>2. i \in Ids /\ rows[i] # None
        BY <4>1, SeedEntries DEF MappingOK
      <4> QED
        BY <1>3, <4>2
    <3> QED
      BY <3>1, <3>2
  <2> QED
    BY <2>1, <2>2 DEF MappingOK, Named
<1>15. LastOK'
  <2>1. ASSUME last' # None, NEW i \in DOMAIN last'
        PROVE  /\ rows'[i] # None
               /\ rows'[i].deleted
                    \/ \A f \in DOMAIN last'[i] : rows'[i][f] = last'[i][f]
    <3>1. touched[p] = {} /\ last' = seed[p] /\ i \in Named(p)
      BY <1>1, <2>1 DEF Named
    <3>2. i \in Ids
      BY <3>1, SeedEntries
    <3>3. rows'[i] = View(p, i)
      BY <1>3, <3>2
    <3> QED
      BY <3>1, <3>3, TakesEffect
  <2> QED
    BY <2>1 DEF LastOK, Applied
<1> QED
  BY <1>5, <1>6, <1>7, <1>9, <1>10, <1>11, <1>12, <1>14, <1>15 DEF WorkOK

\* A transaction commits, and the command goes on to its mapping or never
\* hears of it.
LEMMA CommitStep ==
    ASSUME SeedInv, NEW p \in Runners, Commit(p) \/ CommitUnseen(p)
    PROVE  SeedInv'
<1> USE DEF SeedInv
<1>1. CASE Commit(p)
  <2>1. /\ pc[p] = "flush" /\ Turns(p) = {} /\ Effect(p)
        /\ pc' = [pc EXCEPT ![p] = "mapping"]
        /\ work' = [work EXCEPT ![p] = Empty]
        /\ UNCHANGED <<mapping, seed, unread, seen, result, runs, edits, faults>>
    BY <1>1 DEF Commit, bounds
  <2>2. Leaves(p)
    BY <2>1, EmptyWork DEF Leaves, TypeOK
  <2> QED
    BY <2>1, <2>2, EffectStep DEF TypeOK
<1>2. CASE CommitUnseen(p)
  <2>1. /\ pc[p] = "flush" /\ Turns(p) = {} /\ Effect(p)
        /\ faults < MaxFaults /\ faults' = faults + 1
        /\ EndRun(p, "database")
        /\ UNCHANGED <<mapping, runs, edits>>
    BY <1>2 DEF CommitUnseen
  <2>2. Leaves(p)
    BY <2>1, Ended DEF Leaves, Results
  <2>3. faults' \in 0..MaxFaults
    BY <2>1, BoundAssumption DEF TypeOK
  <2> QED
    BY <2>1, <2>2, <2>3, EffectStep
<1> QED
  BY <1>1, <1>2

-----------------------------------------------------------------------------
(***************************************************************************)
(* The API, and the invariant.                                             *)
(***************************************************************************)

\* A request writes a row.
LEMMA ApiStep ==
    ASSUME SeedInv, NEW i \in Ids, NEW r \in Row, ApiWrite(i, r)
    PROVE  SeedInv'
<1> USE DEF SeedInv
<1>1. /\ edits < MaxEdits /\ edits' = edits + 1
      /\ rows' = [rows EXCEPT ![i] = r]
      /\ Touch(None, {i}) /\ last' = None
      /\ UNCHANGED <<mapping, pc, seed, unread, seen, work, result, runs, faults>>
  BY DEF ApiWrite, local
<1>2. \A q \in Runners :
        /\ i \notin DOMAIN work[q]
        /\ \A j \in DOMAIN work[q] : ~Clash(work[q][j], r)
  BY ClashSymmetric DEF ApiWrite, Holds
<1>3. \A j \in Ids \ {i} : rows[j] # None =>
        ~Clash(r, rows[j]) /\ ~Clash(rows[j], r)
  BY ClashSymmetric DEF ApiWrite
<1>4. /\ touched' \in [Runners -> SUBSET Ids]
      /\ \A q \in Runners :
           touched'[q] = IF pc[q] = "idle" THEN {} ELSE touched[q] \cup {i}
  BY <1>1, Touches, NoneAssumption
<1>5. /\ rows'[i] = r /\ r # None
      /\ \A j \in Ids \ {i} : rows'[j] = rows[j]
  BY <1>1, NoneAssumption DEF TypeOK
<1>6. TypeOK'
  BY <1>1, <1>4, BoundAssumption DEF TypeOK
<1>7. ControlOK'
  BY <1>1, <1>4 DEF ControlOK
<1>8. SeenOK'
  <2>1. ASSUME NEW q \in Runners, NEW j \in Ids
        PROVE  /\ seen[q][j] # None => rows'[j] # None
               /\ /\ pc[q] \in {"plan", "flush"}
                  /\ j \in Named(q) \ (unread[q] \cup touched'[q])
                  => seen[q][j] = rows'[j]
    BY <1>4, <1>5 DEF SeenOK
  <2> QED
    BY <1>1, <2>1 DEF SeenOK, Named
<1>9. ASSUME NEW q \in Runners PROVE WorkOf(q)'
  <2>1. \A j \in DOMAIN work[q] : rows'[j] = rows[j]
    BY <1>2, <1>5, WorkRows
  <2> QED
    BY <1>1, <2>1, SameWork DEF WorkOK
<1>10. OwnKeysOK'
  <2>1. ASSUME NEW q \in Runners, NEW j \in DOMAIN work[q], NEW k \in Ids,
               j # k, View(q, k)' # None
        PROVE  ~Clash(work[q][j], View(q, k)')
    <3>1. CASE k = i
      <4>1. View(q, k)' = r
        BY <1>1, <1>2, <1>5, <3>1 DEF View
      <4> QED
        BY <1>2, <4>1
    <3>2. CASE k # i
      <4>1. View(q, k)' = View(q, k)
        BY <1>1, <1>5, <3>2 DEF View
      <4> QED
        BY <2>1, <4>1 DEF OwnKeysOK
    <3> QED
      BY <3>1, <3>2
  <2> QED
    BY <1>1, <2>1 DEF OwnKeysOK, Clash, SameKey
<1>11. OthersKeysOK'
  BY <1>1 DEF OthersKeysOK, Clash, SameKey
<1>12. KeysUnique'
  <2>1. ASSUME NEW j \in Ids, NEW k \in Ids, j # k,
               rows'[j] # None, rows'[k] # None
        PROVE  ~Clash(rows'[j], rows'[k])
    <3>1. CASE j = i
      BY <1>3, <1>5, <2>1, <3>1
    <3>2. CASE k = i
      BY <1>3, <1>5, <2>1, <3>2
    <3>3. CASE j # i /\ k # i
      BY <1>5, <2>1, <3>3 DEF KeysUnique
    <3> QED
      BY <3>1, <3>2, <3>3
  <2> QED
    BY <2>1 DEF KeysUnique, Clash, SameKey
<1>13. \A j \in Ids : rows[j] # None => rows'[j] # None
  BY <1>5
<1>14. MappingOK'
  <2>1. \A q \in Runners : pc[q] = "mapping" => Named(q) \subseteq Ids
    BY SeedEntries
  <2> QED
    BY <1>1, <1>13, <2>1 DEF MappingOK, MappingNamesCommitted, TypeOK, Named
<1>15. LastOK'
  BY <1>1 DEF LastOK
<1> QED
  BY <1>6, <1>7, <1>8, <1>9, <1>10, <1>11, <1>12, <1>14, <1>15 DEF WorkOK

\* What a request writes is a row.
LEMMA ApiRow ==
    ASSUME SeedInv, Api
    PROVE  \E i \in Ids, r \in Row : ApiWrite(i, r)
<1>1. TypeOK
  BY DEF SeedInv
<1>2. ASSUME NEW i \in ApiIds, NEW e \in Eins \cup {None}, ApiCreate(i, e)
      PROVE  \E j \in Ids, r \in Row : ApiWrite(j, r)
  <2>1. PICK r : r = [Default EXCEPT !.ein = e]
    OBVIOUS
  <2>2. r \in Row
    BY <2>1 DEF Default, Row
  <2>3. ApiWrite(i, r)
    BY <1>2, <2>1 DEF ApiCreate
  <2> QED
    BY <2>2, <2>3, IdAssumption
<1>3. ASSUME NEW i \in Ids, NEW f \in Fields, NEW v \in Value(f),
             ApiUpdate(i, f, v)
      PROVE  \E j \in Ids, r \in Row : ApiWrite(j, r)
  <2>1. rows[i] \in Row
    BY <1>1, <1>3 DEF ApiUpdate, Live, TypeOK
  <2>2. PICK s \in Row : s = rows[i]
    BY <2>1
  <2>3. PICK r : r = [s EXCEPT ![f] = v]
    OBVIOUS
  <2>4. r \in Row
    <3>1. DOMAIN s = Columns /\ f \in Columns
      BY RowColumns DEF Fields, Unique, Columns
    <3>2. r = [g \in Columns |-> IF g = f THEN v ELSE s[g]]
      BY <2>3, <3>1
    <3>3. \A g \in Fields : r[g] \in Value(g)
      BY <3>2, RowColumns DEF Fields, Unique, Columns
    <3>4. r["deleted"] \in BOOLEAN
      BY <3>2, RowColumns DEF Fields, Unique, Columns
    <3> QED
      BY <3>2, <3>3, <3>4, RowOfColumns
  <2>5. ApiWrite(i, r)
    BY <1>3, <2>2, <2>3 DEF ApiUpdate
  <2> QED
    BY <2>4, <2>5
<1>4. ASSUME NEW i \in Ids, ApiDelete(i)
      PROVE  \E j \in Ids, r \in Row : ApiWrite(j, r)
  <2>1. rows[i] \in Row
    BY <1>1, <1>4 DEF ApiDelete, Live, TypeOK
  <2>2. PICK s \in Row : s = rows[i]
    BY <2>1
  <2>3. PICK r : r = [s EXCEPT !.deleted = TRUE]
    OBVIOUS
  <2>4. r \in Row
    BY <2>3 DEF Row
  <2>5. ApiWrite(i, r)
    BY <1>4, <2>2, <2>3 DEF ApiDelete
  <2> QED
    BY <2>4, <2>5
<1> QED
  BY <1>2, <1>3, <1>4 DEF Api

\* The ends of a run that leave the table as it is.
LEMMA EndsStep ==
    ASSUME SeedInv, NEW p \in Runners,
           \/ \E i \in Ids : Conflict(p, i)
           \/ BreakDeadlock(p)
           \/ WriteMapping(p)
           \/ MappingFails(p)
           \/ \E how \in {"database", "killed"} : Fail(p, how)
    PROVE  SeedInv'
<1>1. TypeOK /\ MappingOK /\ ControlOK
  BY DEF SeedInv
<1>2. ASSUME NEW i \in Ids, Conflict(p, i) PROVE SeedInv'
  BY <1>1, <1>2, EndStep DEF Conflict, bounds, Results, TypeOK
<1>3. ASSUME BreakDeadlock(p) PROVE SeedInv'
  BY <1>1, <1>3, EndStep DEF BreakDeadlock, bounds, Results, TypeOK
<1>4. ASSUME WriteMapping(p) PROVE SeedInv'
  <2>1. /\ mapping' = Named(p) \ Skipped(p)
        /\ EndRun(p, IF Skipped(p) = {} THEN "ok" ELSE "skipped")
        /\ Touch(p, {}) /\ pc[p] = "mapping"
        /\ UNCHANGED <<rows, runs, edits, faults, last>>
    BY <1>4 DEF WriteMapping, bounds
  <2>2. mapping' \subseteq Ids /\ \A i \in mapping' : rows[i] # None
    BY <1>1, <2>1, SeedEntries DEF MappingOK
  <2>3. PICK how \in Results : EndRun(p, how)
    BY <2>1 DEF Results
  <2> QED
    BY <1>1, <2>1, <2>2, <2>3, EndStep DEF TypeOK
<1>5. ASSUME MappingFails(p) PROVE SeedInv'
  <2>1. faults' \in 0..MaxFaults
    BY <1>1, <1>5, BoundAssumption DEF MappingFails, TypeOK
  <2> QED
    BY <1>5, <2>1, EndStep DEF MappingFails, Results
<1>6. ASSUME NEW how \in {"database", "killed"}, Fail(p, how) PROVE SeedInv'
  <2>1. faults' \in 0..MaxFaults
    BY <1>1, <1>6, BoundAssumption DEF Fail, TypeOK
  <2>2. how \in Results
    BY DEF Results
  <2> QED
    BY <1>6, <2>1, <2>2, EndStep DEF Fail
<1> QED
  BY <1>2, <1>3, <1>4, <1>5, <1>6

\* Nothing happens.
LEMMA SeedStutter ==
    ASSUME SeedInv, UNCHANGED vars
    PROVE  SeedInv'
BY DEF SeedInv, vars, local, bounds, TypeOK, ControlOK, SeenOK, WorkOK, WorkOf,
   OwnKeysOK, OthersKeysOK, KeysUnique, MappingOK, MappingNamesCommitted,
   LastOK, Applied, Named, NewRows, Skipped, Changes, Diff, Released, OnTheWay,
   View, Clash, SameKey

\* Every step keeps the invariant.
LEMMA SeedNext == SeedInv /\ [Next]_vars => SeedInv'
<1> SUFFICES ASSUME SeedInv, [Next]_vars PROVE SeedInv'
  OBVIOUS
<1>1. CASE \E p \in Runners : Run(p)
  BY <1>1, ReadStep, WriteStep, CommitStep, EndsStep DEF Run
<1>2. CASE \E p \in Runners : Fault(p)
  BY <1>2, CommitStep, EndsStep DEF Fault
<1>3. CASE \E p \in Runners, s \in Seeds : Start(p, s)
  BY <1>3, StartStep
<1>4. CASE Api
  BY <1>4, ApiRow, ApiStep
<1>5. CASE UNCHANGED vars
  BY <1>5, SeedStutter
<1> QED
  BY <1>1, <1>2, <1>3, <1>4, <1>5 DEF Next

LEMMA SeedAlways == Spec => []SeedInv
BY SeedInit, SeedNext, PTL DEF Spec

-----------------------------------------------------------------------------
(***************************************************************************)
(* The theorems.                                                           *)
(***************************************************************************)

\* The state of the seed commands and the rows keep their types.
THEOREM TypeCorrect == Spec => []TypeOK
BY SeedAlways, PTL DEF SeedInv

\* No two committed rows hold one key of a unique index, whatever the order of
\* the statements, the commits and the requests.
THEOREM SeedKeysStayUnique == Spec => []KeysUnique
BY SeedAlways, PTL DEF SeedInv

\* The mapping file names only entities that have committed rows.
THEOREM MappingCommitted == Spec => []MappingNamesCommitted
<1>1. SeedInv => MappingNamesCommitted
  BY DEF SeedInv, MappingOK
<1> QED
  BY SeedAlways, <1>1, PTL

\* A seed that is applied again has nothing to do.
THEOREM SecondRunPlansNothing == Spec => []SeedIsIdempotent
<1>1. ASSUME SeedInv, NEW p \in Runners, pc[p] = "flush", last = seed[p],
             touched[p] = {}
      PROVE  NewRows(p) = {} /\ Changes(p) = {}
  <2>1. TypeOK /\ ControlOK /\ SeenOK /\ LastOK
    BY <1>1 DEF SeedInv
  <2>2. last # None /\ unread[p] = {} /\ Named(p) \subseteq Ids
    BY <1>1, <2>1, SeedEntries, NoneAssumption DEF ControlOK
  <2>3. \A i \in Named(p) :
          /\ seen[p][i] = rows[i] /\ rows[i] # None
          /\ rows[i].deleted
               \/ \A f \in DOMAIN seed[p][i] : rows[i][f] = seed[p][i][f]
    BY <1>1, <2>1, <2>2 DEF SeenOK, LastOK, Applied, Named
  <2>4. NewRows(p) = {}
    BY <2>3 DEF NewRows
  <2>5. Changes(p) = {}
    BY <2>3 DEF Changes, Skipped, Diff
  <2> QED
    BY <2>4, <2>5
<1>2. SeedInv => SeedIsIdempotent
  BY <1>1 DEF SeedIsIdempotent
<1> QED
  BY SeedAlways, <1>2, PTL

\* The steps that change where a run is.
LEMMA Mover ==
    ASSUME SeedInv, [Next]_vars, NEW p \in Runners, pc'[p] # pc[p]
    PROVE  \/ Commit(p) \/ CommitUnseen(p)
           \/ \E i \in Ids : Conflict(p, i)
           \/ rows' = rows /\ pc[p] # "flush"
           \/ rows' = rows /\ pc'[p] = "idle" /\ result' # "conflict"
<1>1. TypeOK
  BY DEF SeedInv
<1>2. pc' # pc
  OBVIOUS
<1>3. ~Api /\ ~UNCHANGED vars
  BY <1>2 DEF Api, ApiCreate, ApiUpdate, ApiDelete, ApiWrite, vars, local
<1>4. ASSUME NEW q \in Runners, NEW i \in Ids, Read(q, i)
      PROVE  rows' = rows /\ pc[p] # "flush"
  BY <1>1, <1>4 DEF Read, TypeOK
<1>5. ASSUME NEW q \in Runners, NEW i \in Ids PROVE ~Write(q, i)
  BY <1>2 DEF Write
<1>6. ASSUME NEW q \in Runners, NEW s \in Seeds, Start(q, s)
      PROVE  rows' = rows /\ pc[p] # "flush"
  BY <1>1, <1>6 DEF Start, TypeOK
<1>7. ASSUME NEW q \in Runners, Commit(q)
      PROVE  q = p
  BY <1>1, <1>7 DEF Commit, TypeOK
<1>8. ASSUME NEW q \in Runners, NEW how, EndRun(q, how)
      PROVE  q = p /\ pc'[p] = "idle" /\ result' = how
  BY <1>1, <1>8 DEF EndRun, TypeOK
<1>9. ASSUME NEW q \in Runners, CommitUnseen(q) PROVE q = p
  BY <1>8, <1>9 DEF CommitUnseen
<1>10. ASSUME NEW q \in Runners, NEW i \in Ids, Conflict(q, i) PROVE q = p
  BY <1>8, <1>10 DEF Conflict
<1>11. ASSUME NEW q \in Runners, WriteMapping(q)
       PROVE  rows' = rows /\ pc[p] # "flush"
  BY <1>8, <1>11 DEF WriteMapping
<1>12. ASSUME NEW q \in Runners,
              \/ BreakDeadlock(q) \/ MappingFails(q)
              \/ \E how \in {"database", "killed"} : Fail(q, how)
       PROVE  rows' = rows /\ pc'[p] = "idle" /\ result' # "conflict"
  BY <1>8, <1>12 DEF BreakDeadlock, MappingFails, Fail
<1>13. CASE \E q \in Runners : Run(q)
  <2>1. PICK q \in Runners : Run(q)
    BY <1>13
  <2>2. CASE \E i \in Ids : Read(q, i) \/ Write(q, i) \/ Conflict(q, i)
    BY <1>4, <1>5, <1>10, <2>2
  <2>3. CASE BreakDeadlock(q) \/ Commit(q) \/ WriteMapping(q)
    BY <1>7, <1>11, <1>12, <2>3
  <2> QED
    BY <2>1, <2>2, <2>3 DEF Run
<1>14. CASE \E q \in Runners : Fault(q)
  BY <1>9, <1>12, <1>14 DEF Fault
<1> QED
  BY <1>3, <1>6, <1>13, <1>14 DEF Next

\* What a commit leaves in the table.
LEMMA CommitLeaves ==
    ASSUME SeedInv, NEW p \in Runners, Commit(p) \/ CommitUnseen(p)
    PROVE  /\ pc[p] = "flush" /\ Turns(p) = {}
           /\ \A i \in Ids : rows'[i] = View(p, i)
BY DEF Commit, CommitUnseen, Effect, Committed

\* A run that commits leaves every live entity of its file that nobody else
\* has changed with every value the file sets.
THEOREM CommittedSeedTakesEffect == Spec => SeedTakesEffect
<1>1. ASSUME SeedInv, [Next]_vars, NEW p \in Runners,
             pc[p] = "flush", pc'[p] = "mapping", NEW i \in Named(p) \ touched[p]
      PROVE  /\ rows'[i] # None
             /\ rows'[i].deleted
                  \/ \A f \in DOMAIN seed[p][i] : rows'[i][f] = seed[p][i][f]
  <2>1. ~CommitUnseen(p) /\ \A j \in Ids : ~Conflict(p, j)
    BY <1>1 DEF CommitUnseen, Conflict, EndRun, SeedInv, TypeOK
  <2>2. Commit(p)
    BY <1>1, <2>1, Mover
  <2>3. i \in Ids
    BY <1>1, SeedEntries DEF SeedInv
  <2> QED
    BY <1>1, <2>2, <2>3, CommitLeaves, TakesEffect
<1>2. SeedInv /\ [Next]_vars =>
        [\A p \in Runners :
           pc[p] = "flush" /\ pc'[p] = "mapping" =>
               \A i \in Named(p) \ touched[p] :
                   /\ rows'[i] # None
                   /\ rows'[i].deleted
                        \/ \A f \in DOMAIN seed[p][i] :
                             rows'[i][f] = seed[p][i][f]]_vars
  BY <1>1
<1> QED
  BY SeedAlways, <1>2, PTL DEF Spec, SeedTakesEffect

\* A run changes only the fields its file names, of rows that stay.
THEOREM OnlyNamedFields == Spec => OnlyNamedFieldsChange
<1>1. ASSUME SeedInv, [Next]_vars, NEW p \in Runners, NEW i \in Ids,
             pc'[p] # pc[p], rows[i] # None, rows'[i] # rows[i]
      PROVE  /\ i \in Named(p)
             /\ rows'[i] # None
             /\ \A f \in DOMAIN rows[i] :
                  rows'[i][f] # rows[i][f] => f \in DOMAIN seed[p][i]
  <2>1. Commit(p) \/ CommitUnseen(p)
    BY <1>1, Mover DEF Conflict
  <2>2. pc[p] = "flush" /\ Turns(p) = {} /\ rows'[i] = View(p, i)
    BY <1>1, <2>1, CommitLeaves
  <2>3. i \in DOMAIN work[p] /\ rows'[i] = work[p][i]
    BY <1>1, <2>2 DEF View
  <2>4. i \in Changes(p)
    BY <1>1, <2>2, <2>3, AllWritten
  <2>5. rows[i] \in Row /\ rows'[i] \in Row /\ i \in Named(p)
    BY <1>1, <2>2, <2>4, ChangedRow DEF SeedInv
  <2>6. \A f \in Columns \ Diff(p, i) : rows'[i][f] = rows[i][f]
    BY <1>1, <2>2, <2>3, <2>4, AllWritten
  <2>7. Diff(p, i) \subseteq DOMAIN seed[p][i]
    BY DEF Diff
  <2> QED
    BY <2>5, <2>6, <2>7, RowColumns, NoneAssumption
<1>2. SeedInv /\ [Next]_vars =>
        [\A p \in Runners, i \in Ids :
           pc'[p] # pc[p] /\ rows[i] # None /\ rows'[i] # rows[i] =>
               /\ i \in Named(p)
               /\ rows'[i] # None
               /\ \A f \in DOMAIN rows[i] :
                    rows'[i][f] # rows[i][f] => f \in DOMAIN seed[p][i]]_vars
  BY <1>1
<1> QED
  BY SeedAlways, <1>2, PTL DEF Spec, OnlyNamedFieldsChange

\* A run leaves a row alone that was deleted when it read it.
THEOREM DeletedRowsKeep == Spec => DeletedRowsAreLeftAlone
<1>1. ASSUME SeedInv, [Next]_vars, NEW p \in Runners, NEW i \in Named(p),
             pc[p] = "flush", pc'[p] # "flush",
             seen[p][i] # None, seen[p][i].deleted
      PROVE  rows'[i] = rows[i]
  <2>1. CASE Commit(p) \/ CommitUnseen(p)
    <3>1. i \in Ids
      BY <1>1, SeedEntries DEF SeedInv
    <3>2. i \notin Changes(p) /\ i \notin NewRows(p)
      BY <1>1 DEF Changes, Skipped, NewRows
    <3>3. i \notin DOMAIN work[p]
      BY <1>1, <2>1, <3>2, CommitLeaves, AllWritten
    <3> QED
      BY <1>1, <2>1, <3>1, <3>3, CommitLeaves DEF View
  <2>2. CASE rows' = rows
    BY <2>2
  <2> QED
    BY <1>1, <2>1, <2>2, Mover DEF Conflict
<1>2. SeedInv /\ [Next]_vars =>
        [\A p \in Runners : \A i \in Named(p) :
           /\ pc[p] = "flush" /\ pc'[p] # "flush"
           /\ seen[p][i] # None /\ seen[p][i].deleted
           => rows'[i] = rows[i]]_vars
  BY <1>1
<1> QED
  BY SeedAlways, <1>2, PTL DEF Spec, DeletedRowsAreLeftAlone

\* No two rows that a run sees clash.
LEMMA ViewUnique ==
    ASSUME SeedInv, NEW p \in Runners, NEW i \in Ids, NEW j \in Ids, i # j,
           View(p, i) # None, View(p, j) # None
    PROVE  ~Clash(View(p, i), View(p, j))
<1>1. OwnKeysOK /\ KeysUnique
  BY DEF SeedInv
<1>2. CASE i \in DOMAIN work[p]
  <2>1. ~Clash(work[p][i], View(p, j))
    BY <1>1, <1>2 DEF OwnKeysOK
  <2> QED
    BY <1>2, <2>1 DEF View
<1>3. CASE j \in DOMAIN work[p]
  <2>1. ~Clash(work[p][j], View(p, i))
    BY <1>1, <1>3 DEF OwnKeysOK
  <2>2. ~Clash(View(p, j), View(p, i))
    BY <1>3, <2>1 DEF View
  <2> QED
    BY <2>2, ClashSymmetric
<1>4. CASE i \notin DOMAIN work[p] /\ j \notin DOMAIN work[p]
  BY <1>1, <1>4 DEF KeysUnique, View
<1> QED
  BY <1>2, <1>3, <1>4

\* Once the first flush is over, a live row that the file names has, in a
\* unique field the file assigns, what the file says or nothing.
LEMMA AssignedOrGivenUp ==
    ASSUME SeedInv, NEW p \in Runners, pc[p] = "flush", touched[p] = {},
           Unreleased(p) = {}, NEW j \in Named(p), View(p, j) # None,
           View(p, j).deleted = FALSE,
           NEW f \in Unique, f \in DOMAIN seed[p][j]
    PROVE  View(p, j)[f] \in {None, seed[p][j][f]}
<1> USE DEF SeedInv
<1>1. /\ j \in Ids /\ seen[p][j] = rows[j]
      /\ f \in Columns
  BY SeedEntries DEF SeenOK, ControlOK, Unique, Columns
<1>2. WorkOf(p)
  BY DEF WorkOK
<1>3. CASE j \in NewRows(p)
  <2>1. j \in DOMAIN work[p] /\ j \notin Changes(p)
    BY <1>1, <1>3 DEF View, NewRows, Changes
  <2>2. View(p, j) = Merge(Default, seed[p][j], DOMAIN seed[p][j])
    BY <1>2, <2>1 DEF View, WorkOf
  <2>3. Default \in Row
    BY <1>3, AfterInserts
  <2> QED
    BY <1>1, <2>2, <2>3, RowColumns DEF Merge
<1>4. CASE j \in Changes(p) /\ f \notin Diff(p, j)
  <2>1. View(p, j)[f] = rows[j][f]
    BY <1>1, <1>4, ViewOnTheWay
  <2>2. seed[p][j][f] = seen[p][j][f]
    BY <1>4 DEF Diff
  <2> QED
    BY <1>1, <2>1, <2>2
<1>5. CASE j \in Changes(p) /\ f \in Diff(p, j) /\ f \in Released(p, j)
  <2>1. j \in DOMAIN work[p]
    BY <1>5 DEF Unreleased
  <2>2. OnTheWay(p, j, work[p][j]) /\ View(p, j) = work[p][j]
    BY <1>5, <2>1, ChangedRow DEF View
  <2> QED
    BY <1>1, <1>5, <2>2 DEF OnTheWay
<1>6. CASE j \in Changes(p) /\ f \in Diff(p, j) /\ f \notin Released(p, j)
  <2>1. rows[j][f] = None
    BY <1>1, <1>6 DEF Released
  <2>2. CASE j \in DOMAIN work[p]
    <3>1. OnTheWay(p, j, work[p][j]) /\ View(p, j) = work[p][j]
      BY <1>6, <2>2, ChangedRow DEF View
    <3> QED
      BY <1>1, <1>6, <2>1, <3>1 DEF OnTheWay
  <2>3. CASE j \notin DOMAIN work[p]
    BY <2>1, <2>3 DEF View
  <2> QED
    BY <2>2, <2>3
<1>7. CASE j \notin NewRows(p) /\ j \notin Changes(p)
  <2>1. View(p, j) = seen[p][j]
    BY <1>1, <1>2, <1>7 DEF WorkOf, View
  <2>2. j \notin Skipped(p)
    BY <2>1 DEF Skipped
  <2>3. Diff(p, j) = {}
    BY <1>7, <2>2 DEF Changes
  <2> QED
    BY <2>1, <2>3 DEF Diff
<1> QED
  BY <1>3, <1>4, <1>5, <1>6, <1>7

\* The second flush writes, in a field the file assigns, what the file says.
LEMMA AfterHasAssigned ==
    ASSUME SeedInv, NEW p \in Runners, pc[p] = "flush", touched[p] = {},
           NEW i \in Turns(p), i \notin Unreleased(p),
           NEW f \in Unique, f \in DOMAIN seed[p][i]
    PROVE  After(p, i)[f] = seed[p][i][f] /\ Unreleased(p) = {}
<1> USE DEF SeedInv
<1>1. /\ i \in Named(p) /\ i \in Ids /\ Unreleased(p) = {}
      /\ i \in Changes(p) \/ i \in NewRows(p)
  BY TurnKinds DEF Unwritten, Uninserted
<1>2. seen[p][i] = rows[i] /\ f \in Columns
  BY <1>1 DEF SeenOK, ControlOK, Unique, Columns
<1>3. CASE i \in NewRows(p)
  BY <1>1, <1>2, <1>3, AfterInserts, RowColumns DEF Merge
<1>4. CASE i \in Changes(p)
  <2>1. After(p, i)[f] = IF f \in Diff(p, i) THEN seed[p][i][f] ELSE rows[i][f]
    BY <1>1, <1>2, <1>4, AfterAssigns
  <2> QED
    BY <1>1, <1>2, <2>1 DEF Diff
<1> QED
  BY <1>1, <1>3, <1>4

\* Values that move between rows the file assigns never collide on the way.
THEOREM MovesNeverCollide == Spec => MovingValuesNeverCollide
<1>1. ASSUME SeedInv, [Next]_vars, NEW p \in Runners, Refused(p),
             touched[p] = {}
      PROVE  \E i \in Turns(p), f \in Unique : \E j \in Ids \ {i} :
                 /\ View(p, j) # None
                 /\ SameKey(f, After(p, i), View(p, j))
                 /\ \/ j \notin Named(p)
                    \/ f \notin DOMAIN seed[p][j]
                    \/ f \notin DOMAIN seed[p][i]
  <2>1. ~Commit(p) /\ ~CommitUnseen(p)
    BY <1>1 DEF Refused, Commit, CommitUnseen, EndRun, SeedInv, TypeOK
  <2>2. PICK i \in Ids : Conflict(p, i)
    BY <1>1, <2>1, Mover DEF Refused
  <2>3. pc[p] = "flush" /\ i \in Turns(p) /\ Breaks(p, i)
    BY <2>2 DEF Conflict
  <2>4. /\ TypeOK /\ ControlOK /\ SeenOK /\ WorkOK
        /\ unread[p] = {} /\ ValidSeed(seed[p])
    BY <1>1, <2>3 DEF SeedInv, ControlOK
  <2>5. i \in Named(p) /\ seen[p][i] = rows[i]
    BY <1>1, <2>3, <2>4, TurnKinds DEF SeenOK
  <2>6. PICK j \in Ids \ {i}, f \in Unique :
          View(p, j) # None /\ SameKey(f, After(p, i), View(p, j))
    BY <2>3, <2>5 DEF Breaks, Clash, NewRows
  <2>7. After(p, i)[f] # None /\ After(p, i)[f] = View(p, j)[f]
    BY <2>6 DEF SameKey
  <2>8. i \notin Unreleased(p)
    <3>1. SUFFICES ASSUME i \in Unreleased(p) PROVE FALSE
      OBVIOUS
    <3>2. /\ After(p, i) \in Row
          /\ \A g \in Columns :
               After(p, i)[g] = IF g \in Released(p, i) THEN None
                                                        ELSE rows[i][g]
      BY <2>3, <2>4, <3>1, AfterReleases
    <3>3. i \in Changes(p) /\ i \notin DOMAIN work[p]
      BY <3>1 DEF Unreleased
    <3>4. View(p, i) = rows[i] /\ rows[i] \in Row /\ Released(p, i) \subseteq Unique
      BY <2>3, <2>4, <3>3, ChangedRow DEF View
    <3>5. /\ After(p, i)[f] = rows[i][f]
          /\ After(p, i).deleted = rows[i].deleted
          /\ After(p, i).active = rows[i].active
      BY <2>7, <3>2, <3>4 DEF Columns, Unique
    <3>6. SameKey(f, View(p, i), View(p, j))
      BY <2>6, <3>4, <3>5 DEF SameKey
    <3> QED
      BY <1>1, <2>6, <3>4, <3>6, ViewUnique, NoneAssumption DEF Clash
  <2>9. \/ j \notin Named(p)
        \/ f \notin DOMAIN seed[p][j]
        \/ f \notin DOMAIN seed[p][i]
    <3>1. SUFFICES ASSUME j \in Named(p), f \in DOMAIN seed[p][j],
                          f \in DOMAIN seed[p][i]
                   PROVE  FALSE
      OBVIOUS
    <3>2. After(p, i)[f] = seed[p][i][f] /\ Unreleased(p) = {}
      BY <1>1, <2>3, <2>8, <3>1, AfterHasAssigned
    <3>3. seed[p][j][f] # seed[p][i][f]
      BY <2>4, <2>5, <2>6, <2>7, <3>1, <3>2 DEF ValidSeed, Named
    <3>4. View(p, j) \in Row /\ ~View(p, j).deleted
      BY <2>4, <2>6, ViewRows DEF SameKey
    <3>5. View(p, j).deleted = FALSE
      BY <3>4, RowColumns
    <3>6. View(p, j)[f] \in {None, seed[p][j][f]}
      BY <1>1, <2>3, <2>6, <3>1, <3>2, <3>5, AssignedOrGivenUp
    <3> QED
      BY <2>7, <3>2, <3>3, <3>6
  <2> QED
    BY <2>3, <2>6, <2>9
<1>2. SeedInv /\ [Next]_vars =>
        [\A p \in Runners :
           Refused(p) /\ touched[p] = {} =>
               \E i \in Turns(p), f \in Unique : \E j \in Ids \ {i} :
                   /\ View(p, j) # None
                   /\ SameKey(f, After(p, i), View(p, j))
                   /\ \/ j \notin Named(p)
                      \/ f \notin DOMAIN seed[p][j]
                      \/ f \notin DOMAIN seed[p][i]]_vars
  BY <1>1
<1> QED
  BY SeedAlways, <1>2, PTL DEF Spec, MovingValuesNeverCollide
=============================================================================
