-------------------------- MODULE ExcelImportProofs ---------------------------
(***************************************************************************)
(* Theorems about ExcelImport, for all workbooks and tables and every      *)
(* bound.                                                                  *)
(***************************************************************************)
EXTENDS ExcelImport, FiniteSetTheorems, WellFoundedInduction, TLAPS

Fields == {"pc", "wb", "dry", "left", "work", "ids", "adds", "since", "tally"}

\* The stages of an import: what is left of the children are rows of the
\* workbook at hand, and nothing is resolved or added before they begin.
RunOK ==
    /\ DOMAIN entities = Ids
    /\ DOMAIN run = Fields
    /\ run.pc \in {"idle", "entities", "children"}
    /\ run.pc = "idle" => run = Idle
    /\ run.pc # "idle" => run.wb \in Workbooks
    /\ run.pc # "children" => run.ids = <<>> /\ run.adds = {}
    /\ run.pc = "children" => /\ run.left \in Seq(ChildRow)
                              /\ ToSet(run.left) \subseteq ToSet(run.wb.rows)

\* The ids read for the sheet's names are still those of live entities of that
\* name, but for the ones a request touched since.
IdsOK ==
    \A n \in DOMAIN run.ids :
        /\ run.ids[n] \in Ids
        /\ run.ids[n] \in Named(n) \/ run.ids[n] \in touched

\* A row to be written is that of a row of the workbook, for the id read for
\* its name.
Stems(c, r) ==
    /\ r.name \in DOMAIN run.ids
    /\ c.entity = run.ids[r.name] /\ c.sheet = r.sheet /\ c.key = r.key

AddsOK == \A c \in run.adds : \E r \in ToSet(run.wb.rows) : Stems(c, r)

ImportInv == RunOK /\ IdsOK /\ AddsOK

-----------------------------------------------------------------------------
(***************************************************************************)
(* Lemmas about the parts of a step.                                       *)
(***************************************************************************)
LEMMA IdleFields ==
    /\ DOMAIN Idle = Fields /\ Idle.pc = "idle" /\ Idle.ids = <<>>
    /\ Idle.adds = {} /\ DOMAIN Idle.ids = {}
BY DEF Idle, Fields

\* An import that ends in any way leaves nothing to speak of.
LEMMA EndKeeps ==
    ASSUME run' = Idle, DOMAIN entities' = Ids
    PROVE  ImportInv'
BY IdleFields DEF ImportInv, RunOK, IdsOK, AddsOK

\* The next row is one of the workbook, and so are those after it.
LEMMA NextRow ==
    ASSUME ImportInv, run.pc = "children", run.left # <<>>
    PROVE  /\ Row \in ToSet(run.wb.rows)
           /\ Tail(run.left) \in Seq(ChildRow)
           /\ ToSet(Tail(run.left)) \subseteq ToSet(run.wb.rows)
<1>1. run.left \in Seq(ChildRow) /\ ToSet(run.left) \subseteq ToSet(run.wb.rows)
  BY DEF ImportInv, RunOK
<1>2. /\ Head(run.left) \in ToSet(run.left)
      /\ Tail(run.left) \in Seq(ChildRow)
      /\ ToSet(Tail(run.left)) \subseteq ToSet(run.left)
  BY <1>1 DEF ToSet
<1> QED
  BY <1>1, <1>2 DEF Row

\* A step on one child row that adds nothing but rows that stem from it.
LEMMA RowKeeps ==
    ASSUME ImportInv, run.pc = "children", run.left # <<>>,
           NEW new, \A c \in new : c \in run.adds \/ Stems(c, Row),
           NEW t, run' = [run EXCEPT !.left = Tail(@), !.adds = new, !.tally = t],
           Unchanged
    PROVE  ImportInv'
<1>1. /\ run'.pc = "children" /\ run'.wb = run.wb /\ run'.ids = run.ids
      /\ run'.work = run.work /\ run'.left = Tail(run.left) /\ run'.adds = new
      /\ DOMAIN run' = Fields
      /\ UNCHANGED <<entities, touched>>
  BY DEF ImportInv, RunOK, Unchanged, Fields
<1>2. RunOK'
  BY <1>1, NextRow DEF ImportInv, RunOK
<1>3. IdsOK'
  BY <1>1 DEF ImportInv, IdsOK, Named, View
<1>4. AddsOK'
  BY <1>1, NextRow DEF ImportInv, AddsOK, Stems
<1> QED
  BY <1>2, <1>3, <1>4 DEF ImportInv

\* The entity i keeps its name, and stays live if it was.
StaysLive(i) ==
    /\ entities'[i] # None
    /\ entities'[i].name = entities[i].name /\ entities'[i].deleted = entities[i].deleted
    /\ entities[i].active => entities'[i].active

\* What others change but do not touch keeps its name and stays live.
LEMMA OthersKeep ==
    ASSUME ImportInv, UNCHANGED run, DOMAIN entities' = Ids,
           touched \subseteq touched',
           \A i \in Ids : \/ i \in touched' \/ View(i) = None \/ i \in DOMAIN run.work
                          \/ entities'[i] = entities[i] \/ StaysLive(i)
    PROVE  ImportInv'
<1>1. RunOK' /\ AddsOK'
  BY DEF ImportInv, RunOK, AddsOK, Stems
<1>2. IdsOK'
  <2> SUFFICES ASSUME NEW n \in DOMAIN run.ids
               PROVE  /\ run.ids[n] \in Ids
                      /\ run.ids[n] \in Named(n)' \/ run.ids[n] \in touched'
    BY DEF IdsOK
  <2>1. run.ids[n] \in Ids /\ (run.ids[n] \in Named(n) \/ run.ids[n] \in touched)
    BY DEF ImportInv, IdsOK
  <2>2. CASE run.ids[n] \in touched'
    BY <2>1, <2>2
  <2>3. CASE run.ids[n] \notin touched'
    <3>1. run.ids[n] \in Named(n)
      BY <2>1, <2>3
    <3>2. CASE View(run.ids[n])' = View(run.ids[n])
      BY <2>1, <3>1, <3>2 DEF Named
    <3>3. CASE run.ids[n] \notin DOMAIN run.work /\ StaysLive(run.ids[n])
      BY <2>1, <3>1, <3>3 DEF Named, View, StaysLive
    <3> QED
      BY <2>1, <2>3, <3>1, <3>2, <3>3 DEF Named, View
  <2> QED
    BY <2>2, <2>3
<1> QED
  BY <1>1, <1>2 DEF ImportInv

\* What update_entity does to the row, and when it touches it.
LEMMA UpdateSets ==
    ASSUME ApiUpdate
    PROVE  \E i \in Ids \ DOMAIN run.work, n \in Names, e \in Eins \cup {None}, a \in BOOLEAN :
              LET old == entities[i]
                  new == [old EXCEPT !.name = n, !.ein = e, !.active = a]
              IN /\ old # None /\ entities' = [entities EXCEPT ![i] = new]
                 /\ touched' = IF n # old.name \/ (old.active /\ ~a)
                               THEN touched \cup {i} ELSE touched
<1>1. PICK i \in Ids \ DOMAIN run.work, n \in Names, e \in Eins \cup {None}, a \in BOOLEAN :
        LET old == entities[i]
            new == [old EXCEPT !.name = n, !.ein = e, !.active = a]
        IN /\ gen = "idle" /\ Edit
           /\ old # None /\ ~old.deleted /\ new # old /\ KeyFree(i, new)
           /\ entities' = [entities EXCEPT ![i] = new]
           /\ touched' = IF n # old.name \/ (old.active /\ ~a) THEN touched \cup {i} ELSE touched
           /\ UNCHANGED <<children, run, gen, runs, faults>>
  BY DEF ApiUpdate
<1> DEFINE new == [entities[i] EXCEPT !.name = n, !.ein = e, !.active = a]
<1>2. /\ entities[i] # None /\ entities' = [entities EXCEPT ![i] = new]
      /\ touched' = IF n # entities[i].name \/ (entities[i].active /\ ~a)
                    THEN touched \cup {i} ELSE touched
  BY <1>1, Zenon
<1> QED
  BY <1>2, Zenon

-----------------------------------------------------------------------------
(***************************************************************************)
(* The steps.                                                              *)
(***************************************************************************)
LEMMA ImportInit == Init => ImportInv
BY IdleFields DEF Init, ImportInv, RunOK, IdsOK, AddsOK

LEMMA StartKeeps ==
    ASSUME ImportInv, Start
    PROVE  ImportInv'
<1>1. PICK wb \in Workbooks, dry \in BOOLEAN :
        /\ run.pc = "idle"
        /\ run' = IF HasErrors(wb) \/ Uncheckable(wb) THEN run
                  ELSE [Idle EXCEPT !.pc = "entities", !.wb = wb, !.dry = dry,
                                    !.left = wb.entities, !.since = edits]
  BY DEF Start
<1>2. entities' = entities
  BY DEF Start
<1>3. CASE run' = run
  BY <1>1, <1>2, <1>3, EndKeeps DEF ImportInv, RunOK
<1>4. CASE run' = [Idle EXCEPT !.pc = "entities", !.wb = wb, !.dry = dry,
                               !.left = wb.entities, !.since = edits]
  <2>1. /\ DOMAIN run' = Fields /\ run'.pc = "entities" /\ run'.wb = wb
        /\ run'.ids = <<>> /\ run'.adds = {}
    BY <1>4, IdleFields DEF Fields
  <2> QED
    BY <1>1, <1>2, <2>1 DEF ImportInv, RunOK, IdsOK, AddsOK
<1> QED
  BY <1>1, <1>3, <1>4

\* While the entities are written, no id is known yet.
LEMMA EntityKeeps ==
    ASSUME ImportInv, UpdateEntity \/ InsertEntity
    PROVE  ImportInv'
<1>1. PICK w, t : run' = [run EXCEPT !.left = Tail(@), !.tally = t, !.work = w]
  BY DEF UpdateEntity, InsertEntity
<1>2. run.pc = "entities" /\ entities' = entities
  BY DEF UpdateEntity, InsertEntity, Unchanged
<1>3. /\ DOMAIN run' = Fields /\ run'.pc = "entities" /\ run'.wb = run.wb
      /\ run'.ids = <<>> /\ run'.adds = {}
  BY <1>1, <1>2 DEF ImportInv, RunOK, Fields
<1> QED
  BY <1>2, <1>3 DEF ImportInv, RunOK, IdsOK, AddsOK

\* The ids read are those of live entities with the names.
LEMMA ReloadKeeps ==
    ASSUME ImportInv, Reload
    PROVE  ImportInv'
<1>1. PICK found, ids :
        /\ ids \in [found -> Ids]
        /\ \A n \in found : ids[n] \in Named(n)
        /\ run' = [run EXCEPT !.pc = "children", !.left = run.wb.rows, !.ids = ids]
  BY DEF Reload
<1>2. run.pc = "entities" /\ entities' = entities
  BY DEF Reload, Unchanged
<1>3. /\ DOMAIN run' = Fields /\ run'.pc = "children" /\ run'.wb = run.wb
      /\ run'.ids = ids /\ run'.adds = {} /\ run'.left = run.wb.rows
      /\ run'.work = run.work
  BY <1>1, <1>2 DEF ImportInv, RunOK, Fields
<1>4. RunOK'
  BY <1>2, <1>3, ConstantAssumption DEF ImportInv, RunOK
<1>5. IdsOK'
  BY <1>1, <1>2, <1>3 DEF IdsOK, Named, View
<1> QED
  BY <1>3, <1>4, <1>5 DEF ImportInv, AddsOK

\* The steps on a row of a child sheet.
LEMMA ChildKeeps ==
    ASSUME ImportInv, SkipUnresolved \/ LookUp \/ UpsertChild
    PROVE  ImportInv'
<1>1. run.pc = "children" /\ run.left # <<>> /\ Unchanged
  BY DEF SkipUnresolved, LookUp, UpsertChild
<1>2. CASE \E t : run' = [run EXCEPT !.left = Tail(@), !.tally = t]
  <2>1. PICK t : run' = [run EXCEPT !.left = Tail(@), !.tally = t]
    BY <1>2
  <2>2. run' = [run EXCEPT !.left = Tail(@), !.adds = run.adds, !.tally = t]
    BY <2>1 DEF ImportInv, RunOK, Fields
  <2> QED
    BY <1>1, <2>2, RowKeeps
<1>3. CASE \E t, c, old :
             /\ Resolved /\ Stems(c, Row)
             /\ run' = [run EXCEPT !.left = Tail(@), !.adds = (@ \ old) \cup {c},
                                   !.tally = t]
  <2>1. PICK t, c, old :
             /\ Stems(c, Row)
             /\ run' = [run EXCEPT !.left = Tail(@), !.adds = (@ \ old) \cup {c},
                                   !.tally = t]
    BY <1>3
  <2> DEFINE new == (run.adds \ old) \cup {c}
  <2>2. run' = [run EXCEPT !.left = Tail(@), !.adds = new, !.tally = t]
    BY <2>1
  <2>3. \A d \in new : d \in run.adds \/ Stems(d, Row)
    BY <2>1
  <2> QED
    BY <1>1, <2>2, <2>3, RowKeeps
<1>4. ASSUME NEW k PROVE
        Resolved => Stems([Child(Row, run.ids[Row.name], 1) EXCEPT !.copy = k], Row)
  BY DEF Child, Stems, Resolved
<1>5. Resolved => Stems(Child(Row, run.ids[Row.name], 1), Row)
  BY DEF Child, Stems, Resolved
<1>6. CASE SkipUnresolved
  BY <1>2, <1>6 DEF SkipUnresolved
<1>7. CASE LookUp
  <2> DEFINE d == Child(Row, run.ids[Row.name], 1)
             c == [d EXCEPT !.copy = 1 + Cardinality(Copies(children \cup run.adds, d))]
  <2>1. Resolved /\ \/ run' = [run EXCEPT !.left = Tail(@), !.adds = @ \cup {c},
                                          !.tally = Count("inserted")]
                    \/ run' = [run EXCEPT !.left = Tail(@), !.tally = Count("skipped")]
    BY <1>7 DEF LookUp
  <2>2. Stems(c, Row)
    BY <1>4, <2>1
  <2> HIDE DEF c, d
  <2>3. CASE run' = [run EXCEPT !.left = Tail(@), !.adds = @ \cup {c},
                                !.tally = Count("inserted")]
    <3>1. run' = [run EXCEPT !.left = Tail(@), !.adds = (@ \ {}) \cup {c},
                             !.tally = Count("inserted")]
      BY <2>3
    <3> QED
      BY <1>3, <2>1, <2>2, <3>1
  <2>4. CASE run' = [run EXCEPT !.left = Tail(@), !.tally = Count("skipped")]
    BY <1>2, <2>4
  <2> QED
    BY <2>1, <2>3, <2>4
<1>8. CASE UpsertChild
  <2> DEFINE c == Child(Row, run.ids[Row.name], 1)
             old == Copies(children \cup run.adds, c)
             t == Count(IF old = {} THEN "inserted" ELSE "updated")
  <2>1. Resolved /\ run' = [run EXCEPT !.left = Tail(@),
                                       !.adds = (@ \ old) \cup {c}, !.tally = t]
    BY <1>8 DEF UpsertChild
  <2>2. Stems(c, Row)
    BY <1>5, <2>1
  <2> HIDE DEF c, old, t
  <2> QED
    BY <1>3, <2>1, <2>2
<1> QED
  BY <1>6, <1>7, <1>8

\* A dry run converts rows and keeps none.
LEMMA DryKeeps ==
    ASSUME ImportInv, DryRow
    PROVE  ImportInv'
<1>1. PICK t : run' = [run EXCEPT !.left = Tail(@), !.tally = t]
  BY DEF DryRow
<1>2. run.pc \in {"entities", "children"} /\ run.left # <<>> /\ Unchanged
  BY DEF DryRow
<1>3. CASE run.pc = "entities"
  <2>1. PICK w : run' = [run EXCEPT !.left = Tail(@), !.tally = t, !.work = w]
    <3>1. run' = [run EXCEPT !.left = Tail(@), !.tally = t, !.work = run.work]
      BY <1>1 DEF ImportInv, RunOK, Fields
    <3> QED
      BY <3>1
  <2>2. /\ DOMAIN run' = Fields /\ run'.pc = "entities" /\ run'.wb = run.wb
        /\ run'.ids = <<>> /\ run'.adds = {}
    BY <1>1, <1>3 DEF ImportInv, RunOK, Fields
  <2> QED
    BY <1>2, <1>3, <2>2 DEF ImportInv, RunOK, IdsOK, AddsOK, Unchanged
<1>4. CASE run.pc = "children"
  <2>1. run' = [run EXCEPT !.left = Tail(@), !.adds = run.adds, !.tally = t]
    BY <1>1 DEF ImportInv, RunOK, Fields
  <2> QED
    BY <1>2, <1>4, <2>1, RowKeeps
<1> QED
  BY <1>2, <1>3, <1>4

\* An import ends: committed, refused by the database, or interrupted.
LEMMA EndsKeep ==
    ASSUME ImportInv, RowRaises \/ Commit \/ EndWithoutCommit \/ Fault
    PROVE  ImportInv'
<1>1. run' = Idle
  BY DEF RowRaises, Commit, EndWithoutCommit, Fault, Abandon
<1>2. DOMAIN entities' = Ids
  BY DEF RowRaises, Commit, EndWithoutCommit, Fault, Abandon, ImportInv, RunOK
<1> QED
  BY <1>1, <1>2, EndKeeps

\* The other writers.
LEMMA OthersNext ==
    ASSUME ImportInv, entities \in [Ids -> Entity \cup {None}], Others
    PROVE  ImportInv'
<1>1. UNCHANGED run
  BY DEF Others, ApiCreate, ApiDelete, ApiUpdate, Clear, Generate, GenerateFails
<1>2. DOMAIN entities' = Ids
  BY DEF Others, ApiCreate, ApiDelete, ApiUpdate, Clear, Generate, GenerateFails,
         ImportInv, RunOK
<1>3. touched \subseteq touched'
  BY DEF Others, ApiCreate, ApiDelete, ApiUpdate, Clear, Generate, GenerateFails
<1>4. CASE run.pc = "idle"
  BY <1>1, <1>2, <1>4, EndKeeps DEF ImportInv, RunOK
<1>5. CASE run.pc # "idle"
  <2>1. \A i \in Ids : \/ i \in touched' \/ View(i) = None
                       \/ i \in DOMAIN run.work
                       \/ entities'[i] = entities[i] \/ StaysLive(i)
    <3>1. CASE ApiCreate
      BY <3>1 DEF ApiCreate, Unused, ImportInv, RunOK
    <3>2. CASE ApiDelete
      BY <3>2 DEF ApiDelete, ImportInv, RunOK
    <3>3. CASE ApiUpdate
      <4>1. PICK i \in Ids \ DOMAIN run.work, n \in Names, e \in Eins \cup {None}, a \in BOOLEAN :
              LET old == entities[i]
                  new == [old EXCEPT !.name = n, !.ein = e, !.active = a]
              IN /\ old # None /\ entities' = [entities EXCEPT ![i] = new]
                 /\ touched' = IF n # old.name \/ (old.active /\ ~a)
                               THEN touched \cup {i} ELSE touched
        BY <3>3, UpdateSets
      <4>2. ASSUME NEW j \in Ids
            PROVE  \/ j \in touched' \/ entities'[j] = entities[j] \/ StaysLive(j)
        <5>1. CASE j # i
          BY <4>1, <5>1 DEF ImportInv, RunOK
        <5>2. CASE j = i
          <6>1. entities[i] \in Entity
            BY <4>1
          <6>2. /\ entities'[i] = [entities[i] EXCEPT !.name = n, !.ein = e, !.active = a]
                /\ entities'[i] \in Entity
            BY <4>1, <6>1 DEF ImportInv, RunOK, Entity
          <6>3. entities'[i] # None
            BY <6>2, ConstantAssumption
          <6>4. n # entities[i].name \/ (entities[i].active /\ ~a) => i \in touched'
            BY <4>1
          <6> QED
            BY <5>2, <6>1, <6>2, <6>3, <6>4 DEF StaysLive, Entity
        <5> QED
          BY <5>1, <5>2
      <4> QED
        BY <4>2
    <3>4. CASE GenerateFails
      BY <3>4 DEF GenerateFails
    <3> QED
      BY <1>5, <3>1, <3>2, <3>3, <3>4 DEF Others, Clear, Generate
  <2> QED
    BY <1>1, <1>2, <1>3, <2>1, OthersKeep
<1> QED
  BY <1>4, <1>5

LEMMA ImportNext ==
    ASSUME ImportInv, entities \in [Ids -> Entity \cup {None}], [Next]_vars
    PROVE  ImportInv'
<1>1. CASE UNCHANGED vars
  BY <1>1 DEF vars, ImportInv, RunOK, IdsOK, AddsOK, Stems, Named, View
<1>2. CASE Next
  BY <1>2, StartKeeps, EntityKeeps, ReloadKeeps, ChildKeeps, DryKeeps, EndsKeep,
     OthersNext DEF Next, Importer
<1> QED
  BY <1>1, <1>2

-----------------------------------------------------------------------------
(***************************************************************************)
(* What is committed.                                                      *)
(***************************************************************************)

\* What a commit adds stems from a row of the workbook, for an entity that is
\* live under the name in the row, or was deleted, renamed or deactivated meanwhile.
LEMMA CommitWritesNamed ==
    ASSUME ImportInv, Commit, NEW c \in children' \ children
    PROVE  LET e == entities'[c.entity]
           IN \/ c.entity \in touched
              \/ /\ e.active /\ ~e.deleted
                 /\ \E r \in ToSet(run.wb.rows) :
                       r.name = e.name /\ r.sheet = c.sheet /\ r.key = c.key
<1>1. c \in run.adds /\ \A i \in Ids : entities'[i] = View(i)
  BY DEF Commit
<1>2. PICK r \in ToSet(run.wb.rows) : Stems(c, r)
  BY <1>1 DEF ImportInv, AddsOK
<1>3. /\ c.entity \in Ids
      /\ c.entity \in Named(r.name) \/ c.entity \in touched
  BY <1>2 DEF ImportInv, IdsOK, Stems
<1> QED
  BY <1>1, <1>2, <1>3 DEF Named, Stems

-----------------------------------------------------------------------------
(***************************************************************************)
(* A repeated import.                                                      *)
(***************************************************************************)

\* c and d are rows for the same thing in the same table.
Same(c, d) == d.sheet = c.sheet /\ d.entity = c.entity /\ d.key = c.key

Distinct(S) == \A c, d \in S : c.sheet \in Upserted /\ Same(c, d) => c = d

\* The committed tables: a child belongs to an entity, and the unique
\* constraints of the upserted ones hold.
TablesOK ==
    /\ entities \in [Ids -> Entity \cup {None}]
    /\ IsFiniteSet(children) /\ Distinct(children)
    /\ \A c \in children : c.entity \in Rows(entities)

\* What the import has written and collected is of the same kind.
WrittenOK ==
    /\ DOMAIN run.work \subseteq Ids
    /\ \A i \in DOMAIN run.work : run.work[i] \in Entity
    /\ IsFiniteSet(run.adds) /\ Distinct(run.adds)
    /\ \A n \in DOMAIN run.ids : n \in Known(run.wb) /\ View(run.ids[n]) # None
    /\ run.pc = "entities" => /\ run.left \in Seq(EntityRow)
                              /\ ToSet(run.left) \subseteq ToSet(run.wb.entities)

\* Whoever changes the tables beside an import makes "last" None, and what the
\* counter of changes says of an import is what "last" says.
ClockOK ==
    /\ gen \in {"idle", "fill"}
    /\ gen = "fill" => run.pc = "idle" /\ last = None
    /\ edits \in Nat
    /\ run.pc # "idle" => /\ run.since \in Nat /\ run.since =< edits
                          /\ last # None => run.since = edits

\* What a real import has done with the rows that are not left any more.
DoneOK ==
    run.pc # "idle" /\ ~run.dry =>
        /\ \A r \in ToSet(run.wb.entities) :
              \/ ~r.active
              \/ run.pc = "entities" /\ r \in ToSet(run.left)
              \/ \E i \in DOMAIN run.work : Holds(run.work[i], r.ein)
        /\ run.pc = "children" /\ run.since = edits =>
              /\ \A n \in Known(run.wb) : Named(n) # {} => n \in DOMAIN run.ids
              /\ \A n \in DOMAIN run.ids : run.ids[n] \in Named(n)
              /\ \A r \in ToSet(run.wb.rows) :
                    \/ r \in ToSet(run.left) \/ r.name \notin DOMAIN run.ids
                    \/ Copies(children \cup run.adds, Child(r, run.ids[r.name], 1)) # {}

\* The live entities with a name, as committed.
Live(n) == {i \in Ids : /\ entities[i] # None /\ entities[i].name = n
                        /\ entities[i].active /\ ~entities[i].deleted}

\* While nobody else changes the tables, they hold what the last import was given.
LastOK ==
    last # None =>
        /\ \A r \in ToSet(last.entities) :
              r.active => \E i \in Ids : Holds(entities[i], r.ein)
        /\ \A n \in Known(last) : Live(n) # {} =>
              \E j \in Live(n) : \A r \in ToSet(last.rows) :
                 r.name = n => Copies(children, Child(r, j, 1)) # {}

Unambiguous == \A n \in Known(run.wb) : Cardinality(Named(n)) =< 1

\* A repeated import writes no live entity anew, and adds only rows that
\* replace committed ones.
AgainOK ==
    run.pc # "idle" /\ last = run.wb =>
        /\ \A i \in DOMAIN run.work :
              IF entities[i] = None THEN ~run.work[i].active
                                    ELSE run.work[i] = entities[i]
        /\ Unambiguous => \A c \in run.adds :
              c.sheet \in Upserted /\ Copies(children, c) # {}

RepeatInv == ImportInv /\ TablesOK /\ WrittenOK /\ ClockOK /\ DoneOK /\ LastOK /\ AgainOK

-----------------------------------------------------------------------------
(***************************************************************************)
(* The steps of an import keep it.                                         *)
(***************************************************************************)
LEMMA IdleEmpty ==
    /\ Idle.work = <<>> /\ DOMAIN Idle.work = {}
    /\ Idle.adds = {} /\ DOMAIN Idle.ids = {} /\ Idle.pc = "idle"
BY DEF Idle

\* What reads only the committed tables stays with them.
LEMMA TablesStay ==
    ASSUME RepeatInv, UNCHANGED <<entities, children, last>>
    PROVE  TablesOK' /\ LastOK'
<1>1. TablesOK'
  BY DEF RepeatInv, TablesOK, Rows
<1>2. \A n : Live(n)' = Live(n)
  BY DEF Live
<1>3. LastOK'
  BY <1>2 DEF RepeatInv, LastOK
<1> QED
  BY <1>1, <1>3

\* An import that ends without a commit leaves the tables as they are.
LEMMA EndRepeats ==
    ASSUME RepeatInv, run' = Idle, UNCHANGED <<entities, children, gen, edits, last>>
    PROVE  RepeatInv'
<1>1. ImportInv'
  BY EndKeeps DEF RepeatInv, ImportInv, RunOK
<1>2. TablesOK' /\ LastOK'
  BY TablesStay
<1>3. WrittenOK'
  BY IdleEmpty, FS_EmptySet DEF WrittenOK, Distinct
<1>4. ClockOK' /\ DoneOK' /\ AgainOK'
  BY IdleEmpty DEF RepeatInv, ClockOK, DoneOK, AgainOK
<1> QED
  BY <1>1, <1>2, <1>3, <1>4 DEF RepeatInv

LEMMA StartRepeats ==
    ASSUME RepeatInv, Start
    PROVE  RepeatInv'
<1>1. PICK wb \in Workbooks, dry \in BOOLEAN :
        /\ run.pc = "idle" /\ gen = "idle"
        /\ run' = IF HasErrors(wb) \/ Uncheckable(wb) THEN run
                  ELSE [Idle EXCEPT !.pc = "entities", !.wb = wb, !.dry = dry,
                                    !.left = wb.entities, !.since = edits]
        /\ UNCHANGED <<entities, children, gen, edits, last>>
  BY DEF Start
<1>2. CASE run' = run
  BY <1>1, <1>2, EndRepeats DEF RepeatInv, ImportInv, RunOK
<1>3. CASE run' = [Idle EXCEPT !.pc = "entities", !.wb = wb, !.dry = dry,
                               !.left = wb.entities, !.since = edits]
  <2>1. /\ run'.pc = "entities" /\ run'.wb = wb /\ run'.left = wb.entities
        /\ run'.since = edits /\ DOMAIN run'.work = {} /\ run'.adds = {}
        /\ DOMAIN run'.ids = {}
    BY <1>3, IdleEmpty DEF Idle
  <2>2. ImportInv'
    BY StartKeeps DEF RepeatInv
  <2>3. TablesOK' /\ LastOK'
    BY <1>1, TablesStay
  <2>4. WrittenOK'
    BY <2>1, FS_EmptySet, ConstantAssumption DEF WrittenOK, Distinct
  <2>5. ClockOK' /\ DoneOK' /\ AgainOK'
    BY <1>1, <2>1 DEF RepeatInv, ClockOK, DoneOK, AgainOK
  <2> QED
    BY <2>2, <2>3, <2>4, <2>5 DEF RepeatInv
<1> QED
  BY <1>1, <1>2, <1>3

\* The first row that is left is one of the entities' sheet.
LEMMA NextEntity ==
    ASSUME RepeatInv, run.pc = "entities", run.left # <<>>
    PROVE  /\ Row \in EntityRow /\ Row \in ToSet(run.wb.entities)
           /\ Tail(run.left) \in Seq(EntityRow)
           /\ ToSet(Tail(run.left)) \subseteq ToSet(run.wb.entities)
           /\ \A r \in ToSet(run.left) : r = Row \/ r \in ToSet(Tail(run.left))
<1>1. run.left \in Seq(EntityRow) /\ ToSet(run.left) \subseteq ToSet(run.wb.entities)
  BY DEF RepeatInv, WrittenOK
<1>2. /\ Head(run.left) \in EntityRow /\ Head(run.left) \in ToSet(run.left)
      /\ Tail(run.left) \in Seq(EntityRow)
      /\ ToSet(Tail(run.left)) \subseteq ToSet(run.left)
  BY <1>1 DEF ToSet
<1>3. ASSUME NEW k \in 1..Len(run.left)
      PROVE  run.left[k] = Head(run.left) \/ run.left[k] \in ToSet(Tail(run.left))
  <2>1. CASE k = 1
    BY <1>1, <2>1
  <2>2. CASE k # 1
    <3>1. k - 1 \in 1..Len(Tail(run.left)) /\ Tail(run.left)[k - 1] = run.left[k]
      BY <1>1, <2>2
    <3>2. k - 1 \in DOMAIN Tail(run.left)
      BY <1>2, <3>1
    <3> QED
      BY <3>1, <3>2 DEF ToSet
  <2> QED
    BY <2>1, <2>2
<1>4. ToSet(run.left) = {run.left[k] : k \in 1..Len(run.left)}
  BY <1>1 DEF ToSet
<1> QED
  BY <1>1, <1>2, <1>3, <1>4 DEF Row

\* An entity row is written: the row holds the key that the sheet names, and a
\* repeated import writes what is there, or a row that is not active.
LEMMA WriteRepeats ==
    ASSUME RepeatInv, ImportInv', run.pc = "entities", run.left # <<>>, ~run.dry,
           NEW i \in Ids, NEW row \in Entity, NEW t,
           run' = [run EXCEPT !.left = Tail(@), !.tally = t, !.work = Put(i, row)],
           Unchanged,
           Row.active => Holds(row, Row.ein),
           i \in DOMAIN run.work =>
              \A ein : Holds(run.work[i], ein) => Holds(row, ein),
           last = run.wb => IF entities[i] = None THEN ~row.active
                                                  ELSE row = entities[i]
    PROVE  RepeatInv'
<1>1. /\ run'.pc = "entities" /\ run'.wb = run.wb /\ run'.dry = run.dry
      /\ run'.left = Tail(run.left) /\ run'.work = Put(i, row)
      /\ run'.ids = run.ids /\ run'.adds = run.adds /\ run'.since = run.since
      /\ UNCHANGED <<entities, children, gen, edits, last>>
  BY DEF RepeatInv, ImportInv, RunOK, Unchanged, Fields
<1>2. /\ DOMAIN run'.work = DOMAIN run.work \cup {i}
      /\ run'.work[i] = row
      /\ \A j \in DOMAIN run.work : j # i => run'.work[j] = run.work[j]
  BY <1>1 DEF Put
<1>3. DOMAIN run.ids = {} /\ run.adds = {}
  BY DEF RepeatInv, ImportInv, RunOK
<1>4. TablesOK' /\ LastOK' /\ ClockOK'
  <2>1. TablesOK' /\ LastOK'
    BY <1>1, TablesStay
  <2>2. ClockOK'
    BY <1>1 DEF RepeatInv, ClockOK
  <2> QED
    BY <2>1, <2>2
<1>5. WrittenOK'
  BY <1>1, <1>2, <1>3, NextEntity DEF RepeatInv, WrittenOK
<1>6. DoneOK'
  <2> SUFFICES ASSUME NEW r \in ToSet(run.wb.entities), r.active,
                      r \notin ToSet(Tail(run.left))
               PROVE  \E j \in DOMAIN run'.work : Holds(run'.work[j], r.ein)
    BY <1>1 DEF DoneOK
  <2>1. CASE r = Row
    BY <1>2, <2>1
  <2>2. CASE r # Row
    <3>1. PICK j \in DOMAIN run.work : Holds(run.work[j], r.ein)
      BY <2>2, NextEntity DEF RepeatInv, DoneOK
    <3> QED
      BY <1>2, <3>1
  <2> QED
    BY <2>1, <2>2
<1>7. AgainOK'
  BY <1>1, <1>2, <1>3 DEF RepeatInv, AgainOK
<1> QED
  BY <1>4, <1>5, <1>6, <1>7 DEF RepeatInv

LEMMA EntityRepeats ==
    ASSUME RepeatInv, UpdateEntity \/ InsertEntity
    PROVE  RepeatInv'
<1>1. ImportInv'
  BY EntityKeeps DEF RepeatInv
<1>2. /\ run.pc = "entities" /\ run.left # <<>> /\ ~run.dry /\ Unchanged
  BY DEF UpdateEntity, InsertEntity
<1>3. Row \in EntityRow /\ Row \in ToSet(run.wb.entities)
  BY <1>2, NextEntity
<1>4. \A j \in Ids : View(j) # None => View(j) \in Entity
  BY DEF View, RepeatInv, TablesOK, WrittenOK
\* A repeated import sees the live entities as they are committed.
<1>5. last = run.wb => \A j \in Ids : entities[j] # None => View(j) = entities[j]
  BY <1>2 DEF RepeatInv, AgainOK, View
<1>6. CASE UpdateEntity
  <2>1. PICK i \in Conflicting(Row) :
          run' = [run EXCEPT !.left = Tail(@), !.tally = Count("updated"),
                             !.work = Put(i, [View(i) EXCEPT !.active = Row.active])]
    BY <1>6 DEF UpdateEntity
  <2>2. /\ i \in Ids /\ Row.active = TRUE /\ View(i) \in Entity
        /\ View(i).ein = Row.ein /\ View(i).active /\ ~View(i).deleted
    BY <1>3, <1>4, <2>1 DEF Conflicting, Holds, EntityRow
  <2>3. [View(i) EXCEPT !.active = Row.active] = View(i)
    BY <2>2 DEF Entity
  <2>4. View(i) # None
    BY <2>1 DEF Conflicting, Holds
  <2>5. last = run.wb => IF entities[i] = None THEN ~View(i).active
                                               ELSE View(i) = entities[i]
    <3>1. CASE i \in DOMAIN run.work
      BY <1>2, <3>1 DEF RepeatInv, AgainOK, View
    <3>2. CASE i \notin DOMAIN run.work
      BY <2>4, <3>2 DEF View
    <3> QED
      BY <3>1, <3>2
  <2>6. i \in DOMAIN run.work => View(i) = run.work[i]
    BY DEF View
  <2>7. run' = [run EXCEPT !.left = Tail(@), !.tally = Count("updated"),
                           !.work = Put(i, View(i))]
    BY <2>1, <2>3
  <2>8. Row.active => Holds(View(i), Row.ein)
    BY <2>2, <2>4 DEF Holds
  <2> QED
    BY <1>1, <1>2, <2>2, <2>5, <2>6, <2>7, <2>8, WriteRepeats
<1>7. CASE InsertEntity
  <2> DEFINE new == [name |-> Row.name, ein |-> Row.ein,
                     active |-> Row.active, deleted |-> FALSE]
  <2>1. PICK i \in Unused :
          run' = [run EXCEPT !.left = Tail(@), !.tally = Count("inserted"),
                             !.work = Put(i, new)]
    BY <1>7 DEF InsertEntity
  <2>2. i \in Ids /\ View(i) = None /\ new \in Entity
    BY <1>3, <2>1 DEF Unused, Entity, EntityRow
  <2>3. i \notin DOMAIN run.work /\ entities[i] = None
    BY <2>2, ConstantAssumption DEF View, RepeatInv, WrittenOK
  <2>4. Row.active => Holds(new, Row.ein)
    BY <2>2, ConstantAssumption DEF Holds
  <2>5. last = run.wb => ~Row.active
    <3> SUFFICES ASSUME last = run.wb, Row.active PROVE FALSE
      OBVIOUS
    <3>1. last # None
      BY <1>2, ConstantAssumption DEF RepeatInv, ImportInv, RunOK
    <3>2. PICK j \in Ids : Holds(entities[j], Row.ein)
      BY <1>3, <3>1 DEF RepeatInv, LastOK
    <3>3. View(j) = entities[j]
      BY <1>5, <3>2 DEF Holds
    <3>4. j \in Conflicting(Row)
      BY <3>2, <3>3 DEF Conflicting
    <3> QED
      BY <1>7, <3>4 DEF InsertEntity
  <2>6. new.active = Row.active
    OBVIOUS
  <2> HIDE DEF new
  <2> QED
    BY <1>1, <1>2, <2>1, <2>2, <2>3, <2>4, <2>5, <2>6, WriteRepeats
<1> QED
  BY <1>6, <1>7

\* The ids of the sheet's names are read.
LEMMA ReloadRepeats ==
    ASSUME RepeatInv, Reload
    PROVE  RepeatInv'
<1> DEFINE found == {n \in Known(run.wb) : ~run.dry /\ Named(n) # {}}
<1>1. PICK ids \in [found -> Ids] :
        /\ \A n \in found : ids[n] \in Named(n)
        /\ run' = [run EXCEPT !.pc = "children", !.left = run.wb.rows, !.ids = ids]
  BY DEF Reload
<1>2. /\ run.pc = "entities" /\ run.left = <<>>
      /\ UNCHANGED <<entities, children, gen, edits, last>>
  BY DEF Reload, Unchanged
<1>3. /\ run'.pc = "children" /\ run'.wb = run.wb /\ run'.dry = run.dry
      /\ run'.left = run.wb.rows /\ run'.work = run.work /\ run'.ids = ids
      /\ run'.adds = run.adds /\ run'.since = run.since
  BY <1>1, <1>2 DEF RepeatInv, ImportInv, RunOK, Fields
<1>4. ImportInv'
  BY ReloadKeeps DEF RepeatInv
<1>5. TablesOK' /\ LastOK'
  BY <1>2, TablesStay
<1>6. \A n : Named(n)' = Named(n)
  BY <1>2, <1>3 DEF Named, View
<1>7. WrittenOK'
  <2>1. ASSUME NEW n \in DOMAIN ids PROVE n \in Known(run.wb) /\ View(ids[n])' # None
    BY <1>1, <1>2, <1>3 DEF Named, View
  <2> QED
    BY <1>2, <1>3, <2>1 DEF RepeatInv, WrittenOK
<1>8. ClockOK'
  BY <1>2, <1>3 DEF RepeatInv, ClockOK
<1>9. DoneOK'
  <2> SUFFICES ASSUME ~run.dry PROVE DoneOK'
    BY <1>3 DEF DoneOK
  <2>1. ToSet(run.left) = {}
    BY <1>2 DEF ToSet
  <2>2. \A r \in ToSet(run.wb.entities) :
          ~r.active \/ \E i \in DOMAIN run.work : Holds(run.work[i], r.ein)
    BY <1>2, <2>1 DEF RepeatInv, DoneOK
  <2>3. \A n \in Known(run.wb) : Named(n) # {} => n \in DOMAIN ids
    BY <1>1
  <2>4. \A n \in DOMAIN ids : ids[n] \in Named(n)
    BY <1>1
  <2> HIDE DEF found
  <2> QED
    BY <1>3, <1>6, <2>2, <2>3, <2>4 DEF DoneOK
<1>10. AgainOK'
  <2>1. run.adds = {}
    BY <1>2 DEF RepeatInv, ImportInv, RunOK
  <2> QED
    BY <1>2, <1>3, <2>1 DEF RepeatInv, AgainOK
<1> QED
  BY <1>4, <1>5, <1>7, <1>8, <1>9, <1>10 DEF RepeatInv

\* The rows that are left after the next one are all others that were left.
LEMMA OtherRows ==
    ASSUME RepeatInv, run.pc = "children", run.left # <<>>
    PROVE  \A r \in ToSet(run.left) : r = Row \/ r \in ToSet(Tail(run.left))
<1>1. run.left \in Seq(ChildRow)
  BY DEF RepeatInv, ImportInv, RunOK
<1>2. Tail(run.left) \in Seq(ChildRow)
  BY <1>1
<1>3. ASSUME NEW k \in 1..Len(run.left)
      PROVE  run.left[k] = Head(run.left) \/ run.left[k] \in ToSet(Tail(run.left))
  <2>1. CASE k = 1
    BY <1>1, <2>1
  <2>2. CASE k # 1
    <3>1. k - 1 \in 1..Len(Tail(run.left)) /\ Tail(run.left)[k - 1] = run.left[k]
      BY <1>1, <2>2
    <3>2. k - 1 \in DOMAIN Tail(run.left)
      BY <1>2, <3>1
    <3> QED
      BY <3>1, <3>2 DEF ToSet
  <2> QED
    BY <2>1, <2>2
<1>4. ToSet(run.left) = {run.left[k] : k \in 1..Len(run.left)}
  BY <1>1 DEF ToSet
<1> QED
  BY <1>3, <1>4 DEF Row

\* In a repeated import without ambiguous names, the committed tables hold
\* every row of the workbook whose name was found.
LEMMA AlreadyThere ==
    ASSUME RepeatInv, run.pc = "children", ~run.dry, last = run.wb, Unambiguous,
           NEW r \in ToSet(run.wb.rows), r.name \in DOMAIN run.ids
    PROVE  Copies(children, Child(r, run.ids[r.name], 1)) # {}
<1> DEFINE n == r.name
<1>1. last # None /\ run.since = edits
  BY ConstantAssumption DEF RepeatInv, ImportInv, RunOK, ClockOK
<1>2. n \in Known(run.wb) /\ run.ids[n] \in Named(n)
  BY <1>1 DEF RepeatInv, WrittenOK, DoneOK
\* What is live in the import's view was live before.
<1>3. Named(n) = Live(n)
  <2>1. \A i \in Ids : entities[i] # None => View(i) = entities[i]
    BY DEF RepeatInv, AgainOK, View
  <2>2. \A i \in Ids : entities[i] = None /\ View(i) # None => ~View(i).active
    BY DEF RepeatInv, AgainOK, View
  <2>3. ASSUME NEW i \in Named(n) PROVE i \in Live(n)
    BY <2>1, <2>2 DEF Named, Live
  <2>4. ASSUME NEW i \in Live(n) PROVE i \in Named(n)
    BY <2>1 DEF Named, Live
  <2> QED
    BY <2>3, <2>4
<1>4. PICK j \in Live(n) : \A q \in ToSet(last.rows) :
             q.name = n => Copies(children, Child(q, j, 1)) # {}
  BY <1>1, <1>2, <1>3 DEF RepeatInv, LastOK
<1>5. j = run.ids[n]
  <2> SUFFICES ASSUME j # run.ids[n] PROVE FALSE
    OBVIOUS
  <2> DEFINE two == {j} \cup {run.ids[n]}
  <2>1. IsFiniteSet(Named(n)) /\ Cardinality(Named(n)) =< 1
    <3>1. Named(n) \in SUBSET Ids
      BY DEF Named
    <3> QED
      BY <1>2, <3>1, FS_Subset, ConstantAssumption DEF Unambiguous
  <2>2. two \in SUBSET Named(n)
    BY <1>2, <1>3, <1>4
  <2>3. Cardinality(two) = 2
    <3>1. IsFiniteSet({j}) /\ Cardinality({j}) = 1 /\ run.ids[n] \notin {j}
      BY FS_Singleton
    <3>2. ASSUME NEW x, x \notin {j}
          PROVE  Cardinality({j} \cup {x}) = Cardinality({j}) + 1
      BY <3>1, <3>2, FS_AddElement
    <3> QED
      BY <3>1, <3>2
  <2>4. Cardinality(two) =< Cardinality(Named(n)) /\ Cardinality(Named(n)) \in Nat
    BY <2>1, <2>2, FS_Subset, FS_CardinalityType
  <2> HIDE DEF two
  <2> QED
    BY <2>1, <2>3, <2>4
<1> QED
  BY <1>4, <1>5

\* A child's row is passed over, added, or put in the place of its copies: what
\* was written of others stays, and a row whose name was found is there.
LEMMA RowRepeats ==
    ASSUME RepeatInv, ImportInv', run.pc = "children", run.left # <<>>, ~run.dry,
           NEW new, NEW t, IsFiniteSet(new), Distinct(new),
           run' = [run EXCEPT !.left = Tail(@), !.adds = new, !.tally = t],
           Unchanged,
           \A c \in children \cup run.adds : \E d \in children \cup new : Same(c, d),
           Resolved => Copies(children \cup new, Child(Row, run.ids[Row.name], 1)) # {},
           last = run.wb /\ Unambiguous => \A c \in new :
              c \in run.adds \/ (c.sheet \in Upserted /\ Copies(children, c) # {})
    PROVE  RepeatInv'
<1>1. /\ run'.pc = "children" /\ run'.wb = run.wb /\ run'.dry = run.dry
      /\ run'.left = Tail(run.left) /\ run'.work = run.work /\ run'.ids = run.ids
      /\ run'.adds = new /\ run'.since = run.since
      /\ UNCHANGED <<entities, children, gen, edits, last>>
  BY DEF RepeatInv, ImportInv, RunOK, Unchanged, Fields
<1>2. TablesOK' /\ LastOK'
  BY <1>1, TablesStay
<1>3. \A n : Named(n)' = Named(n)
  BY <1>1 DEF Named, View
<1>4. WrittenOK'
  BY <1>1 DEF RepeatInv, WrittenOK, View
<1>5. ClockOK'
  BY <1>1 DEF RepeatInv, ClockOK
<1>6. DoneOK'
  <2>1. \A r \in ToSet(run.wb.entities) :
          ~r.active \/ \E i \in DOMAIN run.work : Holds(run.work[i], r.ein)
    BY DEF RepeatInv, DoneOK
  <2>2. ASSUME run.since = edits, NEW r \in ToSet(run.wb.rows),
               r \notin ToSet(Tail(run.left)), r.name \in DOMAIN run.ids
        PROVE  Copies(children \cup new, Child(r, run.ids[r.name], 1)) # {}
    <3>1. CASE r = Row
      BY <2>2, <3>1 DEF Resolved
    <3>2. CASE r # Row
      <4>1. PICK c \in children \cup run.adds : Same(Child(r, run.ids[r.name], 1), c)
        BY <2>2, <3>2, OtherRows DEF RepeatInv, DoneOK, Copies, Same
      <4>2. PICK d \in children \cup new : Same(c, d)
        BY <4>1
      <4> QED
        BY <4>1, <4>2 DEF Same, Copies
    <3> QED
      BY <3>1, <3>2
  <2>3. run.since = edits => /\ \A n \in Known(run.wb) : Named(n) # {} => n \in DOMAIN run.ids
                             /\ \A n \in DOMAIN run.ids : run.ids[n] \in Named(n)
    BY DEF RepeatInv, DoneOK
  <2> QED
    BY <1>1, <1>3, <2>1, <2>2, <2>3 DEF DoneOK
<1>7. AgainOK'
  <2>1. Unambiguous' = Unambiguous
    BY <1>1, <1>3 DEF Unambiguous
  <2> QED
    BY <1>1, <2>1 DEF RepeatInv, AgainOK
<1> QED
  BY <1>2, <1>4, <1>5, <1>6, <1>7 DEF RepeatInv

LEMMA ChildRepeats ==
    ASSUME RepeatInv, SkipUnresolved \/ LookUp \/ UpsertChild
    PROVE  RepeatInv'
<1>1. ImportInv'
  BY ChildKeeps DEF RepeatInv
<1>2. run.pc = "children" /\ run.left # <<>> /\ ~run.dry /\ Unchanged
  BY DEF SkipUnresolved, LookUp, UpsertChild
<1>3. IsFiniteSet(run.adds) /\ Distinct(run.adds)
  BY DEF RepeatInv, WrittenOK
<1>4. DOMAIN run = Fields
  BY DEF RepeatInv, ImportInv, RunOK
<1>5. \A c : Same(c, c)
  BY DEF Same
<1> DEFINE d == Child(Row, run.ids[Row.name], 1)
<1>6. last = run.wb /\ Unambiguous /\ Resolved => Copies(children, d) # {}
  BY <1>2, AlreadyThere, NextRow DEF RepeatInv, Resolved
<1>7. d.sheet = Row.sheet
  BY DEF Child
<1>8. CASE SkipUnresolved
  <2>1. run' = [run EXCEPT !.left = Tail(@), !.adds = run.adds, !.tally = Count("skipped")]
    BY <1>4, <1>8 DEF SkipUnresolved, Fields
  <2> QED
    BY <1>1, <1>2, <1>3, <1>5, <1>8, <2>1, RowRepeats DEF SkipUnresolved
<1>9. CASE LookUp
  <2> DEFINE c == [d EXCEPT !.copy = 1 + Cardinality(Copies(children \cup run.adds, d))]
  <2>1. /\ Resolved /\ Row.sheet \notin Upserted
        /\ \/ /\ Found(c) = {}
              /\ run' = [run EXCEPT !.left = Tail(@), !.adds = @ \cup {c},
                                    !.tally = Count("inserted")]
           \/ /\ Cardinality(Found(c)) = 1
              /\ run' = [run EXCEPT !.left = Tail(@), !.tally = Count("skipped")]
    BY <1>9 DEF LookUp
  <2>2. Same(d, c) /\ c.sheet = d.sheet
    BY DEF Child, Same
  <2> HIDE DEF c, d
  <2>3. \A S : Copies(S, c) = Copies(S, d)
    BY <2>2 DEF Copies, Same
  <2>4. CASE /\ Found(c) = {}
             /\ run' = [run EXCEPT !.left = Tail(@), !.adds = @ \cup {c},
                                   !.tally = Count("inserted")]
    <3> DEFINE new == run.adds \cup {c}
    <3>1. IsFiniteSet(new)
      BY <1>3, FS_AddElement
    <3>2. Distinct(new)
      BY <1>3, <1>7, <2>1, <2>2 DEF Distinct, Same
    <3>3. Copies(children \cup new, d) # {}
      <4>1. c \in Copies(children \cup new, d)
        BY <2>2 DEF Copies, Same
      <4> QED
        BY <4>1
    <3>4. ~(last = run.wb /\ Unambiguous)
      BY <1>6, <2>1, <2>3, <2>4 DEF Found
    <3>5. \A x \in children \cup run.adds : \E y \in children \cup new : Same(x, y)
      BY <1>5
    <3>6. run' = [run EXCEPT !.left = Tail(@), !.adds = new, !.tally = Count("inserted")]
      BY <2>4
    <3>7. Copies(children \cup new, Child(Row, run.ids[Row.name], 1)) # {}
      BY <3>3 DEF d
    <3> HIDE DEF new
    <3> QED
      BY <1>1, <1>2, <3>1, <3>2, <3>4, <3>5, <3>6, <3>7, RowRepeats
  <2>5. CASE /\ Cardinality(Found(c)) = 1
             /\ run' = [run EXCEPT !.left = Tail(@), !.tally = Count("skipped")]
    <3>1. run' = [run EXCEPT !.left = Tail(@), !.adds = run.adds, !.tally = Count("skipped")]
      BY <1>4, <2>5 DEF Fields
    <3>2. Copies(children, d) # {}
      BY <2>3, <2>5, FS_EmptySet DEF Found
    <3>3. Copies(children \cup run.adds, Child(Row, run.ids[Row.name], 1)) # {}
      BY <3>2 DEF Copies, d
    <3> QED
      BY <1>1, <1>2, <1>3, <1>5, <3>1, <3>3, RowRepeats
  <2> QED
    BY <2>1, <2>4, <2>5
<1>10. CASE UpsertChild
  <2> DEFINE old == Copies(children \cup run.adds, d)
             new == (run.adds \ old) \cup {d}
             t   == Count(IF old = {} THEN "inserted" ELSE "updated")
  <2>1. /\ Resolved /\ Row.sheet \in Upserted
        /\ run' = [run EXCEPT !.left = Tail(@), !.adds = (@ \ old) \cup {d}, !.tally = t]
    BY <1>10 DEF UpsertChild
  <2> HIDE DEF d, t
  <2>2. IsFiniteSet(new)
    BY <1>3, FS_Difference, FS_AddElement
  <2>3. Distinct(new)
    BY <1>3 DEF Distinct, Same, Copies
  <2>4. Copies(children \cup new, d) # {}
    <3>1. d \in Copies(children \cup new, d)
      BY DEF Copies
    <3> QED
      BY <3>1
  <2>5. \A x \in children \cup run.adds : \E y \in children \cup new : Same(x, y)
    BY <1>5 DEF Same, Copies
  <2>6. last = run.wb /\ Unambiguous => d.sheet \in Upserted /\ Copies(children, d) # {}
    BY <1>6, <1>7, <2>1
  <2>7. run' = [run EXCEPT !.left = Tail(@), !.adds = new, !.tally = t]
    BY <2>1
  <2>8. Copies(children \cup new, Child(Row, run.ids[Row.name], 1)) # {}
    BY <2>4 DEF d
  <2>9. last = run.wb /\ Unambiguous => \A c \in new :
           c \in run.adds \/ (c.sheet \in Upserted /\ Copies(children, c) # {})
    BY <2>6
  <2> HIDE DEF new, old
  <2> QED
    BY <1>1, <1>2, <2>2, <2>3, <2>5, <2>7, <2>8, <2>9, RowRepeats
<1> QED
  BY <1>8, <1>9, <1>10

\* A dry run only goes on to the next row.
LEMMA DryRepeats ==
    ASSUME RepeatInv, DryRow
    PROVE  RepeatInv'
<1>1. ImportInv'
  BY DryKeeps DEF RepeatInv
<1>2. /\ run.pc # "idle" /\ run.left # <<>> /\ run.dry
      /\ UNCHANGED <<entities, children, gen, edits, last>>
  BY DEF DryRow, Unchanged
<1>3. /\ run'.pc = run.pc /\ run'.wb = run.wb /\ run'.dry = run.dry
      /\ run'.left = Tail(run.left) /\ run'.work = run.work /\ run'.ids = run.ids
      /\ run'.adds = run.adds /\ run'.since = run.since
  BY DEF DryRow, RepeatInv, ImportInv, RunOK, Fields
<1>4. TablesOK' /\ LastOK'
  BY <1>2, TablesStay
<1>5. WrittenOK'
  BY <1>2, <1>3, NextEntity DEF RepeatInv, WrittenOK, View
<1>6. ClockOK' /\ DoneOK'
  BY <1>2, <1>3 DEF RepeatInv, ClockOK, DoneOK
<1>7. AgainOK'
  BY <1>2, <1>3 DEF RepeatInv, AgainOK, Unambiguous, Named, View
<1> QED
  BY <1>1, <1>4, <1>5, <1>6, <1>7 DEF RepeatInv

\* A row that a commit removes is replaced by one for the same thing.
LEMMA ReplacedRows ==
    ASSUME RepeatInv, Commit, NEW c \in children \cup run.adds
    PROVE  \E d \in children' : Same(c, d)
<1>1. CASE c \in Written
  BY <1>1 DEF Commit, Written, Copies, Same
<1>2. CASE c \notin Written
  BY <1>2 DEF Commit, Same
<1> QED
  BY <1>1, <1>2

LEMMA CommitRepeats ==
    ASSUME RepeatInv, Commit
    PROVE  RepeatInv'
<1>1. /\ run.pc = "children" /\ run.left = <<>> /\ ~run.dry
      /\ entities' = [i \in Ids |-> View(i)]
      /\ children' = (children \ Written) \cup run.adds
      /\ last' = IF run.since = edits THEN run.wb ELSE None
      /\ run' = Idle /\ UNCHANGED <<gen, edits>>
  BY DEF Commit
<1>2. ImportInv'
  BY <1>1, EndKeeps
<1>3. TablesOK'
  <2>1. entities' \in [Ids -> Entity \cup {None}]
    BY <1>1 DEF RepeatInv, TablesOK, WrittenOK, View
  <2>2. IsFiniteSet(children')
    BY <1>1, FS_Difference, FS_Union DEF RepeatInv, TablesOK, WrittenOK
  <2>3. Distinct(children')
    <3> SUFFICES ASSUME NEW c \in children', NEW d \in children',
                        c.sheet \in Upserted, Same(c, d)
                 PROVE  c = d
      BY DEF Distinct
    <3>1. \A x \in run.adds, y \in children :
             x.sheet \in Upserted /\ Same(x, y) => y \in Written
      BY DEF Written, Copies, Same
    <3> QED
      BY <1>1, <3>1 DEF RepeatInv, TablesOK, WrittenOK, Distinct, Same
  <2>4. ASSUME NEW c \in children' PROVE c.entity \in Rows(entities')
    <3>1. CASE c \in run.adds
      <4>1. PICK r \in ToSet(run.wb.rows) : Stems(c, r)
        BY <3>1 DEF RepeatInv, ImportInv, AddsOK
      <4>2. c.entity \in Ids /\ View(c.entity) # None
        BY <4>1 DEF RepeatInv, ImportInv, IdsOK, WrittenOK, Stems
      <4> QED
        BY <1>1, <4>2 DEF Rows
    <3>2. CASE c \in children
      <4>1. c.entity \in Ids /\ entities[c.entity] # None
        BY <3>2 DEF RepeatInv, TablesOK, Rows
      <4>2. View(c.entity) # None
        BY <4>1, ConstantAssumption DEF RepeatInv, WrittenOK, View
      <4> QED
        BY <1>1, <4>1, <4>2 DEF Rows
    <3> QED
      BY <1>1, <3>1, <3>2
  <2> QED
    BY <2>1, <2>2, <2>3, <2>4 DEF TablesOK
<1>4. WrittenOK'
  BY <1>1, IdleEmpty, FS_EmptySet DEF WrittenOK, Distinct
<1>5. ClockOK' /\ DoneOK' /\ AgainOK'
  BY <1>1, IdleEmpty DEF RepeatInv, ClockOK, DoneOK, AgainOK
<1>6. LastOK'
  <2> SUFFICES ASSUME run.since = edits, last' = run.wb PROVE LastOK'
    BY <1>1 DEF LastOK
  <2>1. ToSet(run.left) = {}
    BY <1>1 DEF ToSet
  <2>2. ASSUME NEW r \in ToSet(run.wb.entities), r.active
        PROVE  \E i \in Ids : Holds(entities'[i], r.ein)
    <3>1. PICK i \in DOMAIN run.work : Holds(run.work[i], r.ein)
      BY <1>1, <2>1, <2>2 DEF RepeatInv, DoneOK
    <3>2. i \in Ids /\ entities'[i] = run.work[i]
      BY <1>1 DEF RepeatInv, WrittenOK, View
    <3> QED
      BY <3>1, <3>2
  <2>3. ASSUME NEW n \in Known(run.wb), Live(n)' # {}
        PROVE  \E j \in Live(n)' : \A r \in ToSet(run.wb.rows) :
                 r.name = n => Copies(children', Child(r, j, 1)) # {}
    <3>1. Live(n)' = Named(n)
      BY <1>1 DEF Live, Named
    <3>2. n \in DOMAIN run.ids /\ run.ids[n] \in Named(n)
      BY <1>1, <2>3, <3>1 DEF RepeatInv, DoneOK
    <3>3. ASSUME NEW r \in ToSet(run.wb.rows), r.name = n
          PROVE  Copies(children', Child(r, run.ids[n], 1)) # {}
      <4>1. PICK c \in children \cup run.adds : Same(Child(r, run.ids[n], 1), c)
        BY <1>1, <2>1, <3>2, <3>3 DEF RepeatInv, DoneOK, Copies, Same
      <4>2. PICK e \in children' : Same(c, e)
        BY <4>1, ReplacedRows
      <4> QED
        BY <4>1, <4>2 DEF Copies, Same
    <3> QED
      BY <3>1, <3>2, <3>3
  <2> QED
    BY <2>2, <2>3 DEF LastOK
<1> QED
  BY <1>2, <1>3, <1>4, <1>5, <1>6 DEF RepeatInv

-----------------------------------------------------------------------------
(***************************************************************************)
(* The others keep it.                                                     *)
(***************************************************************************)

\* A change by others of legal tables, which takes no entity from an import.
LEMMA EditRepeats ==
    ASSUME RepeatInv, ImportInv', TablesOK', UNCHANGED run, last' = None,
           gen' \in {"idle", "fill"}, gen' = "fill" => run.pc = "idle",
           edits' = edits \/ edits' = edits + 1,
           run.pc # "idle" =>
              /\ edits' = edits + 1
              /\ \A i \in Ids : entities[i] # None => entities'[i] # None
    PROVE  RepeatInv'
<1>1. WrittenOK'
  <2>1. ASSUME NEW n \in DOMAIN run.ids PROVE View(run.ids[n])' # None
    <3>1. run.pc # "idle" /\ run.ids[n] \in Ids /\ View(run.ids[n]) # None
      BY DEF RepeatInv, ImportInv, RunOK, IdsOK, WrittenOK, Idle
    <3> QED
      BY <3>1 DEF View
  <2> QED
    BY <2>1 DEF RepeatInv, WrittenOK
<1>2. ClockOK'
  BY DEF RepeatInv, ClockOK
<1>3. DoneOK'
  <2>1. run.pc # "idle" => run'.since # edits'
    BY DEF RepeatInv, ClockOK
  <2> QED
    BY <2>1 DEF RepeatInv, DoneOK
<1>4. LastOK' /\ AgainOK'
  BY ConstantAssumption DEF LastOK, AgainOK, RepeatInv, ImportInv, RunOK
<1> QED
  BY <1>1, <1>2, <1>3, <1>4 DEF RepeatInv

\* The generator's rows are finitely many, one in each of the other sheets, and
\* all for its entity.
LEMMA GeneratedRows ==
    ASSUME NEW i, NEW shares \in Shares, NEW names
    PROVE  /\ IsFiniteSet(Generated(i, shares, names))
           /\ Distinct(Generated(i, shares, names))
           /\ \A c \in Generated(i, shares, names) : c.entity = i
<1> DEFINE same(k) == Cardinality({j \in 1..k : names[j] = names[k]})
           owner(k) == [sheet |-> "Owners", entity |-> i, key |-> names[k],
                        share |-> shares[k], copy |-> same(k)]
           other(s) == [sheet |-> s, entity |-> i, key |-> CHOOSE k \in Keys : TRUE,
                        share |-> 0, copy |-> 1]
           D == DOMAIN shares
           E == ToSet(Sheets) \ {"Owners"}
           O == {owner(k) : k \in D}
           R == {other(s) : s \in E}
<1>1. Generated(i, shares, names) = O \cup R
  BY DEF Generated
<1>2. IsFiniteSet(D)
  <2>1. PICK n \in Counts : D = 1..n
    BY DEF Shares
  <2> QED
    BY <2>1, FS_Interval, ConstantAssumption
<1>3. IsFiniteSet(E)
  <2>1. PICK n \in Nat : n = 5
    OBVIOUS
  <2>2. ToSet(Sheets) = {Sheets[k] : k \in 1..n}
    BY <2>1 DEF ToSet, Sheets
  <2> DEFINE f == [k \in 1..n |-> Sheets[k]]
  <2>3. f \in Surjection(1..n, ToSet(Sheets))
    BY <2>2 DEF Surjection
  <2>4. IsFiniteSet(1..n)
    BY FS_Interval
  <2>5. IsFiniteSet(ToSet(Sheets))
    BY <2>3, <2>4, FS_Surjection
  <2> QED
    BY <2>5, FS_Difference
<1> HIDE DEF D, E
<1>4. IsFiniteSet(O)
  <2> DEFINE f == [k \in D |-> owner(k)]
  <2> HIDE DEF owner
  <2>1. f \in Surjection(D, O)
    BY DEF Surjection
  <2> QED
    BY <1>2, <2>1, FS_Surjection
<1>5. IsFiniteSet(R)
  <2> DEFINE f == [s \in E |-> other(s)]
  <2> HIDE DEF other
  <2>1. f \in Surjection(E, R)
    BY DEF Surjection
  <2> QED
    BY <1>3, <2>1, FS_Surjection
<1>6. IsFiniteSet(O \cup R)
  BY <1>4, <1>5, FS_Union
<1>7. ASSUME NEW c \in O PROVE c.sheet \notin Upserted /\ c.entity = i
  <2> HIDE DEF same
  <2>1. PICK k \in D : c = owner(k)
    OBVIOUS
  <2>2. c.sheet = "Owners" /\ c.entity = i
    BY <2>1
  <2> QED
    BY <2>2 DEF Upserted
<1>8. \A c \in R : c = other(c.sheet) /\ c.entity = i
  OBVIOUS
<1>9. Distinct(O \cup R)
  <2> HIDE DEF O, R, other
  <2> QED
    BY <1>7, <1>8 DEF Distinct, Same
<1> QED
  BY <1>1, <1>6, <1>7, <1>8, <1>9

LEMMA OthersRepeat ==
    ASSUME RepeatInv, Others
    PROVE  RepeatInv'
<1>1. ImportInv' /\ UNCHANGED run
  BY OthersNext DEF RepeatInv, TablesOK, Others, ApiCreate, ApiDelete, ApiUpdate, Clear,
                    Generate, GenerateFails
<1>2. entities \in [Ids -> Entity \cup {None}]
  BY DEF RepeatInv, TablesOK
<1>3. CASE ApiCreate
  <2>1. PICK i \in Unused, n \in Names, e \in Eins \cup {None}, a \in BOOLEAN :
          /\ gen = "idle" /\ Edit /\ UNCHANGED <<children, gen>>
          /\ entities' = [entities EXCEPT ![i] =
                [name |-> n, ein |-> e, active |-> a, deleted |-> FALSE]]
    BY <1>3 DEF ApiCreate
  <2>2. [name |-> n, ein |-> e, active |-> a, deleted |-> FALSE] \in Entity
    BY DEF Entity
  <2>3. entities' \in [Ids -> Entity \cup {None}]
    BY <1>2, <2>1, <2>2
  <2>4. \A j \in Ids : entities[j] # None => entities'[j] # None
    BY <1>2, <2>1, <2>2, ConstantAssumption
  <2>5. TablesOK'
    BY <2>1, <2>3, <2>4 DEF RepeatInv, TablesOK, Rows
  <2> QED
    BY <1>1, <2>1, <2>4, <2>5, EditRepeats DEF Edit
<1>4. CASE ApiDelete \/ ApiUpdate
  <2>1. /\ gen = "idle" /\ Edit /\ UNCHANGED <<children, gen>>
    BY <1>4 DEF ApiDelete, ApiUpdate
  <2>2. PICK i \in Ids, e \in Entity : entities' = [entities EXCEPT ![i] = e]
    <3>1. CASE ApiDelete
      <4>1. PICK i \in Ids : /\ entities[i] # None
                             /\ entities' = [entities EXCEPT ![i].deleted = TRUE]
        BY <3>1 DEF ApiDelete
      <4>2. [entities[i] EXCEPT !.deleted = TRUE] \in Entity
        BY <1>2, <4>1 DEF Entity
      <4> QED
        BY <4>1, <4>2
    <3>2. CASE ApiUpdate
      <4>1. PICK i \in Ids, n \in Names, e \in Eins \cup {None}, a \in BOOLEAN :
               LET new == [entities[i] EXCEPT !.name = n, !.ein = e, !.active = a]
               IN /\ entities[i] # None
                  /\ entities' = [entities EXCEPT ![i] = new]
        BY <3>2, UpdateSets, ZenonT(30)
      <4>2. [entities[i] EXCEPT !.name = n, !.ein = e, !.active = a] \in Entity
        BY <1>2, <4>1 DEF Entity
      <4> QED
        BY <4>1, <4>2
    <3> QED
      BY <1>4, <3>1, <3>2
  <2>3. entities' \in [Ids -> Entity \cup {None}]
    BY <1>2, <2>2
  <2>4. \A j \in Ids : entities[j] # None => entities'[j] # None
    BY <1>2, <2>2, ConstantAssumption
  <2>5. TablesOK'
    BY <2>1, <2>3, <2>4 DEF RepeatInv, TablesOK, Rows
  <2> QED
    BY <1>1, <2>1, <2>4, <2>5, EditRepeats DEF Edit
<1>5. CASE Clear
  <2>1. /\ run.pc = "idle" /\ Edit /\ gen' = "fill"
        /\ entities' = [i \in Ids |-> None] /\ children' = {}
    BY <1>5 DEF Clear
  <2>2. TablesOK'
    BY <2>1, FS_EmptySet DEF TablesOK, Distinct
  <2> QED
    BY <1>1, <2>1, <2>2, EditRepeats DEF Edit
<1>6. CASE Generate
  <2>1. PICK i \in Ids, n \in Names, e \in Eins, shares \in Shares :
          \E names \in [DOMAIN shares -> Keys] :
             /\ run.pc = "idle" /\ \A j \in Ids : entities[j] = None
             /\ IF gen = "fill" THEN UNCHANGED <<edits, last>> ELSE Edit
             /\ entities' = [entities EXCEPT ![i] = NewEntity(n, e)]
             /\ children' = children \cup Generated(i, shares, names)
             /\ gen' = "idle"
    BY <1>6 DEF Generate
  <2>2. PICK names : children' = children \cup Generated(i, shares, names)
    BY <2>1
  <2>3. children = {}
    BY <2>1 DEF RepeatInv, TablesOK, Rows
  <2>4. NewEntity(n, e) \in Entity
    BY DEF NewEntity, Entity
  <2>5. entities' \in [Ids -> Entity \cup {None}] /\ entities'[i] # None
    BY <1>2, <2>1, <2>4, ConstantAssumption
  <2>6. TablesOK'
    BY <2>2, <2>3, <2>5, GeneratedRows DEF TablesOK, Rows
  <2>7. last' = None /\ (edits' = edits \/ edits' = edits + 1)
    BY <2>1 DEF Edit, RepeatInv, ClockOK
  <2> QED
    BY <1>1, <2>1, <2>6, <2>7, EditRepeats
<1>7. CASE GenerateFails
  <2>1. run.pc = "idle" /\ gen' = "idle" /\ UNCHANGED <<entities, children, edits, last>>
    BY <1>7 DEF GenerateFails, RepeatInv, ClockOK
  <2>2. last' = None /\ TablesOK'
    BY <1>7, <2>1, TablesStay DEF GenerateFails, RepeatInv, ClockOK
  <2> QED
    BY <1>1, <2>1, <2>2, EditRepeats
<1> QED
  BY <1>3, <1>4, <1>5, <1>6, <1>7 DEF Others

LEMMA RepeatInit == Init => RepeatInv
<1> SUFFICES ASSUME Init PROVE RepeatInv
  OBVIOUS
<1>1. /\ run = Idle /\ children = {} /\ entities = [i \in Ids |-> None]
      /\ gen = "idle" /\ edits = 0 /\ last = None
  BY DEF Init
<1>2. TablesOK
  BY <1>1, FS_EmptySet DEF TablesOK, Distinct
<1>3. WrittenOK
  BY <1>1, IdleEmpty, FS_EmptySet DEF WrittenOK, Distinct
<1>4. ClockOK /\ DoneOK /\ LastOK /\ AgainOK
  BY <1>1, IdleEmpty DEF ClockOK, DoneOK, LastOK, AgainOK
<1> QED
  BY <1>2, <1>3, <1>4, ImportInit DEF RepeatInv

LEMMA RepeatNext ==
    ASSUME RepeatInv, [Next]_vars
    PROVE  RepeatInv'
<1>1. CASE UNCHANGED vars
  <2>1. UNCHANGED <<entities, children, run, gen, edits, last>>
    BY <1>1 DEF vars
  <2>2. ImportInv'
    BY <1>1, ImportNext DEF RepeatInv, TablesOK
  <2>3. TablesOK' /\ LastOK'
    BY <2>1, TablesStay
  <2>4. WrittenOK' /\ ClockOK'
    BY <2>1 DEF RepeatInv, WrittenOK, ClockOK, View
  <2>5. DoneOK'
    BY <2>1 DEF RepeatInv, DoneOK, Named, View
  <2>6. AgainOK'
    BY <2>1 DEF RepeatInv, AgainOK, Unambiguous, Named, View
  <2> QED
    BY <2>2, <2>3, <2>4, <2>5, <2>6 DEF RepeatInv
<1>2. CASE RowRaises \/ EndWithoutCommit \/ Fault
  BY <1>2, EndRepeats DEF RowRaises, EndWithoutCommit, Fault, Abandon
<1>3. CASE Next /\ ~(RowRaises \/ EndWithoutCommit \/ Fault)
  BY <1>3, StartRepeats, EntityRepeats, ReloadRepeats, ChildRepeats, DryRepeats,
     CommitRepeats, OthersRepeat DEF Next, Importer
<1> QED
  BY <1>1, <1>2, <1>3

\* A row that an import commits belongs to the entity its sheet names, and
\* that entity is live, unless a request deleted, renamed or deactivated it
\* meanwhile.
THEOREM ChildrenFindTheirEntity == Spec => ChildrenUnderNamedEntity
<1>1. RepeatInv /\ [Next]_vars =>
        [Commit => \A c \in children' \ children :
           LET e == entities'[c.entity]
           IN \/ c.entity \in touched
              \/ /\ e.active /\ ~e.deleted
                 /\ \E r \in ToSet(run.wb.rows) :
                       r.name = e.name /\ r.sheet = c.sheet /\ r.key = c.key]_vars
  BY CommitWritesNamed DEF RepeatInv
<1> QED
  BY <1>1, RepeatInit, RepeatNext, PTL DEF Spec, ChildrenUnderNamedEntity

\* The commit of a repeated import replaces as many rows as it adds, and the
\* entities that it inserts are not active.
LEMMA RepeatedCommit ==
    ASSUME RepeatInv, Commit, last = run.wb, Unambiguous
    PROVE  /\ Cardinality(children') = Cardinality(children)
           /\ \A i \in Rows(entities') \ Rows(entities) : ~entities'[i].active
<1>1. /\ run.pc = "children" /\ entities' = [i \in Ids |-> View(i)]
      /\ children' = (children \ Written) \cup run.adds
  BY DEF Commit
<1>2. \A c \in run.adds : c.sheet \in Upserted /\ Copies(children, c) # {}
  BY <1>1 DEF RepeatInv, AgainOK
<1>3. /\ IsFiniteSet(children) /\ Distinct(children)
      /\ IsFiniteSet(run.adds) /\ Distinct(run.adds)
  BY DEF RepeatInv, TablesOK, WrittenOK
<1>4. /\ Written \subseteq children
      /\ \A d \in Written : d.sheet \in Upserted /\ \E c \in run.adds : Same(c, d)
      /\ \A c \in run.adds, d \in children : Same(c, d) => d \in Written
  BY <1>2 DEF Written, Copies, Same
<1>5. Cardinality(Written) = Cardinality(run.adds) /\ IsFiniteSet(Written)
  <2> DEFINE f == [d \in Written |-> CHOOSE c \in run.adds : Same(c, d)]
  <2>1. \A d \in Written : f[d] \in run.adds /\ Same(f[d], d)
    BY <1>4
  <2>2. f \in [Written -> run.adds]
    BY <2>1
  <2> HIDE DEF f
  <2>3. ASSUME NEW c \in Written, NEW d \in Written, f[c] = f[d] PROVE c = d
    BY <1>3, <1>4, <2>1, <2>3 DEF Distinct, Same
  <2>4. ASSUME NEW c \in run.adds PROVE \E d \in Written : f[d] = c
    <3>1. PICK d \in children : Same(c, d)
      BY <1>2 DEF Copies, Same
    <3>2. d \in Written
      BY <1>4, <3>1
    <3>3. f[d] = c
      BY <1>2, <1>3, <2>1, <3>1, <3>2 DEF Distinct, Same
    <3> QED
      BY <3>2, <3>3
  <2>5. f \in Bijection(Written, run.adds)
    BY <2>2, <2>3, <2>4 DEF Bijection, Injection, Surjection, IsInjective
  <2>6. IsFiniteSet(Written)
    BY <1>3, <1>4, FS_Subset
  <2> QED
    BY <2>5, <2>6, FS_Bijection DEF ExistsBijection
<1>6. Cardinality(children') = Cardinality(children)
  <2>1. (children \ Written) \cap run.adds = {}
    BY <1>4 DEF Same
  <2>2. children \cap Written = Written
    BY <1>4
  <2>3. /\ IsFiniteSet(children \ Written)
        /\ Cardinality(children \ Written) = Cardinality(children) - Cardinality(Written)
    BY <1>3, <2>2, FS_Difference
  <2>4. Cardinality(children') = Cardinality(children \ Written) + Cardinality(run.adds)
                                   - Cardinality({})
    BY <1>1, <1>3, <2>1, <2>3, FS_Union
  <2>5. /\ Cardinality({}) = 0 /\ Cardinality(children) \in Nat
        /\ Cardinality(run.adds) \in Nat
    BY <1>3, FS_EmptySet, FS_CardinalityType
  <2> QED
    BY <1>5, <2>3, <2>4, <2>5
<1>7. ASSUME NEW i \in Rows(entities') \ Rows(entities) PROVE ~entities'[i].active
  <2>1. i \in Ids /\ View(i) # None /\ entities[i] = None /\ entities'[i] = View(i)
    BY <1>1 DEF Rows
  <2>2. i \in DOMAIN run.work /\ View(i) = run.work[i]
    BY <2>1 DEF View
  <2> QED
    BY <1>1, <2>1, <2>2 DEF RepeatInv, AgainOK
<1> QED
  BY <1>6, <1>7

\* Importing a workbook again, when nothing else changed the tables since its
\* first import began, adds no active entity and no row of another table, if no
\* two live entities have the same name.
THEOREM SecondImportAddsNothing == Spec => RepeatAddsNothing
<1>1. RepeatInv /\ [Next]_vars =>
        [Commit /\ last = run.wb
                /\ (\A n \in Known(run.wb) : Cardinality(Named(n)) =< 1) =>
           /\ Cardinality(children') = Cardinality(children)
           /\ \A i \in Rows(entities') \ Rows(entities) : ~entities'[i].active]_vars
  BY RepeatedCommit DEF Unambiguous
<1> QED
  BY <1>1, RepeatInit, RepeatNext, PTL DEF Spec, RepeatAddsNothing

-----------------------------------------------------------------------------
(***************************************************************************)
(* Sums of integers over finite sets.                                      *)
(***************************************************************************)
\* The element that a sum over S takes first.
First(S) == CHOOSE x \in S : TRUE

\* h is the table of the sums of f over the subsets of S.
SumsUp(h, f, S) ==
    h = [s \in SUBSET S |-> IF s = {} THEN 0 ELSE f[First(s)] + h[s \ {First(s)}]]

\* f has an integer for each element of the finite set S.
IntsOn(f, S) == IsFiniteSet(S) /\ \A x \in S : f[x] \in Int

LEMMA SumIsOfTable ==
    ASSUME NEW f, NEW S
    PROVE  SumFunctionOnSet(f, S) = (CHOOSE h : SumsUp(h, f, S))[S]
BY DEF SumFunctionOnSet, FoldFunctionOnSet, MapThenFoldSet, SumsUp, First

\* Of finite sets, one is smallest.
LEMMA Smallest ==
    ASSUME NEW F, F # {}, \A S \in F : IsFiniteSet(S)
    PROVE  \E S \in F : \A T \in F : Cardinality(S) <= Cardinality(T)
<1> DEFINE N == {Cardinality(S) : S \in F}
           R == {ss \in Nat \X Nat : ss[1] < ss[2]}
<1>1. N \subseteq Nat /\ N # {}
  BY FS_CardinalityType
<1>2. IsWellFoundedOn(R, Nat)
  BY NatLessThanWellFounded DEF OpToRel
<1>3. PICK n \in N : \A m \in N : <<m, n>> \notin R
  BY <1>1, <1>2, WFMin
<1>4. ASSUME NEW m \in N PROVE n <= m
  <2>1. m \in Nat /\ n \in Nat
    BY <1>1
  <2>2. ~(m < n)
    BY <1>3, <2>1
  <2> HIDE DEF N
  <2> QED
    BY <2>1, <2>2
<1>5. PICK S \in F : n = Cardinality(S)
  OBVIOUS
<1> QED
  BY <1>4, <1>5

\* A set is one larger than without one of its elements.
LEMMA OneLess ==
    ASSUME NEW S, IsFiniteSet(S), NEW x \in S
    PROVE  /\ IsFiniteSet(S \ {x})
           /\ Cardinality(S) \in Nat /\ Cardinality(S \ {x}) \in Nat
           /\ Cardinality(S \ {x}) < Cardinality(S)
<1>1. IsFiniteSet(S \ {x}) /\ Cardinality(S \ {x}) = Cardinality(S) - 1
  BY FS_RemoveElement
<1>2. Cardinality(S) \in Nat /\ Cardinality(S \ {x}) \in Nat
  BY <1>1, FS_CardinalityType
<1> QED
  BY <1>1, <1>2

LEMMA FirstIn ==
    ASSUME NEW S, S # {}
    PROVE  First(S) \in S
BY DEF First

\* Two tables of the sums of a function agree where both have an entry.
LEMMA TablesAgree ==
    ASSUME NEW S, IsFiniteSet(S), NEW T \in SUBSET S, NEW f, NEW g, NEW h,
           SumsUp(h, f, S), SumsUp(g, f, T)
    PROVE  \A U \in SUBSET T : g[U] = h[U]
<1> DEFINE Bad == {U \in SUBSET T : g[U] # h[U]}
<1> SUFFICES ASSUME Bad # {} PROVE FALSE
  OBVIOUS
<1>1. \A U \in Bad : IsFiniteSet(U)
  BY FS_Subset
<1> HIDE DEF Bad
<1>2. PICK U \in Bad : \A V \in Bad : Cardinality(U) <= Cardinality(V)
  BY <1>1, Smallest
<1>3. U \in SUBSET T /\ U \in SUBSET S /\ g[U] # h[U] /\ IsFiniteSet(U)
  BY <1>1 DEF Bad
<1>4. U # {}
  BY <1>3 DEF SumsUp
<1>5. First(U) \in U /\ U \ {First(U)} \notin Bad
  <2>1. First(U) \in U
    BY <1>4, FirstIn
  <2>2. ~(Cardinality(U) <= Cardinality(U \ {First(U)}))
    BY <1>3, <2>1, OneLess
  <2> QED
    BY <1>2, <2>1, <2>2
<1>6. g[U \ {First(U)}] = h[U \ {First(U)}]
  BY <1>3, <1>5 DEF Bad
<1>7. /\ g[U] = f[First(U)] + g[U \ {First(U)}]
      /\ h[U] = f[First(U)] + h[U \ {First(U)}]
  BY <1>3, <1>4 DEF SumsUp
<1> QED
  BY <1>3, <1>5, <1>6, <1>7

\* There is a table: that of the subsets with n + 1 elements from that of those with n.
LEMMA TableExists ==
    ASSUME NEW S, IsFiniteSet(S), NEW f
    PROVE  \E h : SumsUp(h, f, S)
<1> DEFINE Sub(n) == {U \in SUBSET S : Cardinality(U) <= n}
           Table(h, n) == h = [s \in Sub(n) |-> IF s = {} THEN 0
                                                ELSE f[First(s)] + h[s \ {First(s)}]]
           Bad == {n \in Nat : ~\E h : Table(h, n)}
           R == {ss \in Nat \X Nat : ss[1] < ss[2]}
<1>1. \A U \in SUBSET S : /\ IsFiniteSet(U) /\ Cardinality(U) \in Nat
                          /\ Cardinality(U) = 0 => U = {}
                          /\ U # {} => /\ First(U) \in U
                                       /\ Cardinality(U \ {First(U)}) \in Nat
                                       /\ Cardinality(U \ {First(U)}) < Cardinality(U)
  BY FS_Subset, FS_CardinalityType, FS_EmptySet, OneLess, FirstIn
<1>2. Bad = {}
  <2> SUFFICES ASSUME Bad # {} PROVE FALSE
    OBVIOUS
  <2>1. IsWellFoundedOn(R, Nat)
    BY NatLessThanWellFounded DEF OpToRel
  <2> HIDE DEF Bad
  <2>0. Bad \subseteq Nat
    BY DEF Bad
  <2>2. PICK n \in Bad : \A m \in Bad : <<m, n>> \notin R
    BY <2>1, <2>0, WFMin
  <2>3. n \in Nat
    BY <2>0
  <2>4. n # 0
    <3> SUFFICES ASSUME n = 0 PROVE FALSE
      OBVIOUS
    <3> DEFINE h == [s \in Sub(0) |-> 0]
    <3>1. ASSUME NEW s \in Sub(0) PROVE s = {}
      <4>1. s \in SUBSET S /\ Cardinality(s) <= 0
        OBVIOUS
      <4>2. Cardinality(s) \in Nat /\ (Cardinality(s) = 0 => s = {})
        BY <1>1, <4>1
      <4> QED
        BY <4>1, <4>2
    <3> HIDE DEF Sub
    <3>2. Table(h, 0)
      BY <3>1
    <3> QED
      BY <3>2 DEF Bad
  <2>5. n - 1 \in Nat /\ n - 1 \notin Bad
    <3>1. n - 1 \in Nat /\ <<n - 1, n>> \in R
      BY <2>3, <2>4
    <3> QED
      BY <2>2, <3>1
  <2>6. PICK h : Table(h, n - 1)
    BY <2>5 DEF Bad
  <2> DEFINE k == [s \in Sub(n) |-> IF s = {} THEN 0 ELSE f[First(s)] + h[s \ {First(s)}]]
  <2>7. \A s \in Sub(n) : s # {} => /\ s \ {First(s)} \in Sub(n - 1)
                                    /\ s \ {First(s)} \in Sub(n)
    <3> SUFFICES ASSUME NEW s \in Sub(n), s # {}
                 PROVE  s \ {First(s)} \in Sub(n - 1) /\ s \ {First(s)} \in Sub(n)
      OBVIOUS
    <3>1. /\ s \in SUBSET S /\ Cardinality(s) <= n /\ Cardinality(s) \in Nat
          /\ Cardinality(s \ {First(s)}) \in Nat
          /\ Cardinality(s \ {First(s)}) < Cardinality(s)
      BY <1>1
    <3> QED
      BY <2>3, <3>1
  <2>8. ASSUME NEW s \in Sub(n - 1) PROVE s \in Sub(n)
    <3>1. s \in SUBSET S /\ Cardinality(s) <= n - 1
      OBVIOUS
    <3>2. Cardinality(s) \in Nat
      BY <1>1, <3>1
    <3> QED
      BY <2>3, <3>1, <3>2
  <2> HIDE DEF Sub
  <2>9. \A s \in Sub(n - 1) : k[s] = h[s]
    BY <2>6, <2>8
  <2>10. k = [s \in Sub(n) |-> IF s = {} THEN 0 ELSE f[First(s)] + k[s \ {First(s)}]]
    <3> DEFINE r == [s \in Sub(n) |-> IF s = {} THEN 0 ELSE f[First(s)] + k[s \ {First(s)}]]
    <3>1. ASSUME NEW s \in Sub(n) PROVE k[s] = r[s]
      <4>1. CASE s = {}
        BY <4>1
      <4>2. CASE s # {}
        <5>1. k[s \ {First(s)}] = h[s \ {First(s)}]
          BY <2>7, <2>9, <4>2
        <5>2. r[s] = f[First(s)] + k[s \ {First(s)}]
          BY <4>2
        <5>3. k[s] = f[First(s)] + h[s \ {First(s)}]
          BY <4>2
        <5> QED
          BY <5>1, <5>2, <5>3
      <4> QED
        BY <4>1, <4>2
    <3> QED
      BY <3>1
  <2> QED
    BY <2>10 DEF Bad
<1>3. PICK c \in Nat : c = Cardinality(S)
  BY FS_CardinalityType
<1>4. Sub(c) = SUBSET S
  BY <1>3, FS_Subset
<1>5. \E h : Table(h, c)
  BY <1>2
<1> HIDE DEF Sub
<1> QED
  BY <1>4, <1>5 DEF SumsUp

\* A sum over a part of S is its entry in any table for S.
LEMMA SumIsEntry ==
    ASSUME NEW S, IsFiniteSet(S), NEW T \in SUBSET S, NEW f, NEW h, SumsUp(h, f, S)
    PROVE  SumFunctionOnSet(f, T) = h[T]
<1> DEFINE g == CHOOSE g : SumsUp(g, f, T)
<1>1. \E k : SumsUp(k, f, T)
  BY TableExists, FS_Subset
<1>2. SumsUp(g, f, T)
  BY <1>1
<1>3. SumFunctionOnSet(f, T) = g[T]
  BY SumIsOfTable
<1> HIDE DEF g
<1>4. g[T] = h[T]
  BY <1>2, TablesAgree
<1> QED
  BY <1>3, <1>4

LEMMA SumOfNone ==
    ASSUME NEW f
    PROVE  SumFunctionOnSet(f, {}) = 0
<1>1. IsFiniteSet({})
  BY FS_EmptySet
<1>2. PICK h : SumsUp(h, f, {})
  BY <1>1, TableExists
<1>3. SumFunctionOnSet(f, {}) = h[{}]
  BY <1>1, <1>2, SumIsEntry
<1> QED
  BY <1>2, <1>3 DEF SumsUp

\* Sums of functions that agree on the set are equal.
LEMMA SumOfSame ==
    ASSUME NEW S, IsFiniteSet(S), NEW e, NEW f, \A x \in S : e[x] = f[x]
    PROVE  SumFunctionOnSet(e, S) = SumFunctionOnSet(f, S)
<1>1. PICK h : SumsUp(h, f, S)
  BY TableExists
<1>2. SumsUp(h, e, S)
  <2>1. \A s \in SUBSET S : s # {} => e[First(s)] = f[First(s)]
    BY FirstIn
  <2> QED
    BY <1>1, <2>1 DEF SumsUp
<1>3. SumFunctionOnSet(f, S) = h[S]
  BY <1>1, SumIsEntry
<1>4. SumFunctionOnSet(e, S) = h[S]
  BY <1>2, SumIsEntry
<1> QED
  BY <1>3, <1>4

LEMMA SumStep ==
    ASSUME NEW S, IsFiniteSet(S), S # {}, NEW f
    PROVE  SumFunctionOnSet(f, S) = f[First(S)] + SumFunctionOnSet(f, S \ {First(S)})
<1>1. PICK h : SumsUp(h, f, S)
  BY TableExists
<1>2. /\ SumFunctionOnSet(f, S) = h[S]
      /\ SumFunctionOnSet(f, S \ {First(S)}) = h[S \ {First(S)}]
  BY <1>1, SumIsEntry
<1> QED
  BY <1>1, <1>2 DEF SumsUp

\* A sum of integers is one.
LEMMA SumIsInt ==
    ASSUME NEW S, IsFiniteSet(S), NEW f, \A x \in S : f[x] \in Int
    PROVE  SumFunctionOnSet(f, S) \in Int
<1> DEFINE Bad == {U \in SUBSET S : SumFunctionOnSet(f, U) \notin Int}
<1> SUFFICES ASSUME Bad # {} PROVE FALSE
  OBVIOUS
<1>1. \A U \in Bad : IsFiniteSet(U)
  BY FS_Subset
<1>2. \A U \in Bad : U \in SUBSET S /\ SumFunctionOnSet(f, U) \notin Int
  OBVIOUS
<1>3. \A U \in SUBSET S : U \notin Bad => SumFunctionOnSet(f, U) \in Int
  OBVIOUS
<1> HIDE DEF Bad
<1>4. PICK U \in Bad : \A V \in Bad : Cardinality(U) <= Cardinality(V)
  BY <1>1, Smallest
<1>5. U # {}
  BY <1>2, SumOfNone
<1>6. First(U) \in U /\ First(U) \in S
  BY <1>2, <1>5, FirstIn
<1>7. U \ {First(U)} \notin Bad
  BY <1>1, <1>4, <1>6, OneLess
<1>8. SumFunctionOnSet(f, U \ {First(U)}) \in Int
  BY <1>2, <1>3, <1>7
<1>9. SumFunctionOnSet(f, U) = f[First(U)] + SumFunctionOnSet(f, U \ {First(U)})
  BY <1>1, <1>5, SumStep
<1> QED
  BY <1>2, <1>6, <1>8, <1>9

\* Any element may be taken first.
LEMMA SumWithout ==
    ASSUME NEW S, IsFiniteSet(S), NEW f, \A x \in S : f[x] \in Int, NEW x \in S
    PROVE  SumFunctionOnSet(f, S) = f[x] + SumFunctionOnSet(f, S \ {x})
<1> DEFINE Fits(U) == \A y \in U : SumFunctionOnSet(f, U) = f[y] + SumFunctionOnSet(f, U \ {y})
           Bad == {U \in SUBSET S : ~Fits(U)}
<1> SUFFICES ASSUME Bad # {} PROVE FALSE
  OBVIOUS
<1>1. \A U \in Bad : IsFiniteSet(U) /\ U \in SUBSET S /\ ~Fits(U)
  BY FS_Subset
<1>2. \A U \in SUBSET S : U \notin Bad => Fits(U)
  OBVIOUS
<1> HIDE DEF Bad
<1>3. PICK U \in Bad : \A V \in Bad : Cardinality(U) <= Cardinality(V)
  BY <1>1, Smallest
<1>4. IsFiniteSet(U) /\ U \in SUBSET S
  BY <1>1
<1>5. PICK y \in U : SumFunctionOnSet(f, U) # f[y] + SumFunctionOnSet(f, U \ {y})
  BY <1>1
<1>6. \A z \in U : Fits(U \ {z})
  BY <1>2, <1>3, <1>4, OneLess
<1> DEFINE z == First(U)
<1>7. z \in U
  BY FirstIn
<1>8. SumFunctionOnSet(f, U) = f[z] + SumFunctionOnSet(f, U \ {z})
  BY <1>4, <1>5, SumStep
<1> HIDE DEF z
<1>9. z # y
  BY <1>5, <1>8
<1>10. /\ SumFunctionOnSet(f, U \ {z}) = f[y] + SumFunctionOnSet(f, (U \ {z}) \ {y})
       /\ SumFunctionOnSet(f, U \ {y}) = f[z] + SumFunctionOnSet(f, (U \ {y}) \ {z})
  BY <1>6, <1>7, <1>9
<1>11. (U \ {z}) \ {y} = (U \ {y}) \ {z}
  OBVIOUS
<1>12. SumFunctionOnSet(f, (U \ {y}) \ {z}) \in Int /\ f[y] \in Int /\ f[z] \in Int
  <2>1. IsFiniteSet((U \ {y}) \ {z})
    BY <1>4, FS_Subset
  <2> QED
    BY <1>4, <1>7, <2>1, SumIsInt
<1> DEFINE rest == SumFunctionOnSet(f, (U \ {y}) \ {z})
<1>13. /\ SumFunctionOnSet(f, U) = f[z] + (f[y] + rest)
       /\ SumFunctionOnSet(f, U \ {y}) = f[z] + rest
       /\ rest \in Int
  BY <1>8, <1>10, <1>11, <1>12
<1> HIDE DEF rest
<1> QED
  BY <1>5, <1>12, <1>13

\* One more element adds its value.
LEMMA SumWith ==
    ASSUME NEW S, NEW x, x \notin S, NEW f, IntsOn(f, S \cup {x})
    PROVE  SumFunctionOnSet(f, S \cup {x}) = SumFunctionOnSet(f, S) + f[x]
<1>1. /\ IsFiniteSet(S \cup {x}) /\ (S \cup {x}) \ {x} = S
      /\ \A y \in S \cup {x} : f[y] \in Int
  BY DEF IntsOn
<1>2. SumFunctionOnSet(f, S \cup {x}) = f[x] + SumFunctionOnSet(f, S)
  BY <1>1, SumWithout
<1>3. SumFunctionOnSet(f, S) \in Int /\ f[x] \in Int
  <2>1. IsFiniteSet(S) /\ \A y \in S : f[y] \in Int
    BY <1>1, FS_Subset
  <2> QED
    BY <1>1, <2>1, SumIsInt
<1> QED
  BY <1>2, <1>3

-----------------------------------------------------------------------------
(***************************************************************************)
(* The shares of the owners.                                               *)
(***************************************************************************)

\* How many rows of the sheets the import has seen.
Seen == Len(run.wb.rows) - Len(run.left)

\* The rows left are the last ones of the workbook.
LeftOK ==
    /\ Len(run.left) =< Len(run.wb.rows)
    /\ \A j \in DOMAIN run.left : run.left[j] = run.wb.rows[Seen + j]

\* Two names have two ids.
OneNameOK == \A m, n \in DOMAIN run.ids : run.ids[m] = run.ids[n] => m = n

\* The rows S of a sheet that is looked up are numbered, and were not found.
Numbered(S) ==
    \A c \in S :
        /\ c.share \in Int /\ c.copy \in Nat
        /\ c.sheet \notin Upserted => /\ Copies(children, c) = {}
                                      /\ c.copy =< Cardinality(Copies(S, c))

\* total is what k shares make after the rounding and sum what they make before:
\* the two are no further apart than half a hundredth for each.
Near(total, sum, k) ==
    /\ total \in Int /\ sum \in Int /\ k \in Nat
    /\ 2 * (Grain * total - sum) =< Grain * k
    /\ 2 * (sum - Grain * total) =< Grain * k

\* The rows for owners of n among the first k, and those seen.
OwnersUpTo(wb, n, k) == {i \in Owners(wb, n) : i =< k}
OwnersSeen(n) == OwnersUpTo(run.wb, n, Seen)

\* The owners collected for an entity without owners have together what the
\* rows seen give them, but for the rounding.
SharesOK ==
    \A n \in DOMAIN run.ids :
        Owned(children, run.ids[n]) = {} =>
            Near(Total(Owned(run.adds, run.ids[n])),
                 SheetTotal(run.wb, OwnersSeen(n)), Cardinality(OwnersSeen(n)))

SumsOK ==
    run.pc = "children" /\ ~run.dry =>
        LeftOK /\ OneNameOK /\ Numbered(run.adds) /\ SharesOK

SharesInv == RepeatInv /\ SumsOK

\* A share is stored with an error of half a hundredth of a percent.
LEMMA RoundsToNearest ==
    ASSUME NEW x \in Nat
    PROVE  /\ Stored(x) \in Int
           /\ 2 * (Grain * Stored(x) - x) =< Grain
           /\ 2 * (x - Grain * Stored(x)) =< Grain
<1>1. Grain \in Nat /\ Grain > 0
  BY ConstantAssumption
<1> DEFINE half == Grain \div 2
           q == (x + half) \div Grain
<1>2. half \in Nat /\ 2 * half =< Grain /\ Grain =< 2 * half + 1
  BY <1>1
<1> HIDE DEF half
<1>3. q \in Int /\ Grain * q =< x + half /\ x + half < Grain * q + Grain
  <2>1. PICK y \in Nat : y = x + half
    BY <1>2
  <2>2. y \div Grain \in Int /\ Grain * (y \div Grain) =< y /\ y < Grain * (y \div Grain) + Grain
    BY <1>1
  <2> QED
    BY <2>1, <2>2
<1>4. Stored(x) = q
  BY DEF Stored, half
<1> HIDE DEF q
<1>5. PICK z \in Int : z = Grain * q
  BY <1>1, <1>3
<1>6. z =< x + half /\ x + half < z + Grain
  BY <1>3, <1>5
<1>7. 2 * (z - x) =< Grain /\ 2 * (x - z) =< Grain
  BY <1>1, <1>2, <1>6
<1> QED
  BY <1>3, <1>4, <1>5, <1>7

LEMMA NearNext ==
    ASSUME NEW t, NEW s, NEW k, Near(t, s, k), NEW x \in Nat
    PROVE  Near(t + Stored(x), s + x, k + 1)
<1>1. /\ t \in Int /\ s \in Int /\ k \in Nat /\ Grain \in Nat
      /\ 2 * (Grain * t - s) =< Grain * k /\ 2 * (s - Grain * t) =< Grain * k
  BY ConstantAssumption DEF Near
<1>2. PICK q \in Int : /\ q = Stored(x)
                       /\ 2 * (Grain * q - x) =< Grain /\ 2 * (x - Grain * q) =< Grain
  BY RoundsToNearest
<1>3. Grain * (t + q) = Grain * t + Grain * q /\ Grain * (k + 1) = Grain * k + Grain
  BY <1>1
<1>4. PICK a \in Int, b \in Int, c \in Int : a = Grain * t /\ b = Grain * q /\ c = Grain * k
  BY <1>1
<1>5. /\ 2 * ((a + b) - (s + x)) =< c + Grain
      /\ 2 * ((s + x) - (a + b)) =< c + Grain
  <2>1. /\ 2 * (a - s) =< c /\ 2 * (s - a) =< c
        /\ 2 * (b - x) =< Grain /\ 2 * (x - b) =< Grain
    BY <1>1, <1>2, <1>4
  <2> QED
    BY <1>1, <2>1
<1> QED
  BY <1>1, <1>2, <1>3, <1>4, <1>5 DEF Near

\* What makes 100 percent in a sheet is stored as that, but for the rounding.
LEMMA NearWhole ==
    ASSUME NEW t, NEW k, Near(t, Whole, k)
    PROVE  2 * t \in 20000 - k .. 20000 + k
<1>1. /\ t \in Int /\ k \in Nat /\ Grain \in Nat /\ Grain > 0
      /\ 2 * (Grain * t - 10000 * Grain) =< Grain * k
      /\ 2 * (10000 * Grain - Grain * t) =< Grain * k
  BY ConstantAssumption DEF Near, Whole
<1>2. ASSUME NEW a \in Int, NEW b \in Int, Grain * a =< Grain * b PROVE a =< b
  BY <1>1, <1>2
<1>3. /\ Grain * (2 * t - 20000) = 2 * (Grain * t - 10000 * Grain)
      /\ Grain * (20000 - 2 * t) = 2 * (10000 * Grain - Grain * t)
  BY <1>1
<1>4. 2 * t - 20000 =< k /\ 20000 - 2 * t =< k
  BY <1>1, <1>2, <1>3
<1> QED
  BY <1>1, <1>4

LEMMA TotalOfNone == Total({}) = 0
<1>1. DOMAIN [c \in {} |-> c.share] = {}
  OBVIOUS
<1> QED
  BY <1>1, SumOfNone DEF Total, SumFunction

LEMMA SheetTotalOfNone ==
    ASSUME NEW wb
    PROVE  SheetTotal(wb, {}) = 0
<1>1. DOMAIN [i \in {} |-> wb.rows[i].share] = {}
  OBVIOUS
<1> QED
  BY <1>1, SumOfNone DEF SheetTotal, SumFunction

\* One more owner adds its share.
LEMMA TotalWith ==
    ASSUME NEW S, IsFiniteSet(S), NEW c, c \notin S,
           \A d \in S \cup {c} : d.share \in Int
    PROVE  Total(S \cup {c}) = Total(S) + c.share
<1> DEFINE e == [d \in S \cup {c} |-> d.share]
           f == [d \in S |-> d.share]
<1>1. /\ \A d \in S \cup {c} : e[d] \in Int
      /\ \A d \in S : f[d] = e[d]
      /\ e[c] = c.share /\ DOMAIN e = S \cup {c} /\ DOMAIN f = S
  OBVIOUS
<1>2. /\ Total(S \cup {c}) = SumFunctionOnSet(e, S \cup {c})
      /\ Total(S) = SumFunctionOnSet(f, S)
  BY <1>1 DEF Total, SumFunction
<1> HIDE DEF e, f
<1>3. SumFunctionOnSet(e, S \cup {c}) = SumFunctionOnSet(e, S) + e[c]
  <2>1. IntsOn(e, S \cup {c})
    BY <1>1, FS_AddElement DEF IntsOn
  <2> QED
    BY <2>1, SumWith
<1>4. SumFunctionOnSet(f, S) = SumFunctionOnSet(e, S)
  BY <1>1, SumOfSame
<1> QED
  BY <1>1, <1>2, <1>3, <1>4

\* One more row of the sheet adds its share.
LEMMA SheetTotalWith ==
    ASSUME NEW wb, NEW S, IsFiniteSet(S), NEW k, k \notin S,
           \A i \in S \cup {k} : wb.rows[i].share \in Int
    PROVE  SheetTotal(wb, S \cup {k}) = SheetTotal(wb, S) + wb.rows[k].share
<1> DEFINE e == [i \in S \cup {k} |-> wb.rows[i].share]
           f == [i \in S |-> wb.rows[i].share]
<1>1. /\ \A i \in S \cup {k} : e[i] \in Int
      /\ \A i \in S : f[i] = e[i]
      /\ e[k] = wb.rows[k].share /\ DOMAIN e = S \cup {k} /\ DOMAIN f = S
  OBVIOUS
<1>2. /\ SheetTotal(wb, S \cup {k}) = SumFunctionOnSet(e, S \cup {k})
      /\ SheetTotal(wb, S) = SumFunctionOnSet(f, S)
  BY <1>1 DEF SheetTotal, SumFunction
<1> HIDE DEF e, f
<1>3. SumFunctionOnSet(e, S \cup {k}) = SumFunctionOnSet(e, S) + e[k]
  <2>1. IntsOn(e, S \cup {k})
    BY <1>1, FS_AddElement DEF IntsOn
  <2> QED
    BY <2>1, SumWith
<1>4. SumFunctionOnSet(f, S) = SumFunctionOnSet(e, S)
  BY <1>1, SumOfSame
<1> QED
  BY <1>1, <1>2, <1>3, <1>4

\* The next row of the sheets is the first one not seen.
LEMMA RowAtHand ==
    ASSUME ImportInv, LeftOK, run.pc = "children", run.left # <<>>,
           run'.left = Tail(run.left), run'.wb = run.wb
    PROVE  /\ run.wb.rows \in Seq(ChildRow) /\ Seen \in Nat
           /\ Seen + 1 \in DOMAIN run.wb.rows /\ Row = run.wb.rows[Seen + 1]
           /\ Seen' = Seen + 1 /\ LeftOK'
<1>1. run.wb.rows \in Seq(ChildRow) /\ run.left \in Seq(ChildRow)
  BY ConstantAssumption DEF ImportInv, RunOK
<1>2. /\ Len(run.left) \in Nat /\ Len(run.wb.rows) \in Nat
      /\ Len(run.left) >= 1 /\ DOMAIN run.left = 1..Len(run.left)
      /\ DOMAIN run.wb.rows = 1..Len(run.wb.rows)
      /\ Tail(run.left) \in Seq(ChildRow)
      /\ Len(Tail(run.left)) = Len(run.left) - 1
      /\ \A j \in 1..Len(run.left) - 1 : Tail(run.left)[j] = run.left[j + 1]
      /\ Head(run.left) = run.left[1]
  BY <1>1
<1>3. Seen \in Nat /\ Seen + 1 \in 1..Len(run.wb.rows)
  <2>1. PICK l \in Nat : l = Len(run.left)
    BY <1>2
  <2>2. PICK m \in Nat : m = Len(run.wb.rows)
    BY <1>2
  <2>3. l >= 1 /\ l =< m /\ Seen = m - l
    BY <1>2, <2>1, <2>2 DEF LeftOK, Seen
  <2>4. m - l \in Nat /\ (m - l) + 1 \in 1..m
    BY <2>3
  <2> QED
    BY <2>2, <2>3, <2>4
<1>4. Row = run.wb.rows[Seen + 1]
  <2>1. 1 \in DOMAIN run.left
    BY <1>2
  <2>2. run.left[1] = run.wb.rows[Seen + 1]
    BY <2>1 DEF LeftOK
  <2> QED
    BY <1>2, <2>2 DEF Row
<1>5. Seen' = Seen + 1
  <2>1. PICK l \in Nat : l = Len(run.left)
    BY <1>2
  <2>2. PICK m \in Nat : m = Len(run.wb.rows)
    BY <1>2
  <2>3. Seen = m - l /\ Seen' = m - (l - 1)
    BY <1>2, <2>1, <2>2 DEF Seen
  <2> QED
    BY <2>3
<1>6. LeftOK'
  <2>1. Len(run'.left) =< Len(run'.wb.rows)
    BY <1>2 DEF LeftOK
  <2>2. ASSUME NEW j \in DOMAIN run'.left
        PROVE  run'.left[j] = run'.wb.rows[Seen' + j]
    <3>1. DOMAIN run'.left = 1..Len(run.left) - 1
      BY <1>2
    <3>2. j \in 1..Len(run.left) - 1 /\ j + 1 \in DOMAIN run.left /\ j \in Nat
      BY <1>2, <3>1
    <3>3. run'.left[j] = run.left[j + 1] /\ run.left[j + 1] = run.wb.rows[Seen + (j + 1)]
      BY <1>2, <3>2 DEF LeftOK
    <3>4. Seen' + j = Seen + (j + 1)
      BY <1>3, <1>5, <3>2
    <3> QED
      BY <3>3, <3>4
  <2> QED
    BY <2>1, <2>2 DEF LeftOK
<1> QED
  BY <1>1, <1>2, <1>3, <1>4, <1>5, <1>6

\* The rows seen for owners of n, and what they give, with the row at hand.
LEMMA SheetTotalNext ==
    ASSUME NEW wb, wb.rows \in Seq(ChildRow), NEW n, NEW k \in Nat, k + 1 \in DOMAIN wb.rows
    PROVE  LET before == OwnersUpTo(wb, n, k)
               after  == OwnersUpTo(wb, n, k + 1)
           IN IF k + 1 \in Owners(wb, n)
              THEN /\ SheetTotal(wb, after) = SheetTotal(wb, before) + wb.rows[k + 1].share
                   /\ Cardinality(after) = Cardinality(before) + 1
              ELSE after = before
<1> DEFINE S == {i \in Owners(wb, n) : i =< k}
           T == {i \in Owners(wb, n) : i =< k + 1}
<1>1. /\ DOMAIN wb.rows = 1..Len(wb.rows) /\ Len(wb.rows) \in Nat
      /\ \A i \in DOMAIN wb.rows : wb.rows[i].share \in Int
  <2>1. \A i \in DOMAIN wb.rows : wb.rows[i] \in ChildRow
    OBVIOUS
  <2> QED
    BY <2>1 DEF ChildRow
<1>2. \A i \in Owners(wb, n) : i \in DOMAIN wb.rows /\ i \in Nat
  BY <1>1 DEF Owners
<1>3. CASE k + 1 \in Owners(wb, n)
  <2>1. T = S \cup {k + 1} /\ k + 1 \notin S
    BY <1>2, <1>3
  <2>2. IsFiniteSet(S)
    <3>1. S \subseteq 1..Len(wb.rows)
      BY <1>1, <1>2
    <3>2. IsFiniteSet(1..Len(wb.rows))
      BY <1>1, FS_Interval
    <3> QED
      BY <3>1, <3>2, FS_Subset
  <2>3. \A i \in S \cup {k + 1} : wb.rows[i].share \in Int
    BY <1>1, <1>2, <1>3
  <2> HIDE DEF S, T
  <2>4. SheetTotal(wb, S \cup {k + 1}) = SheetTotal(wb, S) + wb.rows[k + 1].share
    BY <2>1, <2>2, <2>3, SheetTotalWith
  <2>5. /\ SheetTotal(wb, T) = SheetTotal(wb, S) + wb.rows[k + 1].share
        /\ Cardinality(T) = Cardinality(S) + 1
    BY <2>1, <2>2, <2>4, FS_AddElement
  <2> QED
    BY <1>3, <2>5 DEF S, T, OwnersUpTo
<1>4. CASE k + 1 \notin Owners(wb, n)
  <2>1. T = S
    BY <1>2, <1>4
  <2> QED
    BY <1>4, <2>1 DEF OwnersUpTo
<1> QED
  BY <1>3, <1>4

\* The owners of the entity of n before and after one row, which adds one if it
\* is a row for an owner of n.
RowAddsOwner(new, n) ==
    IF Row.sheet = "Owners" /\ Row.name = n
    THEN \E c : /\ Owned(new, run.ids[n]) = Owned(run.adds, run.ids[n]) \cup {c}
                /\ c \notin Owned(run.adds, run.ids[n]) /\ c.share = Stored(Row.share)
    ELSE Owned(new, run.ids[n]) = Owned(run.adds, run.ids[n])

\* A step on one row.
LEMMA RowSums ==
    ASSUME SharesInv, run.pc = "children", run.left # <<>>, ~run.dry,
           NEW new, Numbered(new), NEW t,
           run' = [run EXCEPT !.left = Tail(@), !.adds = new, !.tally = t],
           Unchanged,
           \A n \in DOMAIN run.ids :
              Owned(children, run.ids[n]) = {} => RowAddsOwner(new, n)
    PROVE  SumsOK'
<1>1. /\ run'.left = Tail(run.left) /\ run'.wb = run.wb /\ run'.ids = run.ids
      /\ run'.adds = new /\ children' = children
  BY DEF SharesInv, RepeatInv, ImportInv, RunOK, Fields, Unchanged
<1>2. /\ run.wb.rows \in Seq(ChildRow) /\ Seen \in Nat
      /\ Seen + 1 \in DOMAIN run.wb.rows /\ Row = run.wb.rows[Seen + 1]
      /\ Seen' = Seen + 1 /\ LeftOK'
  BY <1>1, RowAtHand DEF SharesInv, RepeatInv, SumsOK
<1>3. OneNameOK' /\ Numbered(run.adds)'
  BY <1>1 DEF SharesInv, SumsOK, OneNameOK, Numbered
<1>4. IsFiniteSet(run.adds) /\ \A c \in run.adds : c.share \in Int
  BY DEF SharesInv, SumsOK, Numbered, RepeatInv, WrittenOK
<1>5. ASSUME NEW n \in DOMAIN run.ids, Owned(children, run.ids[n]) = {}
      PROVE  LET after == OwnersUpTo(run.wb, n, Seen + 1)
             IN Near(Total(Owned(new, run.ids[n])), SheetTotal(run.wb, after), Cardinality(after))
  <2> DEFINE own    == Owned(run.adds, run.ids[n])
             before == OwnersUpTo(run.wb, n, Seen)
             after  == OwnersUpTo(run.wb, n, Seen + 1)
  <2>1. Near(Total(own), SheetTotal(run.wb, before), Cardinality(before))
    BY <1>5 DEF SharesInv, SumsOK, SharesOK, OwnersSeen
  <2>2. IF Seen + 1 \in Owners(run.wb, n)
        THEN /\ SheetTotal(run.wb, after) = SheetTotal(run.wb, before) + Row.share
             /\ Cardinality(after) = Cardinality(before) + 1
        ELSE after = before
    BY <1>2, SheetTotalNext
  <2>3. Seen + 1 \in Owners(run.wb, n) <=> Row.sheet = "Owners" /\ Row.name = n
    BY <1>2 DEF Owners
  <2>4. RowAddsOwner(new, n)
    BY <1>5
  <2>5. IsFiniteSet(own) /\ \A d \in own : d.share \in Int
    <3>1. own \subseteq run.adds
      BY DEF Owned
    <3> QED
      BY <1>4, <3>1, FS_Subset
  <2>6. Row.share \in Nat /\ Stored(Row.share) \in Int
    <3>1. Row \in ChildRow
      BY <1>2
    <3>2. Row.share \in Nat
      BY <3>1 DEF ChildRow
    <3> QED
      BY <3>2, RoundsToNearest
  <2> HIDE DEF own, before, after
  <2>7. CASE Row.sheet = "Owners" /\ Row.name = n
    <3>1. PICK c : /\ Owned(new, run.ids[n]) = own \cup {c}
                   /\ c \notin own /\ c.share = Stored(Row.share)
      BY <2>4, <2>7 DEF RowAddsOwner, own
    <3>2. Total(own \cup {c}) = Total(own) + c.share
      BY <2>5, <2>6, <3>1, TotalWith
    <3>3. Near(Total(own) + Stored(Row.share), SheetTotal(run.wb, before) + Row.share,
               Cardinality(before) + 1)
      BY <2>1, <2>6, NearNext
    <3>4. Near(Total(Owned(new, run.ids[n])), SheetTotal(run.wb, after), Cardinality(after))
      BY <2>2, <2>3, <2>7, <3>1, <3>2, <3>3
    <3> QED
      BY <3>4 DEF after
  <2>8. CASE ~(Row.sheet = "Owners" /\ Row.name = n)
    <3>1. Owned(new, run.ids[n]) = own
      BY <2>4, <2>8 DEF RowAddsOwner, own
    <3>2. Near(Total(Owned(new, run.ids[n])), SheetTotal(run.wb, after), Cardinality(after))
      BY <2>1, <2>2, <2>3, <2>8, <3>1
    <3> QED
      BY <3>2 DEF after
  <2> QED
    BY <2>7, <2>8
<1>6. SharesOK'
  <2>1. \A n : OwnersSeen(n)' = OwnersUpTo(run.wb, n, Seen + 1)
    BY <1>1, <1>2 DEF OwnersSeen
  <2>2. ASSUME NEW n \in DOMAIN run'.ids, Owned(children', run'.ids[n]) = {}
        PROVE  Near(Total(Owned(run'.adds, run'.ids[n])),
                    SheetTotal(run'.wb, OwnersSeen(n)'), Cardinality(OwnersSeen(n)'))
    BY <1>1, <1>5, <2>1, <2>2
  <2> QED
    BY <2>2 DEF SharesOK
<1> QED
  BY <1>2, <1>3, <1>6 DEF SumsOK

\* The ids are read: nothing is seen and nothing collected, and a live entity
\* has one name.
LEMMA ReloadSums ==
    ASSUME SharesInv, Reload
    PROVE  SumsOK'
<1>1. PICK found, ids :
        /\ ids \in [found -> Ids]
        /\ \A n \in found : ids[n] \in Named(n)
        /\ run' = [run EXCEPT !.pc = "children", !.left = run.wb.rows, !.ids = ids]
  BY DEF Reload
<1>2. /\ run.pc = "entities" /\ run.wb \in Workbooks /\ run.adds = {}
  BY DEF Reload, SharesInv, RepeatInv, ImportInv, RunOK
<1>3. /\ run'.left = run.wb.rows /\ run'.wb = run.wb /\ run'.ids = ids
      /\ run'.adds = {}
  BY <1>1, <1>2 DEF SharesInv, RepeatInv, ImportInv, RunOK, Fields
<1>4. run.wb.rows \in Seq(ChildRow)
  BY <1>2, ConstantAssumption
<1>5. Len(run.wb.rows) \in Nat /\ DOMAIN run.wb.rows = 1..Len(run.wb.rows)
  BY <1>4
<1>6. Seen' = 0
  BY <1>3, <1>5 DEF Seen
<1>7. LeftOK'
  BY <1>3, <1>5, <1>6 DEF LeftOK
<1>8. OneNameOK'
  BY <1>1, <1>3 DEF OneNameOK, Named
<1>9. Numbered(run.adds)'
  BY <1>3 DEF Numbered
<1>10. SharesOK'
  <2> SUFFICES ASSUME NEW n \in DOMAIN run'.ids
               PROVE  Near(Total(Owned(run'.adds, run'.ids[n])),
                           SheetTotal(run'.wb, OwnersSeen(n)'), Cardinality(OwnersSeen(n)'))
    BY DEF SharesOK
  <2>1. Owned(run'.adds, run'.ids[n]) = {}
    BY <1>3 DEF Owned
  <2>2. OwnersSeen(n)' = {}
    BY <1>3, <1>5, <1>6 DEF Owners, OwnersSeen, OwnersUpTo
  <2>3. Near(0, 0, 0)
    BY ConstantAssumption DEF Near
  <2>4. Total({}) = 0 /\ SheetTotal(run'.wb, {}) = 0 /\ Cardinality({}) = 0
    BY TotalOfNone, SheetTotalOfNone, FS_EmptySet
  <2> QED
    BY <2>1, <2>2, <2>3, <2>4
<1> QED
  BY <1>7, <1>8, <1>9, <1>10 DEF SumsOK

\* A looked-up row that was not found has no earlier copy of its number.
LEMMA NextCopy ==
    ASSUME NEW S, IsFiniteSet(S), Numbered(S),
           NEW c, c.sheet \notin Upserted, c.share \in Int, Copies(children, c) = {},
           c.copy = 1 + Cardinality(Copies(S, c))
    PROVE  c \notin S /\ Numbered(S \cup {c})
<1>1. /\ \A d : IsFiniteSet(Copies(S, d)) /\ IsFiniteSet(Copies(S \cup {c}, d))
      /\ \A d : Copies(S, d) \subseteq Copies(S \cup {c}, d)
  <2>1. IsFiniteSet(S \cup {c})
    BY FS_AddElement
  <2>2. ASSUME NEW d PROVE /\ Copies(S, d) \subseteq S
                           /\ Copies(S \cup {c}, d) \subseteq S \cup {c}
                           /\ Copies(S, d) \subseteq Copies(S \cup {c}, d)
    BY DEF Copies
  <2> QED
    BY <2>1, <2>2, FS_Subset
<1>2. Cardinality(Copies(S, c)) \in Nat
  BY <1>1, FS_CardinalityType
<1>3. c \notin S
  <2>1. ~(c.copy =< Cardinality(Copies(S, c)))
    BY <1>2
  <2> QED
    BY <2>1 DEF Numbered
<1>4. ASSUME NEW d \in S \cup {c}
      PROVE  /\ d.share \in Int /\ d.copy \in Nat
             /\ d.sheet \notin Upserted => /\ Copies(children, d) = {}
                                           /\ d.copy =< Cardinality(Copies(S \cup {c}, d))
  <2>1. CASE d = c
    <3>1. Copies(S \cup {c}, c) = Copies(S, c) \cup {c} /\ c \notin Copies(S, c)
      BY <1>3 DEF Copies
    <3>2. Cardinality(Copies(S \cup {c}, c)) = Cardinality(Copies(S, c)) + 1
      BY <1>1, <3>1, FS_AddElement
    <3>3. c.copy \in Nat /\ c.copy =< Cardinality(Copies(S \cup {c}, c))
      BY <1>2, <3>2
    <3> QED
      BY <2>1, <3>3
  <2>2. CASE d \in S
    <3>1. /\ d.share \in Int /\ d.copy \in Nat
          /\ d.sheet \notin Upserted => /\ Copies(children, d) = {}
                                        /\ d.copy =< Cardinality(Copies(S, d))
      BY <2>2 DEF Numbered
    <3>2. /\ Cardinality(Copies(S, d)) =< Cardinality(Copies(S \cup {c}, d))
          /\ Cardinality(Copies(S, d)) \in Nat
          /\ Cardinality(Copies(S \cup {c}, d)) \in Nat
      BY <1>1, FS_Subset, FS_CardinalityType
    <3>3. d.copy =< Cardinality(Copies(S, d)) => d.copy =< Cardinality(Copies(S \cup {c}, d))
      BY <3>1, <3>2
    <3> QED
      BY <3>1, <3>3
  <2> QED
    BY <2>1, <2>2
<1> QED
  BY <1>3, <1>4 DEF Numbered

LEMMA SkipSums ==
    ASSUME SharesInv, SkipUnresolved
    PROVE  SumsOK'
<1>1. /\ run.pc = "children" /\ run.left # <<>> /\ ~run.dry /\ ~Resolved /\ Unchanged
      /\ run' = [run EXCEPT !.left = Tail(@), !.tally = Count("skipped")]
  BY DEF SkipUnresolved
<1> DEFINE t == Count("skipped")
<1> HIDE DEF t
<1>2. run' = [run EXCEPT !.left = Tail(@), !.adds = run.adds, !.tally = t]
  BY <1>1 DEF SharesInv, RepeatInv, ImportInv, RunOK, Fields, t
<1>3. Numbered(run.adds)
  BY <1>1 DEF SharesInv, SumsOK
<1>4. \A n \in DOMAIN run.ids : RowAddsOwner(run.adds, n)
  BY <1>1 DEF RowAddsOwner, Resolved
<1> QED
  BY <1>1, <1>2, <1>3, <1>4, RowSums

LEMMA LookUpSums ==
    ASSUME SharesInv, LookUp
    PROVE  SumsOK'
<1>1. /\ run.pc = "children" /\ run.left # <<>> /\ ~run.dry /\ Resolved /\ Unchanged
      /\ Row.sheet \notin Upserted
  BY DEF LookUp
<1> DEFINE d == Child(Row, run.ids[Row.name], 1)
           k == 1 + Cardinality(Copies(children \cup run.adds, d))
           c == [d EXCEPT !.copy = k]
<1>2. \/ /\ Found(c) = {}
         /\ run' = [run EXCEPT !.left = Tail(@), !.adds = @ \cup {c}, !.tally = Count("inserted")]
      \/ /\ Cardinality(Found(c)) = 1
         /\ run' = [run EXCEPT !.left = Tail(@), !.tally = Count("skipped")]
  BY DEF LookUp
<1>3. /\ c.sheet = Row.sheet /\ c.entity = run.ids[Row.name] /\ c.key = Row.key
      /\ c.share = Stored(Row.share) /\ c.copy = k
      /\ d.sheet = Row.sheet /\ d.entity = run.ids[Row.name] /\ d.key = Row.key
  BY DEF Child
<1>4. /\ Numbered(run.adds) /\ OneNameOK /\ IsFiniteSet(run.adds)
      /\ DOMAIN run = Fields
  BY <1>1 DEF SharesInv, SumsOK, RepeatInv, ImportInv, RunOK, WrittenOK
<1>5. Stored(Row.share) \in Int
  <2>1. Row \in ToSet(run.wb.rows) /\ run.wb.rows \in Seq(ChildRow)
    BY <1>1, NextRow, ConstantAssumption DEF SharesInv, RepeatInv, ImportInv, RunOK
  <2>2. Row \in ChildRow
    BY <2>1 DEF ToSet
  <2>3. Row.share \in Nat
    BY <2>2 DEF ChildRow
  <2> QED
    BY <2>3, RoundsToNearest
<1>6. k = 1 + Cardinality(Copies(children \cup run.adds, d))
  OBVIOUS
<1> HIDE DEF c, d, k
<1>7. CASE Found(c) = {}
           /\ run' = [run EXCEPT !.left = Tail(@), !.adds = @ \cup {c}, !.tally = Count("inserted")]
  <2>1. Copies(children, c) = {}
    BY <1>7 DEF Found
  <2>2. Copies(children \cup run.adds, d) = Copies(run.adds, c)
    BY <1>3, <2>1 DEF Copies
  <2>3. c \notin run.adds /\ Numbered(run.adds \cup {c})
    BY <1>1, <1>3, <1>4, <1>5, <1>6, <2>1, <2>2, NextCopy
  <2>4. ASSUME NEW n \in DOMAIN run.ids PROVE RowAddsOwner(run.adds \cup {c}, n)
    <3>1. CASE Row.sheet = "Owners" /\ Row.name = n
      <4>1. /\ Owned(run.adds \cup {c}, run.ids[n]) = Owned(run.adds, run.ids[n]) \cup {c}
            /\ c \notin Owned(run.adds, run.ids[n])
        BY <1>3, <2>3, <3>1 DEF Owned
      <4> QED
        BY <1>3, <3>1, <4>1 DEF RowAddsOwner
    <3>2. CASE ~(Row.sheet = "Owners" /\ Row.name = n)
      <4>1. c.sheet # "Owners" \/ c.entity # run.ids[n]
        BY <1>1, <1>3, <1>4, <3>2 DEF OneNameOK, Resolved
      <4>2. Owned(run.adds \cup {c}, run.ids[n]) = Owned(run.adds, run.ids[n])
        BY <4>1 DEF Owned
      <4> QED
        BY <3>2, <4>2 DEF RowAddsOwner
    <3> QED
      BY <3>1, <3>2
  <2> DEFINE new == run.adds \cup {c}
             t   == Count("inserted")
  <2>5. run' = [run EXCEPT !.left = Tail(@), !.adds = new, !.tally = t]
    BY <1>7
  <2> HIDE DEF new, t
  <2>6. Numbered(new) /\ \A n \in DOMAIN run.ids : RowAddsOwner(new, n)
    BY <2>3, <2>4 DEF new
  <2> QED
    BY <1>1, <2>5, <2>6, RowSums
<1>8. CASE Cardinality(Found(c)) = 1
           /\ run' = [run EXCEPT !.left = Tail(@), !.tally = Count("skipped")]
  <2>1. Found(c) # {}
    <3>1. Cardinality({}) = 0
      BY FS_EmptySet
    <3> QED
      BY <1>8, <3>1
  <2>2. ASSUME NEW n \in DOMAIN run.ids, Owned(children, run.ids[n]) = {}
        PROVE  RowAddsOwner(run.adds, n)
    <3>1. ~(Row.sheet = "Owners" /\ Row.name = n)
      BY <1>3, <2>1, <2>2 DEF Found, Copies, Owned
    <3> QED
      BY <3>1 DEF RowAddsOwner
  <2> DEFINE t == Count("skipped")
  <2> HIDE DEF t
  <2>3. run' = [run EXCEPT !.left = Tail(@), !.adds = run.adds, !.tally = t]
    BY <1>4, <1>8 DEF Fields, t
  <2> QED
    BY <1>1, <1>4, <2>2, <2>3, RowSums
<1> QED
  BY <1>2, <1>7, <1>8 DEF c, d, k

\* An upsert replaces rows of another sheet.
LEMMA UpsertSums ==
    ASSUME SharesInv, UpsertChild
    PROVE  SumsOK'
<1>1. /\ run.pc = "children" /\ run.left # <<>> /\ ~run.dry /\ Unchanged
      /\ Row.sheet \in Upserted
  BY DEF UpsertChild
<1> DEFINE c   == Child(Row, run.ids[Row.name], 1)
           old == Copies(children \cup run.adds, c)
           new == (run.adds \ old) \cup {c}
           t   == Count(IF old = {} THEN "inserted" ELSE "updated")
<1>2. run' = [run EXCEPT !.left = Tail(@), !.adds = new, !.tally = t]
  BY DEF UpsertChild
<1>3. c.sheet = Row.sheet /\ c.share = Stored(Row.share) /\ c.copy = 1
  BY DEF Child
<1>4. \A e \in old : e.sheet = c.sheet
  BY DEF Copies
<1>5. Stored(Row.share) \in Int
  <2>1. Row \in ToSet(run.wb.rows) /\ run.wb.rows \in Seq(ChildRow)
    BY <1>1, NextRow, ConstantAssumption DEF SharesInv, RepeatInv, ImportInv, RunOK
  <2>2. Row \in ChildRow
    BY <2>1 DEF ToSet
  <2>3. Row.share \in Nat
    BY <2>2 DEF ChildRow
  <2> QED
    BY <2>3, RoundsToNearest
<1>6. Numbered(run.adds)
  BY <1>1 DEF SharesInv, SumsOK
<1>7. new = (run.adds \ old) \cup {c}
  OBVIOUS
<1> HIDE DEF c, old, new, t
<1>8. Numbered(new)
  <2> SUFFICES ASSUME NEW e \in new
               PROVE  /\ e.share \in Int /\ e.copy \in Nat
                      /\ e.sheet \notin Upserted => /\ Copies(children, e) = {}
                                                    /\ e.copy =< Cardinality(Copies(new, e))
    BY DEF Numbered
  <2>1. CASE e = c
    BY <1>1, <1>3, <1>5, <2>1
  <2>2. CASE e \in run.adds
    <3>1. e.sheet \notin Upserted => Copies(new, e) = Copies(run.adds, e)
      BY <1>1, <1>3, <1>4, <1>7 DEF Copies
    <3> QED
      BY <1>6, <2>2, <3>1 DEF Numbered
  <2> QED
    BY <1>7, <2>1, <2>2
<1>9. Row.sheet # "Owners"
  BY <1>1 DEF Upserted
<1>10. ASSUME NEW n \in DOMAIN run.ids PROVE RowAddsOwner(new, n)
  <2>1. Owned(new, run.ids[n]) = Owned(run.adds, run.ids[n])
    BY <1>3, <1>4, <1>7, <1>9 DEF Owned
  <2> QED
    BY <1>9, <2>1 DEF RowAddsOwner
<1> QED
  BY <1>1, <1>2, <1>8, <1>10, RowSums

\* Others, and the steps that end an import, leave nothing to say.
LEMMA SharesNext ==
    ASSUME SharesInv, [Next]_vars
    PROVE  SharesInv'
<1>1. RepeatInv'
  BY RepeatNext DEF SharesInv
<1> SUFFICES SumsOK'
  BY <1>1 DEF SharesInv
<1>2. DOMAIN run = Fields
  BY DEF SharesInv, RepeatInv, ImportInv, RunOK
<1>3. ASSUME run' = run, children' = children PROVE SumsOK'
  <2>1. /\ LeftOK' = LeftOK /\ OneNameOK' = OneNameOK
        /\ Numbered(run.adds)' = Numbered(run.adds) /\ SharesOK' = SharesOK
    BY <1>3 DEF LeftOK, OneNameOK, Numbered, SharesOK, OwnersSeen, Seen
  <2> QED
    BY <1>3, <2>1 DEF SharesInv, SumsOK
<1>4. ASSUME run'.pc # "children" PROVE SumsOK'
  BY <1>4 DEF SumsOK
<1>5. CASE Start
  <2>1. PICK wb \in Workbooks, dry \in BOOLEAN :
          /\ run.pc = "idle"
          /\ run' = IF HasErrors(wb) \/ Uncheckable(wb) THEN run
                    ELSE [Idle EXCEPT !.pc = "entities", !.wb = wb, !.dry = dry,
                                      !.left = wb.entities, !.since = edits]
    BY <1>5 DEF Start
  <2>2. run'.pc # "children"
    BY <2>1, IdleFields DEF Fields
  <2> QED
    BY <1>4, <2>2
<1>6. CASE UpdateEntity \/ InsertEntity
  <2>1. PICK w, t : run' = [run EXCEPT !.left = Tail(@), !.tally = t, !.work = w]
    BY <1>6 DEF UpdateEntity, InsertEntity
  <2>2. run.pc = "entities"
    BY <1>6 DEF UpdateEntity, InsertEntity
  <2> QED
    BY <1>2, <1>4, <2>1, <2>2 DEF Fields
<1>7. CASE Reload
  BY <1>7, ReloadSums
<1>8. CASE SkipUnresolved
  BY <1>8, SkipSums
<1>9. CASE LookUp
  BY <1>9, LookUpSums
<1>10. CASE UpsertChild
  BY <1>10, UpsertSums
<1>11. CASE DryRow
  <2>1. run.dry /\ run'.dry = run.dry
    BY <1>2, <1>11 DEF DryRow, Fields
  <2> QED
    BY <2>1 DEF SumsOK
<1>12. CASE RowRaises \/ Commit \/ EndWithoutCommit \/ Fault
  BY <1>4, <1>12, IdleFields DEF RowRaises, Commit, EndWithoutCommit, Fault, Abandon
<1>13. CASE ApiCreate \/ ApiDelete \/ ApiUpdate \/ GenerateFails
  BY <1>3, <1>13 DEF ApiCreate, ApiDelete, ApiUpdate, GenerateFails
<1>14. CASE Clear \/ Generate
  BY <1>4, <1>14 DEF Clear, Generate
<1>15. CASE UNCHANGED vars
  BY <1>3, <1>15 DEF vars
<1> QED
  BY <1>5, <1>6, <1>7, <1>8, <1>9, <1>10, <1>11, <1>12, <1>13, <1>14, <1>15
  DEF Next, Importer, Others

\* What an import commits for the owners of an entity without owners is what
\* the whole sheet gives them, but for the rounding.
LEMMA CommitShares ==
    ASSUME SharesInv, Commit, ~SharesWarned(run.wb), NEW n \in DOMAIN run.ids,
           Owners(run.wb, n) # {}, Owned(children, run.ids[n]) = {}
    PROVE  LET k == Cardinality(Owners(run.wb, n))
           IN 2 * Total(Owned(children', run.ids[n])) \in 20000 - k .. 20000 + k
<1>1. /\ run.pc = "children" /\ run.left = <<>> /\ ~run.dry
      /\ children' = (children \ Written) \cup run.adds
  BY DEF Commit
<1>2. run.wb.rows \in Seq(ChildRow)
  BY <1>1, ConstantAssumption DEF SharesInv, RepeatInv, ImportInv, RunOK
<1>3. n \in Names
  <2>1. PICK i \in DOMAIN run.wb.rows : run.wb.rows[i].name = n
    BY DEF Owners
  <2>2. run.wb.rows[i] \in ChildRow
    BY <1>2
  <2> QED
    BY <2>1, <2>2 DEF ChildRow
<1>4. SheetTotal(run.wb, Owners(run.wb, n)) = Whole
  BY <1>3 DEF SharesWarned
<1>5. Owned(children', run.ids[n]) = Owned(run.adds, run.ids[n])
  BY <1>1 DEF Owned
<1>6. OwnersSeen(n) = Owners(run.wb, n)
  <2>1. DOMAIN run.wb.rows = 1..Len(run.wb.rows) /\ Len(run.wb.rows) \in Nat
    BY <1>2
  <2>2. Seen = Len(run.wb.rows)
    BY <1>1, <2>1 DEF Seen
  <2> QED
    BY <2>1, <2>2 DEF Owners, OwnersSeen, OwnersUpTo
<1> DEFINE t == Total(Owned(run.adds, run.ids[n]))
           k == Cardinality(Owners(run.wb, n))
<1>7. Near(t, Whole, k)
  BY <1>1, <1>4, <1>6 DEF SharesInv, SumsOK, SharesOK
<1> HIDE DEF t, k
<1>8. 2 * t \in 20000 - k .. 20000 + k
  BY <1>7, NearWhole
<1> QED
  BY <1>5, <1>8 DEF t, k

\* A sum is that of the images under a bijection.
LEMMA SumOfImages ==
    ASSUME NEW S, NEW T, NEW b \in Bijection(S, T), NEW e, NEW f, IntsOn(e, S),
           \A x \in S : f[b[x]] = e[x]
    PROVE  SumFunctionOnSet(f, T) = SumFunctionOnSet(e, S)
<1> DEFINE Im(U)  == {b[x] : x \in U}
           Fits(U) == /\ IsFiniteSet(Im(U))
                      /\ SumFunctionOnSet(f, Im(U)) = SumFunctionOnSet(e, U)
           Bad == {U \in SUBSET S : ~Fits(U)}
<1>0. /\ T = Im(S) /\ \A x, y \in S : b[x] = b[y] => x = y
      /\ IsFiniteSet(S) /\ \A x \in S : e[x] \in Int
  BY DEF Bijection, Surjection, Injection, IsInjective, IntsOn
<1> SUFFICES ASSUME Bad # {} PROVE FALSE
  BY <1>0
<1>1. \A U \in Bad : IsFiniteSet(U) /\ U \in SUBSET S /\ ~Fits(U)
  BY <1>0, FS_Subset
<1>2. \A U \in SUBSET S : U \notin Bad => Fits(U)
  OBVIOUS
<1> HIDE DEF Bad, Fits
<1>3. PICK U \in Bad : \A V \in Bad : Cardinality(U) <= Cardinality(V)
  BY <1>1, Smallest
<1>4. IsFiniteSet(U) /\ U \in SUBSET S /\ ~Fits(U)
  BY <1>1
<1>5. U # {}
  <2>1. Im({}) = {} /\ IsFiniteSet({})
    BY FS_EmptySet
  <2>2. Fits({})
    BY <2>1, SumOfNone DEF Fits
  <2> QED
    BY <1>4, <2>2
<1>6. PICK z \in U : TRUE
  BY <1>5
<1> DEFINE V == U \ {z}
<1>7. V \notin Bad /\ V \in SUBSET S /\ IsFiniteSet(V) /\ V \cup {z} = U /\ z \notin V
  <2>1. IsFiniteSet(V) /\ ~(Cardinality(U) <= Cardinality(V))
    BY <1>4, OneLess
  <2> QED
    BY <1>3, <1>4, <2>1
<1>8. Fits(V)
  BY <1>2, <1>7
<1> HIDE DEF V
<1>9. Im(U) = Im(V) \cup {b[z]} /\ b[z] \notin Im(V)
  <2>1. \A x \in V : x \in S /\ x # z
    BY <1>7
  <2>2. z \in S
    BY <1>4
  <2> QED
    BY <1>0, <1>7, <2>1, <2>2
<1>10. \A y \in Im(V) \cup {b[z]} : f[y] \in Int
  BY <1>0, <1>4, <1>7
<1> HIDE DEF Im
<1>11. IsFiniteSet(Im(V)) /\ SumFunctionOnSet(f, Im(V)) = SumFunctionOnSet(e, V)
  BY <1>8 DEF Fits
<1>12. IsFiniteSet(Im(U))
  BY <1>9, <1>11, FS_AddElement
<1>13. SumFunctionOnSet(f, Im(V) \cup {b[z]}) = SumFunctionOnSet(f, Im(V)) + f[b[z]]
  <2> DEFINE W == Im(V)
             w == b[z]
  <2>1. IntsOn(f, W \cup {w}) /\ w \notin W
    BY <1>9, <1>10, <1>11, FS_AddElement DEF IntsOn
  <2> HIDE DEF W, w
  <2>2. SumFunctionOnSet(f, W \cup {w}) = SumFunctionOnSet(f, W) + f[w]
    BY <2>1, SumWith
  <2> QED
    BY <2>2 DEF W, w
<1>14. SumFunctionOnSet(e, V \cup {z}) = SumFunctionOnSet(e, V) + e[z]
  <2>1. IntsOn(e, V \cup {z}) /\ z \notin V
    BY <1>0, <1>4, <1>7 DEF IntsOn
  <2> QED
    BY <2>1, SumWith
<1>15. f[b[z]] = e[z]
  BY <1>4
<1>16. SumFunctionOnSet(f, Im(U)) = SumFunctionOnSet(e, U)
  BY <1>7, <1>9, <1>11, <1>13, <1>14, <1>15
<1> QED
  BY <1>4, <1>12, <1>16 DEF Fits

\* The shares that the generator draws are integers that make 100 percent.
LEMMA DrawnShares ==
    ASSUME NEW shares \in Shares
    PROVE  /\ IsFiniteSet(DOMAIN shares) /\ DOMAIN shares \subseteq Nat
           /\ \A k \in DOMAIN shares : shares[k] \in Int
           /\ SumFunctionOnSet(shares, DOMAIN shares) = 10000
<1>1. PICK n \in Counts :
        shares \in {[k \in 1..n |-> IF k < n THEN d[k] ELSE Rest(d)] : d \in [1..n - 1 -> Draws]}
  BY DEF Shares
<1>2. PICK d \in [1..n - 1 -> Draws] : shares = [k \in 1..n |-> IF k < n THEN d[k] ELSE Rest(d)]
  BY <1>1
<1>3. n \in Nat /\ n > 0 /\ Draws \subseteq Nat
  BY ConstantAssumption
<1> DEFINE S == 1..n - 1
<1>4. /\ 1..n = S \cup {n} /\ n \notin S /\ S \subseteq Nat /\ n - 1 \in Nat
  BY <1>3
<1>5. IsFiniteSet(S) /\ IsFiniteSet(1..n)
  BY <1>3, <1>4, FS_Interval
<1>6. DOMAIN shares = S \cup {n}
  BY <1>2, <1>4
<1>7. \A k \in S : shares[k] = d[k] /\ d[k] \in Int
  <2>1. \A k \in S : k \in 1..n /\ k < n
    BY <1>3
  <2>2. \A k \in S : d[k] \in Draws
    OBVIOUS
  <2> HIDE DEF S
  <2>3. \A k \in S : shares[k] = d[k]
    BY <1>2, <2>1
  <2>4. \A x \in Draws : x \in Int
    BY <1>3
  <2> QED
    BY <2>2, <2>3, <2>4, Zenon
<1>8. shares[n] = Rest(d)
  BY <1>2, <1>3
<1>9. DOMAIN d = S
  BY <1>2
<1> HIDE DEF S
<1>10. SumFunctionOnSet(d, S) \in Int
  BY <1>5, <1>7, SumIsInt
<1>11. Rest(d) = 10000 - SumFunctionOnSet(d, S)
  BY <1>9 DEF Rest, SumFunction
<1>12. \A k \in S \cup {n} : shares[k] \in Int
  BY <1>7, <1>8, <1>10, <1>11
<1>13. SumFunctionOnSet(shares, S \cup {n}) = SumFunctionOnSet(d, S) + shares[n]
  <2>0. IntsOn(shares, S \cup {n})
    BY <1>4, <1>5, <1>12 DEF IntsOn
  <2>1. SumFunctionOnSet(shares, S \cup {n}) = SumFunctionOnSet(shares, S) + shares[n]
    BY <1>4, <2>0, SumWith
  <2>2. SumFunctionOnSet(shares, S) = SumFunctionOnSet(d, S)
    BY <1>5, <1>7, SumOfSame
  <2> QED
    BY <2>1, <2>2
<1>14. SumFunctionOnSet(shares, DOMAIN shares) = 10000
  BY <1>6, <1>8, <1>10, <1>11, <1>13
<1>15. IsFiniteSet(DOMAIN shares) /\ DOMAIN shares \subseteq Nat
  BY <1>3, <1>4, <1>5, <1>6
<1> QED
  BY <1>6, <1>12, <1>14, <1>15

\* The owners generated are as many rows as shares, also where their drawn names
\* coincide: they are numbered.
LEMMA GeneratedShares ==
    ASSUME NEW i, NEW shares \in Shares, NEW names
    PROVE  Total(Owned(Generated(i, shares, names), i)) = 10000
<1> DEFINE D == DOMAIN shares
           alike(k) == {j \in 1..k : names[j] = names[k]}
           owner(k) == [sheet |-> "Owners", entity |-> i, key |-> names[k],
                        share |-> shares[k], copy |-> Cardinality(alike(k))]
           b == [k \in D |-> owner(k)]
           O == {b[k] : k \in D}
           f == [c \in O |-> c.share]
<1>1. /\ IsFiniteSet(D) /\ D \subseteq Nat
      /\ \A k \in D : shares[k] \in Int
      /\ SumFunctionOnSet(shares, D) = 10000
  BY DrawnShares
<1> HIDE DEF D
<1>2. Owned(Generated(i, shares, names), i) = O
  <2>1. Generated(i, shares, names) =
          {owner(k) : k \in D}
            \cup {[sheet |-> s, entity |-> i, key |-> CHOOSE k \in Keys : TRUE,
                   share |-> 0, copy |-> 1] : s \in ToSet(Sheets) \ {"Owners"}}
    BY DEF Generated, D
  <2>2. {owner(k) : k \in D} = O
    OBVIOUS
  <2>3. \A c \in O : c.sheet = "Owners" /\ c.entity = i
    <3>1. \A k \in D : b[k] = owner(k) /\ owner(k).sheet = "Owners" /\ owner(k).entity = i
      <4> HIDE DEF alike
      <4> QED
        OBVIOUS
    <3> HIDE DEF b, owner
    <3> QED
      BY <3>1
  <2> HIDE DEF O, owner
  <2> QED
    BY <2>1, <2>2, <2>3 DEF Owned
<1>3. ASSUME NEW k \in D, NEW m \in D, b[k] = b[m], k < m PROVE FALSE
  <2>1. k \in Nat /\ m \in Nat
    BY <1>1
  <2>2. names[k] = names[m] /\ Cardinality(alike(k)) = Cardinality(alike(m))
    <3> HIDE DEF alike
    <3> QED
      BY <1>3
  <2>3. alike(k) \subseteq alike(m) /\ m \in alike(m) /\ m \notin alike(k)
    BY <1>3, <2>1, <2>2
  <2>4. IsFiniteSet(alike(m))
    <3>1. IsFiniteSet(1..m) /\ alike(m) \subseteq 1..m
      BY <2>1, FS_Interval
    <3> QED
      BY <3>1, FS_Subset
  <2> HIDE DEF alike
  <2>5. alike(k) # alike(m)
    BY <2>3
  <2> QED
    BY <2>2, <2>3, <2>4, <2>5, FS_Subset
<1>4. \A k, m \in D : b[k] = b[m] => k = m
  <2> SUFFICES ASSUME NEW k \in D, NEW m \in D, b[k] = b[m], k # m PROVE FALSE
    OBVIOUS
  <2>1. k \in Nat /\ m \in Nat
    BY <1>1
  <2> HIDE DEF b
  <2>2. k < m \/ m < k
    BY <2>1
  <2> QED
    BY <1>3, <2>2
<1>5. \A k \in D : b[k] \in O /\ b[k].share = shares[k]
  OBVIOUS
<1>6. DOMAIN b = D
  OBVIOUS
<1>7. \A k \in D : f[b[k]] = shares[k]
  <2> HIDE DEF O, b
  <2> QED
    BY <1>5
<1>8. O = {b[k] : k \in D}
  OBVIOUS
<1>9. Total(O) = SumFunctionOnSet(f, O)
  <2>1. DOMAIN f = O
    OBVIOUS
  <2> QED
    BY <2>1 DEF Total, SumFunction
<1>10. b \in [D -> O]
  OBVIOUS
<1> HIDE DEF O, b, f
<1>11. b \in Bijection(D, O)
  <2>1. b \in Injection(D, O)
    BY <1>4, <1>6, <1>10 DEF Injection, IsInjective
  <2>2. b \in Surjection(D, O)
    BY <1>8, <1>10 DEF Surjection
  <2> QED
    BY <2>1, <2>2 DEF Bijection
<1>12. SumFunctionOnSet(f, O) = SumFunctionOnSet(shares, D)
  <2>1. IntsOn(shares, D)
    BY <1>1 DEF IntsOn
  <2> QED
    BY <1>7, <1>11, <2>1, SumOfImages
<1> QED
  BY <1>1, <1>2, <1>9, <1>12

\* The entity that the generator adds had no rows in the tables.
LEMMA GenerateShares ==
    ASSUME SharesInv, Generate, NEW i \in Rows(entities') \ Rows(entities)
    PROVE  Total(Owned(children', i)) = 10000
<1>1. PICK j \in Ids, n \in Names, e \in Eins, shares \in Shares :
        \E names \in [DOMAIN shares -> Keys] :
          /\ \A m \in Ids : entities[m] = None
          /\ entities' = [entities EXCEPT ![j] = NewEntity(n, e)]
          /\ children' = children \cup Generated(j, shares, names)
  BY DEF Generate
<1>2. PICK names \in [DOMAIN shares -> Keys] :
        /\ \A m \in Ids : entities[m] = None
        /\ entities' = [entities EXCEPT ![j] = NewEntity(n, e)]
        /\ children' = children \cup Generated(j, shares, names)
  BY <1>1
<1>3. i = j
  BY <1>2 DEF Rows, SharesInv, RepeatInv, TablesOK
<1>4. children = {}
  BY <1>2 DEF Rows, SharesInv, RepeatInv, TablesOK
<1>5. children' = Generated(i, shares, names)
  BY <1>2, <1>3, <1>4
<1> QED
  BY <1>5, GeneratedShares

\* After an import without the warning on shares, the owners of each entity that
\* it named and that had none own 100 percent, give or take half a hundredth for
\* each row, whatever the workbook, the tables and the requests between two
\* statements; and the owners of an entity that the generator adds own exactly
\* 100 percent, whatever it draws.
THEOREM OwnersOwnAll == Spec => StoredSharesSumTo100
<1>1. Init => SharesInv
  BY RepeatInit, IdleFields DEF SharesInv, SumsOK, Init
<1>2. SharesInv /\ [Next]_vars => SharesInv'
  BY SharesNext
<1>3. SharesInv =>
        [/\ Commit /\ ~SharesWarned(run.wb) =>
              \A n \in DOMAIN run.ids :
                 Owners(run.wb, n) # {} /\ Owned(children, run.ids[n]) = {} =>
                    LET k == Cardinality(Owners(run.wb, n))
                    IN 2 * Total(Owned(children', run.ids[n])) \in 20000 - k .. 20000 + k
         /\ Generate => \A i \in Rows(entities') \ Rows(entities) :
                          Total(Owned(children', i)) = 10000]_vars
  <2> SUFFICES ASSUME SharesInv
               PROVE  /\ Commit /\ ~SharesWarned(run.wb) =>
                           \A n \in DOMAIN run.ids :
                              Owners(run.wb, n) # {} /\ Owned(children, run.ids[n]) = {} =>
                                 LET k == Cardinality(Owners(run.wb, n))
                                 IN 2 * Total(Owned(children', run.ids[n])) \in 20000 - k .. 20000 + k
                      /\ Generate => \A i \in Rows(entities') \ Rows(entities) :
                                       Total(Owned(children', i)) = 10000
    OBVIOUS
  <2>1. Commit /\ ~SharesWarned(run.wb) =>
           \A n \in DOMAIN run.ids :
              Owners(run.wb, n) # {} /\ Owned(children, run.ids[n]) = {} =>
                 LET k == Cardinality(Owners(run.wb, n))
                 IN 2 * Total(Owned(children', run.ids[n])) \in 20000 - k .. 20000 + k
    BY CommitShares
  <2>2. Generate => \A i \in Rows(entities') \ Rows(entities) :
                      Total(Owned(children', i)) = 10000
    BY GenerateShares
  <2> QED
    BY <2>1, <2>2
<1> QED
  BY <1>1, <1>2, <1>3, PTL DEF Spec, StoredSharesSumTo100
=============================================================================
