---------------------------- MODULE ExcelImport ------------------------------
(***************************************************************************)
(* scripts/import_excel.py, the workbook importer, and scripts/seed.py,    *)
(* the generator of development data that fills the same tables.           *)
(*                                                                         *)
(* A workbook is validated as a whole; without an error its rows are sent  *)
(* one statement at a time in one transaction: entities are upserted on    *)
(* the EIN, their ids are read back by name, and the five other sheets     *)
(* follow.  Between two statements the entities API may commit a change.   *)
(***************************************************************************)
EXTENDS Integers, Sequences, FiniteSets, FiniteSetsExt, SequencesExt

CONSTANTS
    Ids,        \* ids that entities may get
    Names,      \* legal names
    Eins,
    Keys,       \* what identifies a child row of an entity within its table
    None,
    Workbooks,  \* the workbooks that may be imported
    Counts,     \* how many owners the generator may draw for an entity
    Draws,      \* the shares it may draw for all of them but the last
    Grain,      \* units of a sheet's share in a hundredth of a percent
    MaxRuns,    \* bound on imports
    MaxEdits,   \* bound on the API's changes and the generator's runs
    MaxFaults   \* bound on failures

\* The sheets after the entities, in the order they are written.  A child is
\* looked up before it is added, or upserted under a unique constraint.
Sheets   == <<"Owners", "StateRegistrations", "BankAccounts", "TaxFilings", "RegisteredAgents">>
Upserted == {"StateRegistrations", "RegisteredAgents"}

(***************************************************************************)
(* Flaws of a row: "invalid" is found by the validator; "uncheckable" is a *)
(* number that makes the validator itself raise (a year or share that is   *)
(* infinite or no number); "unreadable" passes it and cannot be converted  *)
(* (an owner's contribution); "refused" passes both, and the database      *)
(* refuses it (an unreadable flag becomes a null, a text is too long).     *)
(***************************************************************************)
EntityRow == [name : Names, ein : Eins, active : BOOLEAN, flaw : {"none", "invalid", "refused"}]
ChildRow  == [sheet : ToSet(Sheets), name : Names, key : Keys, share : Nat,
              flaw : {"none", "invalid", "uncheckable", "unreadable", "refused"}]

\* What an id holds; the API also admits entities without EIN.
Entity == [name : Names, ein : Eins \cup {None}, active : BOOLEAN, deleted : BOOLEAN]

ASSUME ConstantAssumption ==
    /\ \A wb \in Workbooks : wb.entities \in Seq(EntityRow) /\ wb.rows \in Seq(ChildRow)
    /\ IsFiniteSet(Ids) /\ None \notin Ids \cup Eins \cup Entity \cup Workbooks
    /\ {MaxRuns, MaxEdits, MaxFaults} \subseteq Nat
    /\ Counts \subseteq Nat \ {0} /\ Draws \subseteq Nat /\ Grain \in Nat \ {0}

VARIABLES
    entities,   \* the committed table: None, or what an id holds
    children,   \* the committed rows of the other five tables
    run,        \* the importer
    gen,        \* the generator: "idle", or "fill" once it has cleared
    runs, edits, faults,  \* counters of the bounds
    last,       \* the workbook committed last, None once others changed the tables
    touched     \* entities deleted, renamed or deactivated during the current import

vars == <<entities, children, run, gen, runs, edits, faults, last, touched>>

Idle == [pc |-> "idle", wb |-> None, dry |-> FALSE, left |-> <<>>, work |-> <<>>,
         ids |-> <<>>, adds |-> {}, since |-> 0,
         tally |-> [inserted |-> 0, updated |-> 0, skipped |-> 0]]

-----------------------------------------------------------------------------
(* Validation, of the workbook alone.                                       *)

Valid(rows) == SelectSeq(rows, LAMBDA r : r.flaw # "invalid")
Known(wb)   == {r.name : r \in ToSet(Valid(wb.entities))}

\* The validator raises instead of reporting.
Uncheckable(wb) == \E r \in ToSet(wb.rows) : r.flaw = "uncheckable"

Repeated(wb) == Len(Valid(wb.entities)) # Cardinality(Known(wb))

\* A row of any sheet breaks a rule on required fields, values or dates.
Flawed(wb) == \E r \in ToSet(wb.entities) \cup ToSet(wb.rows) : r.flaw = "invalid"

\* A row names no valid entity of the workbook.
Orphaned(wb) == \E r \in ToSet(wb.rows) : r.name \notin Known(wb)

HasErrors(wb) == Flawed(wb) \/ Repeated(wb) \/ Orphaned(wb)

Owners(wb, n) == {i \in DOMAIN wb.rows : wb.rows[i].sheet = "Owners" /\ wb.rows[i].name = n}

\* The share that the rows at the positions S make together, as they were
\* entered, and what 100 percent are.
SheetTotal(wb, S) == SumFunction([i \in S |-> wb.rows[i].share])
Whole == 10000 * Grain

\* Mutant of SharesWarned: only more than 100 is warned of.
SharesAbove(wb) ==
    \E n \in Names : SheetTotal(wb, Owners(wb, n)) > Whole

\* A warning, no error: the sheet's shares of an entity do not make 100.
SharesWarned(wb) ==
    \E n \in Names : Owners(wb, n) # {} /\ SheetTotal(wb, Owners(wb, n)) # Whole

-----------------------------------------------------------------------------
(* The tables as the import's transaction sees them.                        *)

View(i) == IF i \in DOMAIN run.work THEN run.work[i] ELSE entities[i]
Holds(row, ein) == row # None /\ row.ein = ein /\ row.active /\ ~row.deleted
Unused == {i \in Ids : View(i) = None}
Copies(S, c) == {d \in S : d.sheet = c.sheet /\ d.entity = c.entity /\ d.key = c.key}

\* The column of a share has two decimals: the database rounds, half up.
Stored(share) == (share + Grain \div 2) \div Grain
Child(r, i, n) ==
    [sheet |-> r.sheet, entity |-> i, key |-> r.key, share |-> Stored(r.share), copy |-> n]

Count(field) == [run.tally EXCEPT ![field] = @ + 1]

\* The transaction's rows with one more written.
Put(i, row) ==
    [j \in DOMAIN run.work \cup {i} |-> IF j = i THEN row ELSE run.work[j]]

-----------------------------------------------------------------------------
(* The importer.                                                            *)

\* _run_validation_and_import up to the import: a workbook with an error is
\* not imported, and one the validator cannot judge ends with its exception.
Start == \E wb \in Workbooks, dry \in BOOLEAN :
    /\ run.pc = "idle" /\ gen = "idle" /\ runs < MaxRuns
    /\ runs' = runs + 1
    /\ run' = IF HasErrors(wb) \/ Uncheckable(wb) THEN run
              ELSE [Idle EXCEPT !.pc = "entities", !.wb = wb, !.dry = dry,
                                   !.left = wb.entities, !.since = edits]
    /\ touched' = {}
    /\ UNCHANGED <<entities, children, gen, edits, faults, last>>

\* Rolls back: an exception, or the end of a dry run.
Abandon ==
    /\ run' = Idle
    /\ UNCHANGED <<entities, children, gen, runs, edits, last, touched>>

Row == Head(run.left)
Unchanged == UNCHANGED <<entities, children, gen, runs, edits, faults, last, touched>>

\* INSERT ... ON CONFLICT (ein) WHERE is_active AND deleted_at IS NULL: a row
\* that is not active is outside that index and conflicts with nothing.
Conflicting(r) == {i \in Ids : r.active /\ Holds(View(i), r.ein)}

UpdateEntity ==
    /\ run.pc = "entities" /\ run.left # <<>> /\ ~run.dry /\ Row.flaw # "refused"
    /\ \E i \in Conflicting(Row) :
          run' = [run EXCEPT !.left = Tail(@), !.tally = Count("updated"),
                             !.work = Put(i, [View(i) EXCEPT !.active = Row.active])]
    /\ Unchanged

InsertEntity ==
    /\ run.pc = "entities" /\ run.left # <<>> /\ ~run.dry /\ Row.flaw # "refused"
    /\ Conflicting(Row) = {}
    /\ \E i \in Unused :
          run' = [run EXCEPT !.left = Tail(@), !.tally = Count("inserted"),
                             !.work = Put(i, [name |-> Row.name, ein |-> Row.ein,
                                              active |-> Row.active, deleted |-> FALSE])]
    /\ Unchanged

\* Mutant of Named: names of deleted entities are resolved too.
NamedEver(n) == {i \in Ids : View(i) # None /\ View(i).name = n}

\* The ids of the live entities with the sheet's names; of several with one
\* name, the last one read.
Named(n) == {i \in Ids : View(i) # None /\ View(i).name = n /\ View(i).active /\ ~View(i).deleted}

Reload ==
    /\ run.pc = "entities" /\ run.left = <<>>
    /\ LET found == {n \in Known(run.wb) : ~run.dry /\ Named(n) # {}}
       IN \E ids \in [found -> Ids] :
             /\ \A n \in found : ids[n] \in Named(n)
             /\ run' = [run EXCEPT !.pc = "children", !.left = run.wb.rows, !.ids = ids]
    /\ Unchanged

Resolved == Row.name \in DOMAIN run.ids

\* A row whose entity was not found; a dry run goes on to convert it.
SkipUnresolved ==
    /\ run.pc = "children" /\ run.left # <<>> /\ ~run.dry /\ ~Resolved
    /\ run' = [run EXCEPT !.left = Tail(@), !.tally = Count("skipped")]
    /\ Unchanged

\* Mutant of Found: the existing row is not looked for.
FoundNothing(c) == {}

\* What the SELECT for an owner, an account or a filing finds.
Found(c) == Copies(children, c)

\* Owners, accounts and filings: the SELECT reads committed rows, because the
\* session does not flush what it holds.
LookUp ==
    /\ run.pc = "children" /\ run.left # <<>> /\ ~run.dry /\ Resolved
    /\ Row.sheet \notin Upserted /\ Row.flaw # "unreadable"
    /\ LET d == Child(Row, run.ids[Row.name], 1)
           c == [d EXCEPT !.copy = 1 + Cardinality(Copies(children \cup run.adds, d))]
       IN \/ /\ Found(c) = {}
             /\ run' = [run EXCEPT !.left = Tail(@), !.adds = @ \cup {c},
                                   !.tally = Count("inserted")]
          \/ /\ Cardinality(Found(c)) = 1
             /\ run' = [run EXCEPT !.left = Tail(@), !.tally = Count("skipped")]
    /\ Unchanged

\* Registrations and agents: INSERT ... ON CONFLICT DO UPDATE.
UpsertChild ==
    /\ run.pc = "children" /\ run.left # <<>> /\ ~run.dry /\ Resolved
    /\ Row.sheet \in Upserted /\ Row.flaw \notin {"unreadable", "refused"}
    /\ LET c   == Child(Row, run.ids[Row.name], 1)
           old == Copies(children \cup run.adds, c)
       IN run' = [run EXCEPT !.left = Tail(@), !.adds = (@ \ old) \cup {c},
                             !.tally = Count(IF old = {} THEN "inserted" ELSE "updated")]
    /\ Unchanged

\* A dry run converts every row of the sheets and sends nothing.
DryRow ==
    /\ run.pc \in {"entities", "children"} /\ run.left # <<>> /\ run.dry
    /\ Row.flaw # "unreadable"
    /\ run' = [run EXCEPT !.left = Tail(@), !.tally = Count("inserted")]
    /\ Unchanged

\* The row at hand raises: it cannot be converted, the database refuses the
\* statement, or scalar_one_or_none finds two rows.
LookedUp == run.pc = "children" /\ Row.sheet \notin Upserted

RowRaises ==
    /\ run.pc \in {"entities", "children"} /\ run.left # <<>>
    /\ run.dry \/ run.pc = "entities" \/ Resolved
    /\ CASE Row.flaw = "unreadable"      -> TRUE
         [] run.dry                      -> FALSE
         [] LookedUp                     -> Cardinality(Found(Child(Row, run.ids[Row.name], 1))) > 1
         [] OTHER                        -> Row.flaw = "refused"
    /\ Abandon /\ UNCHANGED faults

\* The flush of what session.add collected meets a row the database refuses.
Unflushable == \E r \in ToSet(run.wb.rows) :
    r.flaw = "refused" /\ r.sheet \notin Upserted /\ r.name \in DOMAIN run.ids
        /\ Copies(run.adds, Child(r, run.ids[r.name], 1)) # {}

\* The committed rows that upserts replace.
Written == UNION {Copies(children, c) : c \in {d \in run.adds : d.sheet \in Upserted}}

Commit ==
    /\ run.pc = "children" /\ run.left = <<>> /\ ~run.dry /\ ~Unflushable
    /\ entities' = [i \in Ids |-> View(i)]
    /\ children' = (children \ Written) \cup run.adds
    /\ last' = IF run.since = edits THEN run.wb ELSE None
    /\ run' = Idle
    /\ UNCHANGED <<gen, runs, edits, faults, touched>>

EndWithoutCommit ==
    /\ run.pc = "children" /\ run.left = <<>> /\ (run.dry \/ Unflushable)
    /\ Abandon /\ UNCHANGED faults

\* Any step fails: the connection is lost or the process is ended.
Fault ==
    /\ run.pc # "idle" /\ faults < MaxFaults
    /\ faults' = faults + 1
    /\ Abandon

-----------------------------------------------------------------------------
(* Others: the entities API, one committed request at a time, and the       *)
(* generator while no import runs.  The API waits for rows and index keys   *)
(* that the import holds.                                                   *)

Edit == edits < MaxEdits /\ edits' = edits + 1 /\ last' = None

\* The row may have its EIN as far as the index goes, which only sees active
\* rows; the endpoints' own look at other rows can be outrun by a request.
KeyFree(i, row) == row.active /\ row.ein # None =>
    \A j \in Ids \ {i} : ~Holds(View(j), row.ein) /\ ~Holds(entities[j], row.ein)

ApiCreate == \E i \in Unused, n \in Names, e \in Eins \cup {None}, a \in BOOLEAN :
    LET new == [name |-> n, ein |-> e, active |-> a, deleted |-> FALSE]
    IN /\ gen = "idle" /\ Edit /\ KeyFree(i, new)
       /\ entities' = [entities EXCEPT ![i] = new]
       /\ UNCHANGED <<children, run, gen, runs, faults, touched>>

ApiDelete == \E i \in Ids \ DOMAIN run.work :
    /\ gen = "idle" /\ Edit
    /\ entities[i] # None /\ ~entities[i].deleted
    /\ entities' = [entities EXCEPT ![i].deleted = TRUE]
    /\ touched' = touched \cup {i}
    /\ UNCHANGED <<children, run, gen, runs, faults>>

\* update_entity, which may set any of the fields.
ApiUpdate == \E i \in Ids \ DOMAIN run.work, n \in Names, e \in Eins \cup {None}, a \in BOOLEAN :
    LET old == entities[i]
        new == [old EXCEPT !.name = n, !.ein = e, !.active = a]
    IN /\ gen = "idle" /\ Edit
       /\ old # None /\ ~old.deleted /\ new # old /\ KeyFree(i, new)
       /\ entities' = [entities EXCEPT ![i] = new]
       /\ touched' = IF n # old.name \/ (old.active /\ ~a) THEN touched \cup {i} ELSE touched
       /\ UNCHANGED <<children, run, gen, runs, faults>>

\* clear_all_data: its own commit, before anything is generated.
Clear ==
    /\ run.pc = "idle" /\ gen = "idle" /\ Edit
    /\ entities' = [i \in Ids |-> None] /\ children' = {}
    /\ gen' = "fill"
    /\ UNCHANGED <<run, runs, faults, touched>>

\* create_owners: all shares but the last are drawn, in hundredths of a percent,
\* the last one is the rest.
Rest(d) == 10000 - SumFunction(d)
Shares  == UNION {{[k \in 1..n |-> IF k < n THEN d[k] ELSE Rest(d)] : d \in [1..n - 1 -> Draws]}
                    : n \in Counts}

\* create_entity.
NewEntity(n, e) == [name |-> n, ein |-> e, active |-> TRUE, deleted |-> FALSE]

\* The other create_* functions, but for the documents: its owners (whose
\* drawn names may coincide), and one row in every other sheet.
Generated(i, shares, names) ==
    {[sheet |-> "Owners", entity |-> i, key |-> names[k], share |-> shares[k],
      copy |-> Cardinality({j \in 1..k : names[j] = names[k]})] : k \in DOMAIN shares}
        \cup {[sheet |-> s, entity |-> i, key |-> CHOOSE k \in Keys : TRUE, share |-> 0, copy |-> 1] :
                 s \in ToSet(Sheets) \ {"Owners"}}

\* seed_database: refused when any entity exists; one entity, one commit.
Generate == \E i \in Ids, n \in Names, e \in Eins, shares \in Shares :
    \E names \in [DOMAIN shares -> Keys] :
    /\ run.pc = "idle" /\ \A j \in Ids : entities[j] = None
    /\ IF gen = "fill" THEN UNCHANGED <<edits, last>> ELSE Edit
    /\ entities' = [entities EXCEPT ![i] = NewEntity(n, e)]
    /\ children' = children \cup Generated(i, shares, names)
    /\ gen' = "idle"
    /\ UNCHANGED <<run, runs, faults, touched>>

\* The generator ends after its clearing was committed.
GenerateFails ==
    /\ gen = "fill" /\ faults < MaxFaults
    /\ faults' = faults + 1 /\ gen' = "idle"
    /\ UNCHANGED <<entities, children, run, runs, edits, last, touched>>

-----------------------------------------------------------------------------
Init ==
    /\ entities = [i \in Ids |-> None] /\ children = {}
    /\ run = Idle /\ gen = "idle"
    /\ runs = 0 /\ edits = 0 /\ faults = 0
    /\ last = None /\ touched = {}

Importer == \/ Start \/ UpdateEntity \/ InsertEntity \/ Reload \/ SkipUnresolved \/ LookUp
            \/ UpsertChild \/ DryRow \/ RowRaises \/ Commit \/ EndWithoutCommit
Others == ApiCreate \/ ApiDelete \/ ApiUpdate \/ Clear \/ Generate \/ GenerateFails

Next == Importer \/ Fault \/ Others

Spec == Init /\ [][Next]_vars

-----------------------------------------------------------------------------
Rows(t) == {i \in Ids : t[i] # None}

\* The owners of an entity among rows, and what such rows own together.
Owned(rows, i) == {c \in rows : c.sheet = "Owners" /\ c.entity = i}
Total(rows)    == SumFunction([c \in rows |-> c.share])

\* Importing a workbook again, when nothing else changed the tables since its
\* first import began, adds no active entity and no row of another table: the
\* upserts find their rows and the look-ups theirs.  Two live entities of one
\* name are excepted, of which each import takes either.
RepeatAddsNothing ==
    [][Commit /\ last = run.wb /\ (\A n \in Known(run.wb) : Cardinality(Named(n)) =< 1) =>
           /\ Cardinality(children') = Cardinality(children)
           /\ \A i \in Rows(entities') \ Rows(entities) : ~entities'[i].active]_vars

\* A row that an import commits belongs to the entity its sheet names, and
\* that entity is live, unless a request deleted, renamed or deactivated it
\* meanwhile.
ChildrenUnderNamedEntity ==
    [][Commit => \A c \in children' \ children :
           LET e == entities'[c.entity]
           IN \/ c.entity \in touched
              \/ /\ e.active /\ ~e.deleted
                 /\ \E r \in ToSet(run.wb.rows) :
                       r.name = e.name /\ r.sheet = c.sheet /\ r.key = c.key]_vars

\* "ownership percentages must sum to 100% per entity" (a remark of the validator):
\* after an import without the warning on shares, the owners of each entity it named
\* own 100 percent, if the entity had no owners before, give or take half a hundredth
\* for each row of the sheet, which the column rounds; the owners of an entity that the
\* generator adds, some of whom may share a name, own exactly 100 percent.
StoredSharesSumTo100 ==
    [][/\ Commit /\ ~SharesWarned(run.wb) =>
             \A n \in DOMAIN run.ids :
                Owners(run.wb, n) # {} /\ Owned(children, run.ids[n]) = {} =>
                   LET k == Cardinality(Owners(run.wb, n))
                   IN 2 * Total(Owned(children', run.ids[n])) \in 20000 - k .. 20000 + k
       /\ Generate => \A i \in Rows(entities') \ Rows(entities) :
                         Total(Owned(children', i)) = 10000]_vars
=============================================================================
