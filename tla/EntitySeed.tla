----------------------------- MODULE EntitySeed ------------------------------
(***************************************************************************)
(* The entity seed: apply_seed of services/entity_seed.py as the command   *)
(* of cli/seed_entities.py runs it, in one PostgreSQL transaction at READ  *)
(* COMMITTED, next to other runs of the command and to the entities API.   *)
(*                                                                         *)
(* A run reads every entity its file names, then sends the statements of   *)
(* two flushes: the first gives up the unique values that will change, the *)
(* second writes the changes and the new rows.  Each read and each         *)
(* statement is a step.  After the commit it writes the mapping file.      *)
(*                                                                         *)
(* A seed is a function from the ids it names to what each entry sets.     *)
(* The household and the individual that every file must have are taken    *)
(* as present beside the rows of the model.                                *)
(***************************************************************************)
EXTENDS Naturals

CONSTANTS
    Ids,            \* primary keys, in the order PostgreSQL compares them
    ApiIds,         \* those the API gave out: a seed pins them
    Runners,        \* seed commands that can run at once
    Eins, Xeros,    \* employer numbers, Xero tenant ids
    Seeds,          \* parsed seed files
    InitialRows,    \* the tables that the first command may find
    None,           \* SQL NULL, no row, no file
    MaxRuns,        \* bound: runs of the command
    MaxEdits,       \* bound: requests of the API
    MaxFaults       \* bound: lost connections, failed writes and crashes

Unique == {"ein", "xero"}
Fields == Unique \cup {"active"}
Row    == [ein : Eins \cup {None}, xero : Xeros \cup {None},
           active : BOOLEAN, deleted : BOOLEAN]
Value(f) == CASE f = "ein"    -> Eins \cup {None}
              [] f = "xero"   -> Xeros \cup {None}
              [] f = "active" -> BOOLEAN

\* SeedFile and SeedEntity: what an entry sets, the deletion stamp excluded.
ASSUME SeedAssumption ==
    \A s \in Seeds :
        /\ DOMAIN s \subseteq Ids
        /\ \A i \in DOMAIN s :
             /\ DOMAIN s[i] \subseteq Fields
             /\ \A f \in DOMAIN s[i] : s[i][f] \in Value(f)

ASSUME IdAssumption ==
    /\ Ids \subseteq Nat
    /\ ApiIds \subseteq Ids

ASSUME NoneAssumption ==
    /\ None \notin Eins /\ None \notin Xeros
    /\ None \notin Row /\ None \notin Seeds
    /\ None \notin Runners

ASSUME BoundAssumption ==
    MaxRuns \in Nat /\ MaxEdits \in Nat /\ MaxFaults \in Nat

VARIABLES
    rows,       \* committed rows
    mapping,    \* the entities the mapping file names
    result,     \* how the last run to end has ended
    \* The run of each runner
    pc,         \* where it is
    seed,       \* its seed file
    unread,     \* entries _plan_seed has not reached
    seen,       \* the rows its session has read
    work,       \* rows its transaction has written: they are locked
    \* Bounds and history
    runs, edits, faults,
    touched,    \* rows that others have changed since it started
    last        \* the seed the rows are as left by, if any

local == <<pc, seed, unread, seen, work, result>>
bounds == <<runs, edits, faults>>
vars  == <<rows, mapping, local, bounds, touched, last>>

Results == {"none", "ok", "skipped", "conflict", "database", "nomapping",
            "killed"}
Empty == [i \in {} |-> None]

TypeOK ==
    /\ rows \in [Ids -> Row \cup {None}]
    /\ mapping = None \/ mapping \subseteq Ids
    /\ pc \in [Runners -> {"idle", "plan", "flush", "mapping"}]
    /\ seed \in [Runners -> Seeds \cup {Empty}]
    /\ unread \in [Runners -> SUBSET Ids]
    /\ seen \in [Runners -> [Ids -> Row \cup {None}]]
    /\ work \in [Runners -> UNION {[S -> Row] : S \in SUBSET Ids}]
    /\ result \in Results
    /\ runs \in 0..MaxRuns
    /\ edits \in 0..MaxEdits
    /\ faults \in 0..MaxFaults
    /\ touched \in [Runners -> SUBSET Ids]
    /\ last \in Seeds \cup {None}

Init ==
    /\ rows \in InitialRows
    /\ mapping = None
    /\ pc = [p \in Runners |-> "idle"]
    /\ seed = [p \in Runners |-> Empty]
    /\ unread = [p \in Runners |-> {}]
    /\ seen = [p \in Runners |-> [i \in Ids |-> None]]
    /\ work = [p \in Runners |-> Empty]
    /\ result = "none"
    /\ runs = 0 /\ edits = 0 /\ faults = 0
    /\ touched = [p \in Runners |-> {}]
    /\ last = None

-----------------------------------------------------------------------------
(***************************************************************************)
(* What a run has planned, from what it has read.                          *)
(***************************************************************************)

Live(r) == r # None /\ ~r.deleted

\* The file's entries do not give one unique value to two entities.
ValidSeed(s) ==
    \A i, j \in DOMAIN s : \A f \in Unique :
        /\ i # j
        /\ f \in DOMAIN s[i] /\ f \in DOMAIN s[j]
        /\ s[i][f] # None
        => s[i][f] # s[j][f]

Named(p)   == DOMAIN seed[p]
NewRows(p) == {i \in Named(p) : seen[p][i] = None}

\* Mutant of Skipped: a soft-deleted row is updated like any other.
SkipNone(p) == {}

\* Entries whose entity is soft-deleted are left alone.
Skipped(p) == {i \in Named(p) : seen[p][i] # None /\ seen[p][i].deleted}

\* Mutant of Diff: what an entry sets counts as changed.
DiffAll(p, i) == DOMAIN seed[p][i]

\* The fields an entry sets to another value than the row had.
Diff(p, i) == {f \in DOMAIN seed[p][i] : seed[p][i][f] # seen[p][i][f]}

Changes(p) ==
    {i \in Named(p) \ (NewRows(p) \cup Skipped(p)) : Diff(p, i) # {}}

\* Mutant of Released: only the EIN is given up first.
ReleasedEin(p, i) == {f \in Diff(p, i) \cap {"ein"} : seen[p][i][f] # None}

\* The unique values that _release_unique_values sets to null.
Released(p, i) == {f \in Diff(p, i) \cap Unique : seen[p][i][f] # None}

\* The first flush has not yet sent the UPDATE of these rows.
Unreleased(p) ==
    {i \in Changes(p) : Released(p, i) # {}} \ DOMAIN work[p]

\* Mutant of Unwritten: a row the first flush wrote counts as written.
UntouchedChanges(p) == Changes(p) \ DOMAIN work[p]

\* The second flush has not yet sent the UPDATE of these rows.
Unwritten(p) ==
    {i \in Changes(p) :
        \/ i \notin DOMAIN work[p]
        \/ \E f \in Diff(p, i) : work[p][i][f] # seed[p][i][f]}

Uninserted(p) == NewRows(p) \ DOMAIN work[p]

First(S) == CHOOSE i \in S : \A j \in S : i <= j

\* The rows the next statement may be about.  UPDATEs go in the order of the
\* primary keys; INSERTs follow in the order of the file.
Turns(p) ==
    LET first == Unreleased(p)
        second == Unwritten(p)
    IN  IF first # {} THEN {First(first)}
        ELSE IF second # {} THEN {First(second)} ELSE Uninserted(p)

-----------------------------------------------------------------------------
(***************************************************************************)
(* The database.                                                           *)
(***************************************************************************)

\* The rows as the statements of run p find them.
View(p, i) == IF i \in DOMAIN work[p] THEN work[p][i] ELSE rows[i]

\* Two rows hold one key of the partial unique index on field f: over active
\* rows that are not deleted for the EIN, over rows that are not deleted for
\* the Xero tenant.
SameKey(f, r, s) ==
    /\ r[f] # None /\ r[f] = s[f]
    /\ ~r.deleted /\ ~s.deleted
    /\ f = "ein" => r.active /\ s.active

Clash(r, s) == \E f \in Unique : SameKey(f, r, s)

\* The indexes hold from the start.
ASSUME InitialAssumption ==
    \A t \in InitialRows :
        /\ t \in [Ids -> Row \cup {None}]
        /\ \A i, j \in Ids :
             i # j /\ t[i] # None /\ t[j] # None => ~Clash(t[i], t[j])

\* A row as EntityCreate's defaults have it.
Default == [ein |-> None, xero |-> None, active |-> TRUE, deleted |-> FALSE]

\* Row r with what entry e sets, for the fields fs.
Merge(r, e, fs) ==
    [f \in DOMAIN r |-> IF f \in fs THEN e[f] ELSE r[f]]

\* Mutant of After: the second flush writes the row as it was read.
AfterWhole(p, i) ==
    CASE i \in Unreleased(p) ->
           [f \in DOMAIN View(p, i) |->
               IF f \in Released(p, i) THEN None ELSE View(p, i)[f]]
      [] i \in NewRows(p) -> Merge(Default, seed[p][i], DOMAIN seed[p][i])
      [] OTHER -> Merge(seen[p][i], seed[p][i], Diff(p, i))

\* The row as the next statement of run p on i leaves it.
After(p, i) ==
    CASE i \in Unreleased(p) ->
           [f \in DOMAIN View(p, i) |->
               IF f \in Released(p, i) THEN None ELSE View(p, i)[f]]
      [] i \in NewRows(p) -> Merge(Default, seed[p][i], DOMAIN seed[p][i])
      [] OTHER -> Merge(View(p, i), seed[p][i], Diff(p, i))

\* To write row r with id i must wait for run q: it has locked the row, or it
\* holds or is giving up one of the keys.
Holds(q, i, r) ==
    \/ i \in DOMAIN work[q]
    \/ \E j \in DOMAIN work[q] :
         \/ Clash(r, work[q][j])
         \/ rows[j] # None /\ Clash(r, rows[j])

\* The statement of p on i need not wait.
Ready(p, i) == \A q \in Runners \ {p} : ~Holds(q, i, After(p, i))

\* Mutant of Breaks: the index on the EIN is missing.
BreaksXero(p, i) ==
    \/ i \in NewRows(p) /\ rows[i] # None
    \/ \E j \in Ids \ {i} :
         View(p, j) # None /\ SameKey("xero", After(p, i), View(p, j))

\* It would put a key twice into the primary key or into a unique index.
Breaks(p, i) ==
    \/ i \in NewRows(p) /\ rows[i] # None
    \/ \E j \in Ids \ {i} : View(p, j) # None /\ Clash(After(p, i), View(p, j))

\* Transactions wait for each other in a circle through p.
Deadlocked(p) ==
    \E S \in SUBSET Runners :
        /\ p \in S
        /\ \A a \in S :
             /\ pc[a] = "flush"
             /\ Turns(a) # {}
             /\ \A i \in Turns(a) :
                  \E b \in S \ {a} : Holds(b, i, After(a, i))

-----------------------------------------------------------------------------
(***************************************************************************)
(* The command.                                                            *)
(***************************************************************************)

\* Rows S change under the runs other than p, and p's own history ends.
Touch(p, S) ==
    touched' = [q \in Runners |-> IF q = p \/ pc[q] = "idle"
                                  THEN {} ELSE touched[q] \cup S]

\* The command loads a file, and every rule of validate_seed holds.  A file
\* pins the ids of entities that exist already.
Start(p, s) ==
    /\ pc[p] = "idle"
    /\ runs < MaxRuns
    /\ ValidSeed(s)
    /\ \A i \in DOMAIN s \cap ApiIds : rows[i] # None
    /\ pc' = [pc EXCEPT ![p] = "plan"]
    /\ seed' = [seed EXCEPT ![p] = s]
    /\ unread' = [unread EXCEPT ![p] = DOMAIN s]
    /\ runs' = runs + 1
    /\ UNCHANGED <<rows, mapping, result, seen, work, edits, faults, touched, last>>

\* _plan_seed reads the row of one entry; the last one leads to the flushes.
Read(p, i) ==
    /\ pc[p] = "plan"
    /\ i \in unread[p]
    /\ seen' = [seen EXCEPT ![p][i] = rows[i]]
    /\ unread' = [unread EXCEPT ![p] = @ \ {i}]
    /\ pc' = [pc EXCEPT ![p] = IF unread[p] = {i} THEN "flush" ELSE "plan"]
    /\ UNCHANGED <<rows, mapping, seed, work, result, bounds, touched, last>>

\* One INSERT or UPDATE of a flush succeeds.
Write(p, i) ==
    /\ pc[p] = "flush"
    /\ i \in Turns(p)
    /\ Ready(p, i) /\ ~Breaks(p, i)
    /\ work' = [work EXCEPT ![p] =
                   [j \in DOMAIN @ \cup {i} |->
                       IF j = i THEN After(p, i) ELSE @[j]]]
    /\ UNCHANGED <<rows, mapping, pc, seed, unread, seen, result, bounds,
                   touched, last>>

\* Mutant of EndRun: the error is reported and nothing is rolled back.
EndWithoutRollback(p, how) ==
    /\ pc' = [pc EXCEPT ![p] = "idle"]
    /\ result' = how
    /\ seed' = [seed EXCEPT ![p] = Empty]
    /\ unread' = [unread EXCEPT ![p] = {}]
    /\ seen' = [seen EXCEPT ![p] = [i \in Ids |-> None]]
    /\ UNCHANGED work

\* The run ends and its transaction with it: what was not committed is gone,
\* and so is what the process knew.
EndRun(p, how) ==
    /\ pc' = [pc EXCEPT ![p] = "idle"]
    /\ result' = how
    /\ seed' = [seed EXCEPT ![p] = Empty]
    /\ unread' = [unread EXCEPT ![p] = {}]
    /\ seen' = [seen EXCEPT ![p] = [i \in Ids |-> None]]
    /\ work' = [work EXCEPT ![p] = Empty]

\* A statement violates a unique index: _apply_with rolls back, exit code 3.
Conflict(p, i) ==
    /\ pc[p] = "flush"
    /\ i \in Turns(p)
    /\ Ready(p, i) /\ Breaks(p, i)
    /\ EndRun(p, "conflict")
    /\ Touch(p, {})
    /\ UNCHANGED <<rows, mapping, bounds, last>>

\* PostgreSQL ends one of the transactions that wait for each other.
BreakDeadlock(p) ==
    /\ pc[p] = "flush"
    /\ Deadlocked(p)
    /\ EndRun(p, "database")
    /\ Touch(p, {})
    /\ UNCHANGED <<rows, mapping, bounds, last>>

\* The rows as the transaction of p leaves them.
Committed(p) == [i \in Ids |-> View(p, i)]

\* Rows that are other than when run p read them are not as its seed left them.
Effect(p) ==
    /\ rows' = Committed(p)
    /\ Touch(p, {i \in Ids : rows[i] # View(p, i)})
    /\ last' = IF touched[p] = {} THEN seed[p] ELSE None

\* The transaction commits.
Commit(p) ==
    /\ pc[p] = "flush"
    /\ Turns(p) = {}
    /\ Effect(p)
    /\ pc' = [pc EXCEPT ![p] = "mapping"]
    /\ work' = [work EXCEPT ![p] = Empty]
    /\ UNCHANGED <<mapping, seed, unread, seen, result, bounds>>

\* The connection is lost while the server commits: exit code 3, although the
\* rows are there.
CommitUnseen(p) ==
    /\ pc[p] = "flush"
    /\ Turns(p) = {}
    /\ faults < MaxFaults
    /\ faults' = faults + 1
    /\ Effect(p)
    /\ EndRun(p, "database")
    /\ UNCHANGED <<mapping, runs, edits>>

\* A database error before that, or the process is killed.
Fail(p, how) ==
    /\ faults < MaxFaults
    /\ \/ pc[p] \in {"plan", "flush"}
       \/ pc[p] = "mapping" /\ how = "killed"
    /\ faults' = faults + 1
    /\ EndRun(p, how)
    /\ Touch(p, {})
    /\ UNCHANGED <<rows, mapping, runs, edits, last>>

\* Mutant of WriteMapping: the file is written before the commit.
WriteMappingEarly(p) ==
    /\ pc[p] = "flush"
    /\ Turns(p) = {}
    /\ mapping' = Named(p) \ Skipped(p)
    /\ UNCHANGED <<rows, pc, seed, unread, seen, work, result, bounds, touched,
                   last>>

\* write_mapping renames a whole new file over the old one.  Every command is
\* given --mapping-out.
WriteMapping(p) ==
    /\ pc[p] = "mapping"
    /\ mapping' = Named(p) \ Skipped(p)
    /\ EndRun(p, IF Skipped(p) = {} THEN "ok" ELSE "skipped")
    /\ Touch(p, {})
    /\ UNCHANGED <<rows, bounds, last>>

\* It fails and removes its temporary file: exit code 5.
MappingFails(p) ==
    /\ pc[p] = "mapping"
    /\ faults < MaxFaults
    /\ faults' = faults + 1
    /\ EndRun(p, "nomapping")
    /\ Touch(p, {})
    /\ UNCHANGED <<rows, mapping, runs, edits, last>>

-----------------------------------------------------------------------------
(***************************************************************************)
(* The entities API, one request at a time: EntityStore has its steps.     *)
(***************************************************************************)

\* A request writes row r with id i, as the locks and indexes let it.
ApiWrite(i, r) ==
    /\ edits < MaxEdits
    /\ \A q \in Runners : ~Holds(q, i, r)
    /\ \A j \in Ids \ {i} : rows[j] # None => ~Clash(r, rows[j])
    /\ rows' = [rows EXCEPT ![i] = r]
    /\ edits' = edits + 1
    /\ Touch(None, {i})
    /\ last' = None
    /\ UNCHANGED <<mapping, local, runs, faults>>

\* create_entity: a fresh id, which no file in use names yet.
ApiCreate(i, e) ==
    /\ rows[i] = None
    /\ ApiWrite(i, [Default EXCEPT !.ein = e])

\* update_entity changes one field of a live entity.
ApiUpdate(i, f, v) ==
    /\ Live(rows[i])
    /\ rows[i][f] # v
    /\ ApiWrite(i, [rows[i] EXCEPT ![f] = v])

\* delete_entity.
ApiDelete(i) ==
    /\ Live(rows[i])
    /\ ApiWrite(i, [rows[i] EXCEPT !.deleted = TRUE])

-----------------------------------------------------------------------------

\* The steps of a run that go on without being told to.
Run(p) ==
    \/ \E i \in Ids : Read(p, i) \/ Write(p, i) \/ Conflict(p, i)
    \/ BreakDeadlock(p)
    \/ Commit(p)
    \/ WriteMapping(p)

Fault(p) ==
    \/ CommitUnseen(p)
    \/ MappingFails(p)
    \/ \E how \in {"database", "killed"} : Fail(p, how)

Api ==
    \/ \E i \in ApiIds, e \in Eins \cup {None} : ApiCreate(i, e)
    \/ \E i \in Ids, f \in Fields : \E v \in Value(f) : ApiUpdate(i, f, v)
    \/ \E i \in Ids : ApiDelete(i)

Next ==
    \/ \E p \in Runners : Run(p) \/ Fault(p)
    \/ \E p \in Runners, s \in Seeds : Start(p, s)
    \/ Api

Spec == Init /\ [][Next]_vars

\* A run that can go on does: its coroutine is scheduled, and the database
\* answers or ends a deadlock.
FairSpec == Spec /\ \A p \in Runners : WF_vars(Run(p))

-----------------------------------------------------------------------------
(***************************************************************************)
(* Properties.                                                             *)
(***************************************************************************)

\* No two committed rows hold one key: the seed and the API keep the unique
\* indexes of the entities table.
KeysUnique ==
    \A i, j \in Ids :
        i # j /\ rows[i] # None /\ rows[j] # None => ~Clash(rows[i], rows[j])

\* The mapping file names only entities whose rows were committed, whatever
\* fails between the flush, the commit and the rename.
MappingNamesCommitted == mapping # None => \A i \in mapping : rows[i] # None

\* A seed that is applied again, with nothing changed since, plans no insert
\* and no update: plan_seed and the first run agree on what the file means.
SeedIsIdempotent ==
    \A p \in Runners :
        /\ pc[p] = "flush"
        /\ last = seed[p]
        /\ touched[p] = {}
        => NewRows(p) = {} /\ Changes(p) = {}

\* When a run commits, every live entity of its file that nobody else has
\* changed meanwhile has every value the file sets: what the first flush gave
\* up has been assigned again.
SeedTakesEffect ==
    [][\A p \in Runners :
        pc[p] = "flush" /\ pc'[p] = "mapping" =>
            \A i \in Named(p) \ touched[p] :
                /\ rows'[i] # None
                /\ rows'[i].deleted
                     \/ \A f \in DOMAIN seed[p][i] : rows'[i][f] = seed[p][i][f]
      ]_vars

\* A run changes nothing but the fields its file names, and brings no deleted
\* row back: what the API committed in between survives, a deletion included.
OnlyNamedFieldsChange ==
    [][\A p \in Runners, i \in Ids :
        pc'[p] # pc[p] /\ rows[i] # None /\ rows'[i] # rows[i] =>
            /\ i \in Named(p)
            /\ rows'[i] # None
            /\ \A f \in DOMAIN rows[i] :
                 rows'[i][f] # rows[i][f] => f \in DOMAIN seed[p][i]
      ]_vars

\* A row that was deleted when the run read it keeps every value when the run
\* commits, although the file names it and sets other values.
DeletedRowsAreLeftAlone ==
    [][\A p \in Runners : \A i \in Named(p) :
        /\ pc[p] = "flush" /\ pc'[p] # "flush"
        /\ seen[p][i] # None /\ seen[p][i].deleted
        => rows'[i] = rows[i]]_vars

Refused(p) ==
    pc[p] = "flush" /\ pc'[p] = "idle" /\ result' = "conflict"

\* A run that meets nobody is refused only for a value of a field that its
\* file does not assign in both rows that would hold it: values that move
\* between rows the file assigns, a swap included, never collide on the way.
MovingValuesNeverCollide ==
    [][\A p \in Runners :
        Refused(p) /\ touched[p] = {} =>
            \E i \in Turns(p), f \in Unique : \E j \in Ids \ {i} :
                /\ View(p, j) # None
                /\ SameKey(f, After(p, i), View(p, j))
                /\ \/ j \notin Named(p)
                   \/ f \notin DOMAIN seed[p][j]
                   \/ f \notin DOMAIN seed[p][i]
      ]_vars

\* A run that has started ends, when it waits for other transactions too.
EveryRunEnds == \A p \in Runners : pc[p] # "idle" ~> pc[p] = "idle"
=============================================================================
