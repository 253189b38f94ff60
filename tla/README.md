# A TLA+ model of llc-manager

This directory holds TLA+ modules about `llc-manager` (`src/src/llc_manager`), a
FastAPI service that keeps legal entities and their documents in PostgreSQL and
the documents' files under one directory. The modules are checked with TLC on
small instances; theorems about eight of the components are proved with TLAPS for
all values of the constants. Paths below are relative to `src/src/llc_manager` unless they
start otherwise.

## The system

| Component | State | Operations | What is hard |
| --- | --- | --- | --- |
| Document import: `services/document_import.py`, `cli/import_documents.py` | rows of `documents`, files and `.stage-*.tmp` files under the documents root, the session's unflushed changes, the tally | read a manifest, hash, stage, record, commit, publish, discard | the table and the file system cannot change together: crashes and failures between any two steps, sources that change meanwhile, a duplicate check that reads committed rows only |
| Document endpoints: `api/v1/endpoints/documents.py` | none | list a page of changes, read one, stream its file | offset paging over a key that edits move; `updated_at` is the transaction's start |
| Entities API: `api/v1/endpoints/entities.py`; edit form: `web/routes.py` | rows of `entities` | create, update, soft-delete, list | checks before writes, two partial unique indexes, sessions that commit after the answer |
| Sessions: `db/session.py`, `db/base.py` | open transactions, the connection pool | one session per request, commit after `yield` | the order of answer and commit, pool exhaustion |
| Entity seed: `services/entity_seed.py`, `cli/seed_entities.py` | rows of `entities`, the key-to-id mapping file | upsert a batch in two passes, commit, write the mapping | keys that move between entities in one batch, concurrent API requests, a crash before the mapping is written |
| Manifest check and dry run: `services/document_import.py`, `cli/import_documents.py` | none | read, check and report a manifest | a verdict by record, two texts for one file, a dry run with tests of its own |
| Request path: `main.py`, `middleware/security.py`, `core/auth.py`, `api/health.py`, `db/session.py` | open transactions, the connection pool | filter, limit, authorise, serve, commit | the commit comes after the answer, downloads hold a connection, the pool is bounded |
| Rate limiter: `middleware/security.py` | request times by client | admit or refuse, clean up | half-open windows, bursts, the bound on tracked clients |
| Response cache: `core/cache.py` | Redis keys | get, set, compute on a miss, warm, invalidate a pattern | a value computed before a write and stored after it; Redis failing after the computation or with its reply lost |
| Excel import and seed scripts: `src/scripts/import_excel.py`, `src/scripts/seed.py` | all tables but `documents` | validate a workbook, upsert six sheets in one transaction; clear and generate | names resolved to ids while the API renames and deletes, look-ups beside upserts, rows that pass the validator and fail later |
| Migrations: `src/alembic` | the schema, the version row | upgrade, downgrade | enum labels that commit by themselves, guards that hold no lock, DDL that is refused half way |
| Correlation: `middleware/correlation.py` | context variables | bind and reset identifiers | the order of middleware |

The components meet in the database. The import and the entity requests write
rows that the others read; the import reads `entities` and a deletion there may
come between its check and its commit; the change feed reads what imports
commit; the import's `--entity-map` reads the file that the seed writes.

What makes each component correct:

- *Import*: a row never claims bytes that the store does not have, except after
  an incident, and the next run repairs that; a final name never holds bytes
  that were not committed; no staging file is left behind; a manifest is
  recorded as a whole or not at all; every run ends.
- *Entities*: unique keys stay unique under any interleaving, no update is lost,
  no deleted row returns, no requests wait for each other for ever, and the
  documented rules that no index enforces are broken only by requests that
  overtake each other, or by the form, which does not judge all of them.
- *Change feed*: a consumer that follows the documented rule gets every change.
- *Seed*: a file takes effect as a whole and has no effect the second time;
  unique values may move between its entities; what others commit meanwhile is
  not lost; the mapping file names committed entities only; every run ends.
- *Manifest check*: what is accepted is what the import assumes, and a clean dry
  run is never kinder than the import.
- *Request path*: an error answer means that nothing was changed, connections
  come back on every way out, every request whose body is there ends.
- *Rate limiter*: no client exceeds a limit in any window, the table is bounded,
  and `Retry-After` tells the truth.
- *Cache*: nothing outdated survives an invalidation but for named reasons.
- *Excel import*: importing twice adds nothing, rows end up under the entity
  their sheet names, shares that were not warned of make 100 percent but for
  the rounding of each.
- *Migrations*: the schema is always that of the version row, it allows every row
  there is, and a command that was cut off can be taken up again.

## Modules

| Module | What it is |
| --- | --- |
| `DocumentImport` | the import, step by step, with failures, crashes and the environment |
| `DocumentStore` | the abstract specification that `DocumentImport` implements |
| `DocumentImportProofs` | its theorems |
| `EntityStore` | concurrent requests on the entities table |
| `EntityStoreProofs` | its theorems |
| `DocumentFeed` | the change feed and its consumer |
| `DocumentFeedProofs` | its theorem |
| `EntitySeed` | the seed command, next to other runs and the API |
| `EntitySeedProofs` | its theorems |
| `ManifestCheck` | manifests: reading, checks, dry run, exit codes, as operators with a reference definition |
| `ImportCommand` | the import command: the check of a manifest, before its import; states `VerdictsAreRight` |
| `RequestPath` | a request from the middleware to the end of its session |
| `RequestPathProofs` | its theorems |
| `RateLimiter` | the limiter's table, its windows and its clean-up |
| `RateLimiterProofs` | its theorems |
| `ResponseCache` | cached functions and updates over a failing Redis |
| `ResponseCacheProofs` | its theorem |
| `ExcelImport` | the workbook importer next to the API, and the data generator |
| `ExcelImportProofs` | its theorems |
| `Migrations` | the four revisions, statement by statement |
| `MC...` | the small instances for TLC, one for each module that is run |

A definition whose comment begins with "Mutant of" is a plausible mistake in the
code. It is used nowhere: put in place of the definition it names, it makes TLC
report the property listed for it in `PROJECT.json`, which shows that the
property depends on that part of the code.

### DocumentImport

State and code: `row` is the `documents` table, `file` the files under their
final names, `temps` the staging files, `source` the administrator's directory,
`liveEnt` the entities that are not deleted. Of the process, `staged` is
`StagedFiles._pending`, `writes` the session's unflushed changes, `hashes` and
`skipped` are `_Tally.staged_hashes` and the rows of `duplicate_lines`, and `pc`,
`pos` and `sha` are the loop of `_record_rows`.

A document is identified with its source file and its stored name: the id is a
`uuid5` of the path, and the stored name follows from the id and the MIME type,
which is a function of the path. A digest and the bytes it names are one value.
The other manifest columns are one abstract value that names an entity.

Each action is what happens between two points at which something else may
intervene: another process may change a file between hashing and copying, and
a deletion may be committed between the read of a row and the flush. `Commit`
is flush and commit in one step, because nothing that the flush does is visible
before. The flush writes changed columns only, as SQLAlchemy does, so it leaves
`deleted_at` alone. The session does not autoflush (`db/session.py:45`), so the
duplicate check reads committed rows.

Faults: any step fails (`StepFails`), copying fails with the temporary file made
(`StageFails`), the database commits but the connection is lost
(`CommitUnacknowledged`), a staging file cannot be unlinked (`UnlinkFails`), a
rename fails (`PublishFails`), the process is killed anywhere (`Crash`), a stored
file is deleted by hand. The variables `damaged`, `littered` and
`removed` only record history for the properties.

One importer runs at a time; `document_import.py:881` states it as an assumption.

### EntityStore

`rows` is the `entities` table as committed; a request has a program counter,
its body (`sent` is `model_fields_set`, `val` the values), the row it read
(`seen`) and `pending`, set while it has flushed and not committed. Every await
on the database is a step. `Waits` is when PostgreSQL blocks a statement: a row
lock, or an index key that an unfinished transaction holds or is giving up.
`After` is the row that the statement leaves: an UPDATE names the columns whose
values differ from what the session read, and applies to the row as it is
committed when the lock is granted (READ COMMITTED).
`Respond` precedes `Commit`, as `get_async_session` resumes after the answer.

`ein` stands for the three fields that an individual must not have;
`"individual"` stands for both personal types and `"llc"` for the others. Lists
and detail pages only read and are left out. `EmptyEin` is the EIN `""`: the
schemas admit it (`schemas/entity.py:30`, `82`) and the column stores it, but the
checks test truthiness (`entities.py:209`, `355`) and take it for no EIN, as they do
null (`Absent`). `since` only records, for a request past its check of the EIN, the
entities committed with that EIN from then on.

### DocumentFeed

`stamp` is `updated_at`: the time at which the writing transaction began, while
the change becomes visible when it commits. A request is two steps, the count
and the page. The consumer is the one `list_documents` describes: it asks for
pages until the last, sets its watermark `Overlap` behind the newest
`updated_at` it has seen, takes documents by id and polls again. The consumer is
not in the repository; its rule is. The description at `documents.py:71-75` asks for
a watermark "a few minutes behind", because an import's rows become visible late.
How far is enough is `Overlap >= LongestImport + LongestPoll`: `polled` is when
the poll at hand began, and `LongestPoll` bounds how long it goes on. `Deletable`
are the documents that may be deleted, as another bound of the runs.

### EntitySeed

A run reads the row of every entry (`Read`, `seen`), then sends one statement a
step (`Write`). What is left to send is computed from what the run has read, what
its file sets and what its transaction has written (`work`): `Unreleased` are the
UPDATEs of the first flush, `Unwritten` those of the second, `Uninserted` its
INSERTs. UPDATEs go in the order of the primary keys, as SQLAlchemy sends them;
entries are read and rows are inserted in any order, because a file can have any.
`work` holds rows as the transaction sees them and is also its set of locked
rows; `Holds` is when a statement waits and `Breaks` when an index refuses it.
A waiting statement finds the rows as they are committed when the lock is
granted. `Deadlocked` transactions are ended one by one (`BreakDeadlock`).

A seed is a function from ids to what each entry sets: the file's keys are
mapped to ids one to one. The API appears as single committed requests
(`ApiCreate`, `ApiUpdate`, `ApiDelete`), which respect the locks and indexes;
`EntityStore` has their steps and checks. `CommitUnseen` is a connection that is
lost while the server commits. `touched` and `last` only record history.
`--validate-only` and a run without `--mapping-out` write less and are left out.

### ManifestCheck

What is in the source directory (`Paths`) and the manifests that may be given
(`Texts`) are constants. A cell is the class of its text, a path what it leads to.
`ReadManifest` and `VerifySources` are folds over the records, as the code's loops
are; `GoodRecord`, `Accepted` and `Verified` say without folds or orders what they
should find, and `Right` compares them on one text. A text may hold bytes from
which no line can be read (`breaks`); as in the code, a bad header is reported
before they are met (`document_import.py:511-516`). `VerdictsAreRight`, in
`ImportCommand`, says it of all `Texts`; for TLC (`MCDocumentImport`) these are every
path and every flaw of one cell in one or two records, every path in three, headers
with each kind of mistake. No verdict depends on the store, so the property speaks
of the states before the first run, whose `Manifests` are what a text without a
fault leads to. `date.fromisoformat` accepts more than the documented `YYYY-MM-DD`; a
date is a class here.

### RequestPath

`pc` is the stage of a request, `held` the slots with a connection. The stack is
the reverse of the order of `add_middleware`: URL filter, limiter, headers,
correlation, CORS, application. Of the limiter only its refusal is here
(`Limited`). A session is made before the handler and takes its connection with
the first statement (`Checkout`) or gives up (`PoolTimeout`); the answer is sent
(`Send`) before `get_async_session` resumes (`Commit`, `CommitFails`), which
with the FastAPI release of `uv.lock` is after the last byte of a file. A form
shows its mistakes in an answer without an exception, so its session commits,
with nothing in it. `request.body()` (`middleware/security.py:510`) waits for the
client without a limit: a slot may stay at the stage "body" for ever, or be left by
its client (`ClientLeaves`), and these steps are not fair. Clients that disconnect
after their body are left out.

### RateLimiter

A recorded time is its age in ticks, up to the largest age that is compared, with
a number that tells times of one tick apart; a deque of times is the set of them.
`dispatch` does not await before it decides, so a request is one step. `admitted`,
`forgotten`, `told` and `silent` only record history. Only the clean-up enforces
`max_tracked_ips`, so the table grows with the clients seen since the last one.

### ResponseCache

A call stops before each Redis call and before its function. A value is the
version of its datum; `old` says that the datum was updated since it was read.
All keys share a prefix and an invalidation names the prefix, because the keys
hold a hash of the arguments (`cache.py:172`): the pattern
`api:users:*{user_id}*` of the example at `cache.py:466` matches no key. Any
Redis call may fail, before or after its effect; a failed `setex` runs the
function again (`Again`). Expiry may come at any time. Nothing in the
application uses the module yet; it is modelled as its functions may be called.

### ExcelImport

A workbook is a sequence of rows with a flaw each: what the validator finds, what
makes the validator raise, what cannot be converted, what the database refuses.
`run.work` and `run.adds` are what the transaction has written and what the
session holds; `Found` reads committed rows, as the session does not autoflush.
One import at a time; the API's requests come between two of its statements and
wait for the rows and keys it holds. `ApiUpdate` is `update_entity`: it may set the
name, the EIN and the flag. Only the index limits the EINs it gives (`KeyFree`), as
the check of the endpoint can be overtaken (`EntityStore`). A sheet's share counts
units of `Grain` to a hundredth of a percent and is summed as it is; a child has it
rounded to hundredths (`Stored`), as the column `Numeric(5, 2)` does
(`models/owner.py:86-87`). The generator of `seed.py` clears in a transaction of its
own (`Clear`) and fills in another (`Generate`).

### Migrations

An object is a table, an added column, an index, a type or a label, with the
names it depends on. `Script` is what Alembic runs between two versions; `work`
is what the command's transaction sees. `autocommit_block` commits what came
before it, and then each label. `Locks` are the tables that a transaction keeps
the application from writing; `data` holds the facts about rows that some
statement minds. PostgreSQL's part (`Refused`, `Effect`, `Locks`) and Alembic's
(`Stamp`, `Script`) are external. One command at a time.

## Runs

| Run | Shows |
| --- | --- |
| `import` | the properties of the import, `ImplementsStore`, `ImportTerminates`, and `VerdictsAreRight` of the manifest check |
| `entity_concurrent` | `KeysUnique`, `OnlySentFieldsChange`, `DeletedStaysDeleted`, `SharedEinsRaced`, `LegalPersonsRaced`, `EveryRequestAnswered` with overlapping requests |
| `entity_sequential` | `NoServerError` with requests of every kind, one at a time |
| `feed` | `MissedIsStillAhead`, `EveryChangeIsTaken` |
| `seed` | the properties of the seed |
| `excel` | `RepeatAddsNothing`, `ChildrenUnderNamedEntity`, `StoredSharesSumTo100` |
| `requests` | `AnswersMatchEffects`, `ConnectionsComeBack`, `EveryRequestEnds` |
| `limiter` | `LimitHolds`, `TableIsBounded`, `RetryAfterSuffices` |
| `cache` | `StaleIsExplained` |
| `migrations` | `VersionMatchesSchema`, `RefusalsAreAboutData` |
| `import_stale_read` | a sentence of the documentation that the import does not keep |
| `entity_race` | a sentence of the API's description that overlapping creates break |

Bounds and why they suffice:

- `import`: two documents, two contents, two metadata values, every accepted
  manifest, two runs, one edit of the sources and two faults; 1.5 million
  states. Two documents are needed for a duplicate, two runs for a repair; the
  second fault allows an incident within the repair of the first. Three runs
  were also checked, with the same result.
- `entity_concurrent`: two entities, two requests at a time, three in all, with
  bodies that change one field or two, and one lost connection. Every
  conflict is between two requests on at most two rows; the third request
  makes the row they conflict about. Two EINs and `""`; 480,000 states.
- `entity_sequential`: three entities and five requests, one at a time: what
  `MultipleResultsFound` would need is two rows with one EIN and a request for a
  third.
- `feed`: three documents in pages of one, of which one may be deleted, two writers,
  four units of time, imports and polls of at most one and an overlap of two. The
  second writer is what makes late visibility matter: with only one writer at a
  time `updated_at` never falls behind what is visible. Four documents in pages of
  two, and an overlap of one (with which `MissedIsStillAhead` fails), were tried
  too; the theorem covers the rest. `MovesWhilePaging` is FALSE: with TRUE the
  property fails, see below.
- `seed`: two seeded entities on both sides of one that the API created, so that
  the order of primary keys matters; two EINs and a tenant that the second file
  swaps and moves; two runs, one request of the API and one fault at any point;
  from an empty table and from what the first file leaves beside a row of the API
  that is not active, with and without an EIN. Two runs suffice
  for a deadlock, for a race of two insertions and for a repeated seed.
- `excel`: twelve workbooks that reach every way a row can go, with one EIN for
  each name, one of them with shares of thousandths of a percent (`Grain` is 10);
  two imports of any of them, real or dry, two changes by others and one fault;
  1.7 million states up to the choice of new ids, which is symmetric. Two imports
  are a repetition; the two changes make a rename and a new entity of the old name.
- `requests`: three slots over a pool of two, ten requests that reach every
  refusal and every kind; 140,000 states. The third slot is the one that waits
  while two downloads stall.
- `limiter`: three clients of which a clean-up keeps one, two requests in five
  ticks, one in two; a clean-up every six. The windows are what matters, not their
  length: a window holds two bursts and a rest.
- `cache`: two tasks, two keys, two updates of each. One task stores between
  another's scan and delete; the second key shows what a prefix takes along. The
  theorem covers the rest.
- `migrations`: no bound; 10,761 states are all there are.

Deadlock checking is off where a bound on runs, requests or time ends the
behaviour.

### What the violations show

- `import_stale_read`: a document's file changes and a new document has its old
  bytes, both in one manifest. The new row is skipped as a duplicate because
  the committed row still has the old digest; after the commit no row has it.
- `entity_race`: two creates with one EIN, one of them not active, both look for
  the EIN before either commits, and both are answered 201. The unique index covers
  active entities only, so that two entities that are not deleted have the EIN, which
  the endpoint says must not be (`entities.py:181-183`).

### Met while modelling, without a run

Some of these can be seen by changing a constant of a run; they are left out of
the runs because their windows are known or the text they contradict is vague.

- *Import*: a row whose file was never published counts as holding its bytes, so
  a new row with them is skipped (`services/document_import.py:773`). A repaired
  file does not change its row, so `updated_at` does not move and the feed does
  not report it (`models/document.py`, `documents.py:71-72`).
- *Entities*: one request sets the EIN and another the type to individual, each
  legal for the row it read, and the row they leave is a person with an EIN
  (`LegalPersonsRaced` admits this and no more of the API); the edit form stores such
  a person by itself, because only the API judges the rule (`web/routes.py:205-227`).
  An active and an inactive entity can both have the EIN `""`, one request at a
  time, because the checks skip it (`SharedEinsRaced` speaks of the others). The
  API refuses the EIN of a deleted entity as held (`entities.py:210` has no
  condition on `deleted_at`); the form answers a concurrent duplicate with a server error
  (`web/routes.py:229`), and the API answers `is_active: null` with "already
  exists" (`entities.py:86` maps every `IntegrityError`).
- *Feed*: an edit moves a row of page one to the end, the next row slides back over
  the page boundary, and the watermark moves past it (`MovesWhilePaging = TRUE`).
  An overlap as long as the longest import is not enough: while a slow poll reads
  its last pages, an import commits rows that belong on pages already read, and the
  newest row of the poll moves the watermark past them. The overlap must cover the
  poll too.
- *Seed*: it makes an entity personal without clearing its EIN, because the rule is
  judged for the entry and not for the row (`entity_seed.py:419`); when the
  connection is lost during a commit that takes effect, it reports that nothing
  was committed (`seed_entities.py:328`); an entity deleted between the plan and
  the mapping is still named by the mapping. A file that reactivates an entity
  without naming its EIN, and gives that EIN to another, is refused at the
  reactivation. One that deactivates the holder of an EIN and gives the EIN to an
  entity with a smaller id is refused too, and succeeds with the ids the other
  way round: only values that an entry sets are released first, which is all that
  `entity_seed.py:490-492` promises.
- *Excel import*: an entity renamed since the last import keeps its EIN, so the
  upsert meets it and its name stays; its other rows are skipped or go to whoever
  has the name now. Of two live entities with one name the reload takes either.
  Entities that are not active conflict with nothing and are inserted by every
  import. An owner listed twice in one sheet is added twice, and every later
  import of it ends with `MultipleResultsFound`. A contribution that is no number
  passes the validator, so "Equivalent to `import --dry-run`" is not quite true;
  an infinite year or share makes the validator raise. Shares are summed over the
  sheet, so an entity that had owners can come to 150 percent without a warning
  (`StoredSharesSumTo100` speaks of first owners only, and of generated
  entities). Shares are checked as they are read and stored rounded, so a sheet of
  exactly 100 can be stored as 99.99 or 100.01 without a warning, and that is as
  far as it goes by the number of its owners. The generator's last share may be
  negative, and its clearing stays when the filling fails.
- *Request path*: the comment at `main.py:100` says that the correlation
  middleware runs first; it runs after the filter and the limiter, whose refusals
  carry neither identifiers nor security headers. A stalled download keeps its
  connection, and as many of them as the pool has make every other request
  time out.
- *Migrations*: the initial downgrade leaves its enum types, so that down to the
  base and up again is refused at `CREATE TYPE` (a comment of `316e25bc258b` asks
  to run the three and confirm each). The downgrade of `821fef45dccb` has no guard
  and is refused by two rows that share an EIN.
- *Cache*: `except RedisError` at `cache.py:257` is never reached, as
  `invalidate_pattern` catches it; a hit returns what JSON made of the value; eight
  hexadecimal digits of a hash may collide.

## Fairness

- The importer is weakly fair in its own steps: it waits for nobody. Nothing is
  assumed of faults, edits and starts.
- Requests are weakly fair in the steps of their handler: the event loop
  schedules every task, and PostgreSQL grants a lock that stays free. Arrivals
  and lost connections are not fair.
- The consumer of the feed is weakly fair: it goes on polling. Writers and time
  are not fair.
- A request's next stage is weakly fair once its body is there, with the waits for
  a handler and a connection, which end (the last by `pool_timeout`). Sending is fair
  except for files, which go as fast as their reader takes them. What the client does
  is not fair: arrivals, the body, for which nothing bounds the wait, and leaving.
- Seed commands are weakly fair in their own steps: the coroutine is scheduled
  and the database answers or ends a deadlock. Starts, faults and the API are
  not fair.

## What is proved

`DocumentImportProofs`, from `ValueAssumption`, `EntityAssumption`,
`ManifestAssumption`, `BoundAssumption` and, for the manifest check, `TextAssumption`:

- `TypeCorrect`: `TypeOK`, with `ControlOK` as strengthening (the loop is inside
  the manifest, and the digest is known once a row is hashed).
- `StoreAgrees`: `StoreMatchesRows`. It is not inductive: it says nothing of
  what is staged before the commit. `StagingInv` adds that outside the run
  nothing is staged (`QuietOK`), that a staged file has the digest of the write
  waiting for it (`StagedAsWritten`), that after the commit it has the digest of
  the row (`StagedAsClaimed`), and that the current row's document is not yet
  staged (`NotYetStaged`, from the manifest's rows naming distinct files).
- `PublishesOnlyCommitted`: `PublishOnlyCommitted`, from `StagedAsClaimed`.
- `RefinesStore`: `ImplementsStore`. Initial states map to initial states, and
  every step to `Record`, `Deliver`, `Abandon`, `Lose`, `Delete` or a stutter.
- `NoTempsLeft`: `NoStrayTemps`, which is inductive beside `StagingInv`.
- `SuccessRepairs`, `RecordsTogether`, `OnlyLaterUpdatesShare`:
  `SuccessfulImportRepairs`, `RecordsWholeManifest`, `OnlyLaterUpdatesShareNewBytes`. What a
  run has done is known only when it ends, so `RunInv` says it of the rows the loop
  has left behind: they are counted, and those kept are as the manifest says, or
  about to be, with their bytes staged or served (`DoneRowsOK`); the rows to come
  are unwritten (`NotYetWritten`); and the new rows of the session differ from all
  live rows and from each other, because `staged_hashes` has the digest of
  everything it holds (`NewBytesOK`). Only a stored document on a later line may be
  updated to the same bytes, as `_update_row` does not look for duplicates.
- `ManifestsJudged`: `VerdictsAreRight`, for any source directory and manifests of any
  length. The two loops are folds, which the proof unfolds to the table of what is
  known after each record (`FoldExists`, `FoldSteps`); `ReadUpTo` and `HashedUpTo` say
  without folds what that is. That they hold of every entry is shown from the least
  entry of which they would not (`Least`), since an induction theorem with an operator
  for a parameter cannot be used. The heart is that of the good records that name one
  file the loop accepts the first and refuses all others (`FirstAccepted`,
  `RepeatedMeans`), so that a reported repetition is about a file that is taken.
- `AcceptedManifestsHold`: what `ManifestAssumption` asks of the manifests of the
  import is what the check ensures, so the theorems above are about every manifest
  that the command imports.

`EntityStoreProofs`, from `BodyAssumption`, `NullAssumption` and
`BoundAssumption`:

- `RowsTyped`, `KeysStayUnique`, `NoLostUpdate`, `DeletionIsFinal`. The inductive
  invariant `KeyInv` adds to `TypeOK` and `KeysUnique` that the row a flushed
  request will commit is a row that clashes with no committed row and with no
  other flushed one (`PendingOK`), that a request past its read has a row and a
  creation has an id of its own (`RowsFound`), and that a body that sends the
  deletion stamp sets it (`NoUndelete`). `KeysUnique` alone is not inductive: two
  flushed requests could clash with each other.
- `SharedEinsWereRaced`, `LegalPersonsWereRaced`: `SharedEinsRaced` and
  `LegalPersonsRaced`, for any requests at once. `RaceInv` says what a request knows
  whatever the others do (`RaceOK`): its body is one of its kind, an update of the
  API was judged with the row as it was read, and whoever holds the EIN it gives
  was committed after its check.
- `OnlyLostConnectionsFail`: `NoServerError`, for requests that follow each other
  (`Procs = {p}`). `AloneOK` says that what a request has read is still so and that
  past its check the EIN is free, now among deleted rows too. It needs forms that
  send a type and the check box, as the page's do (`FormsComplete`).

`EntitySeedProofs`, from `SeedAssumption`, `IdAssumption`, `NoneAssumption`,
`BoundAssumption` and `InitialAssumption`, for any number of runs, requests and
faults:

- `SeedKeysStayUnique`, `MappingCommitted`, `SecondRunPlansNothing`,
  `CommittedSeedTakesEffect`, `OnlyNamedFields`, `DeletedRowsKeep`,
  `MovesNeverCollide`. `SeedInv` relates the three versions of a row: what was read
  is what is committed unless others touched it (`SeenOK`), and what is written is a
  new row, or on the way from the committed one to the file's (`WorkOK`). The rows a
  transaction has written clash with nothing it sees (`OwnKeysOK`) and with nothing
  that another has written (`OthersKeysOK`); without the last two, `KeysUnique` is
  not inductive. `MovesNeverCollide` looks at the first row that the second flush
  would send, in the order of the keys.

`DocumentFeedProofs`, from `FeedAssumption`, `~MovesWhilePaging` and
`OverlapSuffices`:

- `NothingFallsBehind`: `MissedIsStillAhead`. It is not inductive within a poll,
  where the watermark of the next poll moves while pages are left: `PagingOK` says
  that what is missed was committed after the poll began, or is on a page to come
  and not older than anything read; `TimesOK` bounds how long ago either can be.

`ExcelImportProofs`, from `ConstantAssumption`, for any workbooks:

- `ChildrenFindTheirEntity`: `ChildrenUnderNamedEntity`. `ImportInv`: the ids read
  for the sheet's names are those of live entities with these names, but for the
  ones deleted, renamed or deactivated since (`IdsOK`), and a row to be written
  stems from one of the workbook for the id of its name (`AddsOK`).
- `SecondImportAddsNothing`: `RepeatAddsNothing`. `RepeatInv` adds what an import
  has done with the rows that are not left any more (`DoneOK`), that the tables hold
  all of it while nobody else has changed them (`LastOK`), and that a repetition
  has so far written what is there, and collected only rows that replace committed
  ones (`AgainOK`). The children are as many as before because the rows added
  and the rows replaced are in a bijection, from the unique constraints
  (`TablesOK`).
- `OwnersOwnAll`: `StoredSharesSumTo100`. `SharesInv` adds that the children collected
  for an entity that had none come to the sum of its owners' rows read so far, but for
  half a hundredth for each (`SumsOK`, `Near`; `RoundsToNearest` and `NearNext` are
  about one more rounded share). It is about two sums over different sets, of
  children and of lines of the sheet; the lemmas before it (`SumWith`, `SumWithout`,
  `SumOfImages`, ...) say how such a sum changes when an element comes or goes, and
  that it is the same for sets in a bijection that keeps the summands.

`RateLimiterProofs`, from `LimiterAssumption`, for any clients, limits and windows:

- `LimitsAreKept`, `TableStaysBounded`, `WaitingSuffices`: `LimitHolds`,
  `TableIsBounded`, `RetryAfterSuffices`. `LimitHolds` speaks of a history the code
  does not keep; `LimiterInv` adds that the table has exactly what was admitted
  since it last lost times of the client (`AgreeOK`), that this is within both limits
  (`WithinOK`), and that no time is younger than the client's silence (`SilentOK`).

`RequestPathProofs`, from `PathAssumption`, for any number of slots, any pool and
any inputs:

- `AnswersHold`, `ConnectionsHold`: `AnswersMatchEffects` and
  `ConnectionsComeBack`. `Stages` says for every stage what has become of the
  changes and what was answered (`StageOK`); at the stage "idle" it is the first
  property, which by itself is not inductive. One lemma (`OneSlot`) covers every
  action: it moves one slot from one legal stage to another and no connection is
  taken without a free one.

`ResponseCacheProofs`, from `CacheAssumption`:

- `StaleValuesExplained`: `StaleIsExplained`. `Calls` says what a call holds at
  each stage, and `Covered` that an outdated stored value that nothing else
  explains is still to be met by a running invalidation (`Reaches`): it is in the
  keys about to be deleted, or the scan is still to come. The property alone is
  not inductive, because a delete must know that its scan saw the key.

Only model-checked:

- Liveness (`ImportTerminates`, `EveryRequestAnswered`, `EveryChangeIsTaken`,
  `EveryRunEnds`, `EveryRequestEnds`): the prover does not reason about fairness.
- `VersionMatchesSchema` and `RefusalsAreAboutData`: `Migrations` has no constants,
  so that TLC's run already covers every behaviour.

## Not modelled

- Cells, formats, HTML, logging and error texts are abstracted to what a property
  tells apart. `_resolve_manifest` and `load_entity_map` turn an argument into a
  path or a map before anything happens.
- Lists and detail pages of entities and documents only read; `RequestPath` has
  their sessions. The path checks of `resolve_stored_file` are a function of an
  id and a MIME type.
- Correlation identifiers and security headers: a request's task has its own
  context, which is dropped with it; no step of one request sees another's.
- Settings, exception classes, log filters and Sentry: pure functions of one value
  each. A missing key is one of the refusals of `RequestPath`.
- Schemas and the models without operations of their own; validation of an
  entity's body is in the sets of bodies of `EntityStore`.
- A clock that jumps: `RateLimiter` takes `time.time()` as monotonic.
- `get_cache_stats`, which only reads counters.
- Development tools (`scripts/check_*.py` and the like) read source files and print a
  verdict; they are not part of the running system.

What happens below a database statement, a Redis call or a file operation is taken
as PostgreSQL, SQLAlchemy, Alembic, Redis and POSIX document it; those definitions
are marked external in `PROJECT.json`.

## Plan

1. Done: all modules above, their runs, and the theorems listed.
2. Left to model: the file endpoint next to an import that publishes (what a
   download sees while a file is replaced), clients that disconnect while they
   are answered.
