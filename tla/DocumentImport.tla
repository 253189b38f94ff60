--------------------------- MODULE DocumentImport ---------------------------
(***************************************************************************)
(* The manifest-driven document import of                                  *)
(* services/document_import.py, as cli/import_documents.py drives it: one  *)
(* importer process, the documents table, the documents root and the       *)
(* administrator's source directory.                                       *)
(*                                                                         *)
(* A document is identified with its source file: the code derives the id  *)
(* from the file's path (uuid5), so the two are in bijection, and so is    *)
(* the stored file's name, because the MIME type is a function of the path *)
(* too.  Bytes stands for file contents; SHA-256 is taken to be injective, *)
(* so a digest and the bytes it names are the same value.  Metas abstracts *)
(* the other manifest columns.                                             *)
(***************************************************************************)
EXTENDS Naturals, Sequences

CONSTANTS
    Docs,       \* documents, each with its source file and its stored name
    Bytes,      \* file contents, and so SHA-256 digests
    Metas,      \* the metadata cells of a manifest row
    Entities,   \* rows of the entities table
    EntityOf,   \* the entity a row's metadata names
    Manifests,  \* manifests that read_manifest accepts: rows, distinct files
    None,       \* no value
    Missing,    \* contents of a file that does not exist
    MaxRuns,    \* bound: how often the command is run
    MaxEdits,   \* bound: changes of the source directory
    MaxFaults   \* bound: crashes, I/O and database failures, acts by hand

ManifestRow == [doc : Docs, meta : Metas]
Contents    == Bytes \cup {Missing}
DocRow      == [sha : Bytes, meta : Metas, deleted : BOOLEAN]
Write       == [sha : Bytes, meta : Metas]

ASSUME ValueAssumption ==
    /\ None \notin Contents \cup DocRow \cup Write
    /\ Missing \notin Bytes

ASSUME EntityAssumption == EntityOf \in [Metas -> Entities]

\* read_manifest refuses an empty manifest and a file named twice.
ASSUME ManifestAssumption ==
    \A m \in Manifests :
        /\ m \in Seq(ManifestRow)
        /\ Len(m) > 0
        /\ \A i, j \in 1..Len(m) : m[i].doc = m[j].doc => i = j

ASSUME BoundAssumption ==
    /\ MaxRuns \in Nat
    /\ MaxEdits \in Nat
    /\ MaxFaults \in Nat

VARIABLES
    \* The world the importer works on
    source,     \* contents of each source file
    row,        \* committed rows of the documents table
    file,       \* contents of each final name under the documents root
    temps,      \* staging files on disk, each <<run, doc>>
    liveEnt,    \* entities that are not soft-deleted
    \* The importer process
    pc,         \* where it is
    run,        \* which run of the command this is
    manifest,   \* rows being imported
    pos,        \* the row of the loop in _record_rows
    live,       \* apply_import's result of live_entity_ids
    sha,        \* digest of the current row's source
    staged,     \* StagedFiles._pending: contents of each staged file
    writes,     \* the session's unflushed changes
    hashes,     \* _Tally.staged_hashes
    skipped,    \* digests of the rows in _Tally.duplicate_lines
    outcome,    \* what the tally counts each document as
    result,     \* how the last finished run ended
    \* Bounds and history
    edits, faults,
    littered,   \* runs that were killed or could not unlink their files
    damaged,    \* documents an incident left without their bytes
    removed     \* documents whose file was deleted by hand since the run began

world  == <<source, row, file, temps, liveEnt>>
local  == <<pc, run, manifest, pos, live, sha, staged, writes, hashes,
            skipped, outcome, result>>
ghosts == <<edits, faults, littered, damaged, removed>>
vars   == <<world, local, ghosts>>

Outcomes == {"none", "created", "updated", "unchanged", "duplicate", "deleted"}
Steps    == {"idle", "entities", "hash", "lookup", "dedup", "stage", "commit",
             "publish", "discard"}

IsLive(d)  == row[d] # None /\ ~row[d].deleted
Current    == manifest[pos].doc
CurMeta    == manifest[pos].meta
StagedDocs == {d \in Docs : staged[d] # None}
Nothing    == [d \in Docs |-> None]

TypeOK ==
    /\ source \in [Docs -> Contents]
    /\ row \in [Docs -> DocRow \cup {None}]
    /\ file \in [Docs -> Contents]
    /\ temps \subseteq Nat \X Docs
    /\ liveEnt \subseteq Entities
    /\ pc \in Steps
    /\ run \in Nat
    /\ manifest \in Manifests \cup {<<>>}
    /\ pos \in Nat \ {0}
    /\ live \subseteq Entities
    /\ sha \in Bytes \cup {None}
    /\ staged \in [Docs -> Contents \cup {None}]
    /\ writes \in [Docs -> Write \cup {None}]
    /\ hashes \subseteq Bytes
    /\ skipped \subseteq Bytes
    /\ outcome \in [Docs -> Outcomes]
    /\ result \in {"none", "ok", "invalid", "failed", "killed"}
    /\ edits \in Nat
    /\ faults \in Nat
    /\ littered \subseteq Nat
    /\ damaged \subseteq Docs
    /\ removed \subseteq Docs

Init ==
    /\ source \in [Docs -> Bytes]
    /\ row = Nothing
    /\ file = [d \in Docs |-> Missing]
    /\ temps = {}
    /\ liveEnt = Entities
    /\ pc = "idle"
    /\ run = 0
    /\ manifest = <<>>
    /\ pos = 1
    /\ live = {}
    /\ sha = None
    /\ staged = Nothing
    /\ writes = Nothing
    /\ hashes = {}
    /\ skipped = {}
    /\ outcome = [d \in Docs |-> "none"]
    /\ result = "none"
    /\ edits = 0
    /\ faults = 0
    /\ littered = {}
    /\ damaged = {}
    /\ removed = {}

-----------------------------------------------------------------------------
(***************************************************************************)
(* The importer.                                                           *)
(***************************************************************************)

\* The command starts: read_manifest accepts the manifest, which needs every
\* file to exist, and apply_import begins with an empty session and tally.
Start(m) ==
    /\ pc = "idle"
    /\ run < MaxRuns
    /\ \A i \in 1..Len(m) : source[m[i].doc] # Missing
    /\ pc' = "entities"
    /\ run' = run + 1
    /\ manifest' = m
    /\ pos' = 1
    /\ live' = {}
    /\ sha' = None
    /\ staged' = Nothing
    /\ writes' = Nothing
    /\ hashes' = {}
    /\ skipped' = {}
    /\ outcome' = [d \in Docs |-> "none"]
    /\ result' = "none"
    /\ removed' = {}
    /\ UNCHANGED <<world, edits, faults, littered, damaged>>

\* Mutant of AllLive: one live entity is enough.
SomeLive(wanted) == wanted \cap liveEnt # {}

\* Every row's entity must exist and be live.
AllLive(wanted) == wanted \subseteq liveEnt

\* apply_import asks for the live entities among those the rows name, and
\* refuses the whole import when one is not there.
CheckEntities ==
    LET wanted == {EntityOf[manifest[i].meta] : i \in 1..Len(manifest)} IN
    /\ pc = "entities"
    /\ live' = wanted \cap liveEnt
    /\ IF AllLive(wanted)
       THEN pc' = "hash"    /\ UNCHANGED result
       ELSE pc' = "idle"    /\ result' = "invalid"
    /\ UNCHANGED <<world, run, manifest, pos, sha, staged, writes, hashes,
                   skipped, outcome, ghosts>>

\* Mutant of Advance: the files are published before the commit.
AdvanceToPublish ==
    /\ pos' = pos + 1
    /\ pc' = IF pos = Len(manifest) THEN "publish" ELSE "hash"

\* The row is done: the loop goes on, or the last row leads to the commit.
Advance ==
    /\ pos' = pos + 1
    /\ pc' = IF pos = Len(manifest) THEN "commit" ELSE "hash"

\* Mutant of SourceReadable: a file that vanished is hashed as if it were empty.
HashAnyway == TRUE

\* The file is still there; to open one that vanished raises OSError.
SourceReadable == source[Current] # Missing

\* sha256_file(row.source).
HashSource ==
    /\ pc = "hash"
    /\ \/ /\ SourceReadable
          /\ sha' = source[Current]
          /\ pc' = "lookup"
       \/ /\ ~SourceReadable
          /\ pc' = "discard"
          /\ UNCHANGED sha
    /\ UNCHANGED <<world, run, manifest, pos, live, staged, writes, hashes,
                   skipped, outcome, result, ghosts>>

\* repo.get finds no row: _create_row goes on to look for the same bytes.
LookupNew ==
    /\ pc = "lookup"
    /\ row[Current] = None
    /\ pc' = "dedup"
    /\ UNCHANGED <<world, run, manifest, pos, live, sha, staged, writes,
                   hashes, skipped, outcome, result, ghosts>>

\* repo.get finds a soft-deleted row: it is counted and left alone.
LookupDeleted ==
    /\ pc = "lookup"
    /\ row[Current] # None
    /\ row[Current].deleted
    /\ outcome' = [outcome EXCEPT ![Current] = "deleted"]
    /\ Advance
    /\ UNCHANGED <<world, run, manifest, live, sha, staged, writes, hashes,
                   skipped, result, ghosts>>

\* Mutant of MustRestage: only the row is compared, not the stored bytes.
RowDiffers(d) == row[d].sha # sha

\* _update_row copies the file again when the row or the store disagrees with
\* the source.
MustRestage(d) == row[d].sha # sha \/ file[d] # sha

\* repo.get finds a live row that needs its file staged again.
LookupStale ==
    /\ pc = "lookup"
    /\ IsLive(Current)
    /\ MustRestage(Current)
    /\ pc' = "stage"
    /\ UNCHANGED <<world, run, manifest, pos, live, sha, staged, writes,
                   hashes, skipped, outcome, result, ghosts>>

\* repo.get finds a live row whose stored bytes are right: only metadata may
\* change.
LookupSame ==
    /\ pc = "lookup"
    /\ IsLive(Current)
    /\ ~MustRestage(Current)
    /\ \/ /\ row[Current].meta = CurMeta
          /\ outcome' = [outcome EXCEPT ![Current] = "unchanged"]
          /\ UNCHANGED writes
       \/ /\ row[Current].meta # CurMeta
          /\ outcome' = [outcome EXCEPT ![Current] = "updated"]
          /\ writes' = [writes EXCEPT
                            ![Current] = [sha |-> sha, meta |-> CurMeta]]
    /\ hashes' = hashes \cup {sha}
    /\ Advance
    /\ UNCHANGED <<world, run, manifest, live, sha, staged, skipped, result,
                   ghosts>>

\* Mutant of AlreadyStored: staged_hashes is not consulted.
CommittedAlready(b) == \E d \in Docs : IsLive(d) /\ row[d].sha = b

\* The bytes are held already: by a row of this run, or by a committed live
\* row.  The session does not autoflush, so live_id_with_sha reads committed
\* rows and misses what this run has changed in them.
AlreadyStored(b) ==
    b \in hashes \/ \E d \in Docs : IsLive(d) /\ row[d].sha = b

\* _create_row skips a new row whose bytes are held already.
SkipDuplicate ==
    /\ pc = "dedup"
    /\ AlreadyStored(sha)
    /\ skipped' = skipped \cup {sha}
    /\ outcome' = [outcome EXCEPT ![Current] = "duplicate"]
    /\ Advance
    /\ UNCHANGED <<world, run, manifest, live, sha, staged, writes, hashes,
                   result, ghosts>>

\* _create_row goes on to stage a new row's file.
KeepNew ==
    /\ pc = "dedup"
    /\ ~AlreadyStored(sha)
    /\ pc' = "stage"
    /\ UNCHANGED <<world, run, manifest, pos, live, sha, staged, writes,
                   hashes, skipped, outcome, result, ghosts>>

\* StagedFiles.stage registers the temporary file before it copies anything.
Register(contents) ==
    /\ temps' = temps \cup {<<run, Current>>}
    /\ staged' = [staged EXCEPT ![Current] = contents]

\* Mutant of CopyMatches: the copied bytes are not compared.
CopyExists == source[Current] # Missing

\* What is copied now has the digest that was taken when the row was hashed.
CopyMatches == source[Current] = sha

\* _stage_row copies the source and finds the digest taken earlier; the row
\* is added to the session, or the existing row's fields are set.
StageRow ==
    /\ pc = "stage"
    /\ CopyMatches
    /\ Register(source[Current])
    /\ writes' = [writes EXCEPT ![Current] = [sha |-> sha, meta |-> CurMeta]]
    /\ hashes' = hashes \cup {sha}
    /\ outcome' = [outcome EXCEPT
                      ![Current] = IF row[Current] = None THEN "created"
                                                          ELSE "updated"]
    /\ Advance
    /\ UNCHANGED <<source, row, file, liveEnt, run, manifest, live, sha,
                   skipped, result, ghosts>>

\* _stage_row finds the file gone or changed since it was hashed and raises.
StageChanged ==
    /\ pc = "stage"
    /\ ~CopyMatches
    /\ Register(source[Current])
    /\ pc' = "discard"
    /\ UNCHANGED <<source, row, file, liveEnt, run, manifest, pos, live, sha,
                   writes, hashes, skipped, outcome, result, ghosts>>

\* Mutant of Flushed: an UPDATE writes the whole row as it was read.
FlushedWhole ==
    [d \in Docs |->
        IF writes[d] = None THEN row[d]
        ELSE [sha |-> writes[d].sha, meta |-> writes[d].meta,
              deleted |-> FALSE]]

\* The rows after the session's changes reach the database.  An UPDATE names
\* the changed columns only, so deleted_at is as the database has it.
Flushed ==
    [d \in Docs |->
        IF writes[d] = None THEN row[d]
        ELSE [sha |-> writes[d].sha, meta |-> writes[d].meta,
              deleted |-> row[d] # None /\ row[d].deleted]]

\* flush and commit succeed.
Commit ==
    /\ pc = "commit"
    /\ row' = Flushed
    /\ writes' = Nothing
    /\ pc' = "publish"
    /\ UNCHANGED <<source, file, temps, liveEnt, run, manifest, pos, live,
                   sha, staged, hashes, skipped, outcome, result, edits,
                   faults, littered, damaged, removed>>

\* Mutant of IsFirstStaged: the file itself counts as one before it.
NoneStagedUpTo(i) ==
    /\ staged[manifest[i].doc] # None
    /\ \A j \in 1..i : staged[manifest[j].doc] = None

\* StagedFiles.publish renames the staged files in the order of the rows.
IsFirstStaged(i) ==
    /\ staged[manifest[i].doc] # None
    /\ \A j \in 1..(i - 1) : staged[manifest[j].doc] = None

PublishNth(i) ==
    LET d == manifest[i].doc IN
    /\ IsFirstStaged(i)
    /\ file' = [file EXCEPT ![d] = staged[d]]
    /\ temps' = temps \ {<<run, d>>}
    /\ staged' = [staged EXCEPT ![d] = None]
    /\ damaged' = damaged \ {d}
    /\ removed' = removed \ {d}

PublishFile ==
    /\ pc = "publish"
    /\ \E i \in 1..Len(manifest) : PublishNth(i)
    /\ UNCHANGED <<source, row, liveEnt, pc, run, manifest, pos, live, sha,
                   writes, hashes, skipped, outcome, result, edits, faults,
                   littered>>

\* Nothing is left to rename: the import returns its counts.
Finish ==
    /\ pc = "publish"
    /\ StagedDocs = {}
    /\ pc' = "idle"
    /\ result' = "ok"
    /\ UNCHANGED <<world, run, manifest, pos, live, sha, staged, writes,
                   hashes, skipped, outcome, ghosts>>

\* Mutant of RemoveStaged: the list is cleared, the files are not unlinked.
ForgetStaged ==
    /\ staged' = Nothing
    /\ UNCHANGED temps

\* StagedFiles._remove on every file that is still staged.
RemoveStaged ==
    /\ temps' = temps \ ({run} \X StagedDocs)
    /\ staged' = Nothing

\* The handler of apply_import: discard, re-raise, roll the session back.
Discard ==
    /\ pc = "discard"
    /\ RemoveStaged
    /\ writes' = Nothing
    /\ pc' = "idle"
    /\ result' = "failed"
    /\ UNCHANGED <<source, row, file, liveEnt, run, manifest, pos, live, sha,
                   hashes, skipped, outcome, ghosts>>

ImporterStep ==
    \/ CheckEntities \/ HashSource
    \/ LookupNew \/ LookupDeleted \/ LookupStale \/ LookupSame
    \/ SkipDuplicate \/ KeepNew \/ StageRow \/ StageChanged
    \/ Commit \/ PublishFile \/ Finish \/ Discard

-----------------------------------------------------------------------------
(***************************************************************************)
(* What goes wrong, and what others do to the same data.                   *)
(***************************************************************************)

Fault == faults < MaxFaults /\ faults' = faults + 1

\* Reading, copying or a database call fails before anything is committed.
StepFails ==
    /\ Fault
    /\ pc \in {"entities", "hash", "lookup", "dedup", "stage", "commit"}
    /\ pc' = IF pc = "entities" THEN "idle" ELSE "discard"
    /\ result' = IF pc = "entities" THEN "failed" ELSE result
    /\ UNCHANGED <<world, run, manifest, pos, live, sha, staged, writes,
                   hashes, skipped, outcome, edits, littered, damaged,
                   removed>>

\* Copying fails after the temporary file was made, as on a full disk.
StageFails ==
    /\ Fault
    /\ pc = "stage"
    /\ Register(Missing)
    /\ pc' = "discard"
    /\ UNCHANGED <<source, row, file, liveEnt, run, manifest, pos, live, sha,
                   writes, hashes, skipped, outcome, result, edits, littered,
                   damaged, removed>>

\* The database commits, but the connection is lost before it says so.
CommitUnacknowledged ==
    /\ Fault
    /\ pc = "commit"
    /\ row' = Flushed
    /\ writes' = Nothing
    /\ pc' = "discard"
    /\ damaged' = damaged \cup StagedDocs
    /\ UNCHANGED <<source, file, temps, liveEnt, run, manifest, pos, live,
                   sha, staged, hashes, skipped, outcome, result, edits,
                   littered, removed>>

\* StagedFiles._remove where some of the files cannot be unlinked: the error is
\* suppressed, and they stay.
RemoveAllBut(kept) ==
    /\ temps' = temps \ ({run} \X (StagedDocs \ kept))
    /\ staged' = Nothing
    /\ littered' = IF kept = {} THEN littered ELSE littered \cup {run}

\* A staged file cannot be unlinked.
UnlinkFails ==
    /\ Fault
    /\ pc = "discard"
    /\ \E kept \in SUBSET StagedDocs \ {{}} : RemoveAllBut(kept)
    /\ writes' = Nothing
    /\ pc' = "idle"
    /\ result' = "failed"
    /\ UNCHANGED <<source, row, file, liveEnt, run, manifest, pos, live, sha,
                   hashes, skipped, outcome, edits, damaged, removed>>

\* A rename fails: publish deletes what it has not renamed, as far as it can, and
\* raises.
PublishFails ==
    /\ Fault
    /\ pc = "publish"
    /\ StagedDocs # {}
    /\ \E kept \in SUBSET StagedDocs : RemoveAllBut(kept)
    /\ pc' = "idle"
    /\ result' = "failed"
    /\ damaged' = damaged \cup StagedDocs
    /\ UNCHANGED <<source, row, file, liveEnt, run, manifest, pos, live, sha,
                   writes, hashes, skipped, outcome, edits, removed>>

\* The process is killed.  The database rolls an open transaction back; the
\* temporary files stay.
Crash ==
    /\ Fault
    /\ pc # "idle"
    /\ pc' = "idle"
    /\ result' = "killed"
    /\ staged' = Nothing
    /\ writes' = Nothing
    /\ littered' = littered \cup {run}
    /\ damaged' = IF pc = "publish" THEN damaged \cup StagedDocs ELSE damaged
    /\ UNCHANGED <<world, run, manifest, pos, live, sha, hashes, skipped,
                   outcome, edits, removed>>

\* The administrator replaces or removes a source file.
EditSource(d, c) ==
    /\ edits < MaxEdits
    /\ source[d] # c
    /\ source' = [source EXCEPT ![d] = c]
    /\ edits' = edits + 1
    /\ UNCHANGED <<row, file, temps, liveEnt, local, faults, littered, damaged,
                   removed>>

\* A stored file is deleted by hand.
RemoveByHand(d) ==
    /\ Fault
    /\ file[d] # Missing
    /\ file' = [file EXCEPT ![d] = Missing]
    /\ damaged' = damaged \cup {d}
    /\ removed' = removed \cup {d}
    /\ UNCHANGED <<source, row, temps, liveEnt, local, edits, littered>>

\* A document is soft-deleted by an operator.
SoftDelete(d) ==
    /\ Fault
    /\ IsLive(d)
    /\ row' = [row EXCEPT ![d].deleted = TRUE]
    /\ UNCHANGED <<source, file, temps, liveEnt, local, edits, littered,
                   damaged, removed>>

\* The API's delete_entity stamps an entity.
DeleteEntity(e) ==
    /\ Fault
    /\ e \in liveEnt
    /\ liveEnt' = liveEnt \ {e}
    /\ UNCHANGED <<source, row, file, temps, local, edits, littered, damaged,
                   removed>>

Environment ==
    \/ StepFails \/ StageFails \/ CommitUnacknowledged \/ UnlinkFails
    \/ PublishFails \/ Crash
    \/ \E d \in Docs, c \in Contents : EditSource(d, c)
    \/ \E d \in Docs : RemoveByHand(d) \/ SoftDelete(d)
    \/ \E e \in Entities : DeleteEntity(e)

Next ==
    \/ \E m \in Manifests : Start(m)
    \/ ImporterStep
    \/ Environment

Spec == Init /\ [][Next]_vars

\* A process that is not killed goes on: nothing in the importer waits for
\* another process.
FairSpec == Spec /\ WF_vars(ImporterStep)

-----------------------------------------------------------------------------
(***************************************************************************)
(* Properties.                                                             *)
(***************************************************************************)

\* The store agrees with the table: unless a crash, a failure after the commit
\* or a deletion by hand is to blame, the bytes a row claims are under its
\* final name, or staged and about to be renamed (apply_import's order of
\* stage, commit and publish).
StoreMatchesRows ==
    \A d \in Docs :
        row[d] # None /\ d \notin damaged =>
            \/ file[d] = row[d].sha
            \/ pc = "publish" /\ staged[d] = row[d].sha

\* "Nothing reaches a final name until the caller has committed": a final name
\* only ever gets the bytes that its committed row claims, or is deleted by
\* hand (StagedFiles).
PublishOnlyCommitted ==
    [][\A d \in Docs :
          file'[d] # file[d] =>
              \/ row[d] # None /\ file'[d] = row[d].sha
              \/ file'[d] = Missing /\ d \in removed']_vars

\* "The next import repairs them": when a run succeeds, every document of its
\* manifest was counted, and each one counted as created, updated or unchanged
\* has a row whose bytes are under the final name, whatever earlier runs left
\* behind, unless the file was deleted by hand meanwhile (_update_row).
SuccessfulImportRepairs ==
    result = "ok" =>
        \A i \in 1..Len(manifest) :
            LET d == manifest[i].doc IN
            /\ outcome[d] # "none"
            /\ outcome[d] \in {"created", "updated", "unchanged"} =>
                 /\ row[d] # None
                 /\ row[d].meta = manifest[i].meta
                 /\ d \in removed \/ file[d] = row[d].sha

\* A staging file is on disk only for the run in progress, or because a run
\* was killed or could not unlink it: every other end of apply_import removes
\* its own.
NoStrayTemps ==
    \A t \in temps :
        \/ t[1] \in littered
        \/ pc # "idle" /\ t[1] = run /\ staged[t[2]] # None

\* The rows of a manifest are recorded together: a step that records one
\* document records every document of the manifest that is not counted as
\* unchanged, skipped or deleted, and each names an entity that the run found
\* live (apply_import).
RecordsWholeManifest ==
    [][\A d \in Docs :
          (\/ row[d] = None /\ row'[d] # None
           \/ row[d] # None /\ row'[d].sha # row[d].sha
           \/ row[d] # None /\ row'[d].meta # row[d].meta) =>
              \A i \in 1..Len(manifest) :
                  LET e == manifest[i].doc IN
                  /\ EntityOf[manifest[i].meta] \in live
                  /\ outcome[e] # "none"
                  /\ outcome[e] \in {"created", "updated"} =>
                        row'[e] # None /\ row'[e].meta = manifest[i].meta]_vars

\* A new document shares its bytes, when it is recorded, with no other live
\* document but one: a stored document whose bytes change to them in the same
\* import, on a later line of the manifest.  _create_row looks for the bytes among
\* the live rows and in staged_hashes, which has those of the lines before it;
\* _update_row looks for none.
OnlyLaterUpdatesShareNewBytes ==
    [][\A d \in Docs, e \in Docs :
          (/\ d # e /\ row[d] = None /\ row'[d] # None
           /\ row'[e] # None /\ ~row'[e].deleted /\ row'[e].sha = row'[d].sha) =>
              /\ IsLive(e) /\ row[e].sha # row'[d].sha
              /\ \E j \in 1..Len(manifest) : \E i \in 1..(j - 1) :
                    manifest[i].doc = d /\ manifest[j].doc = e]_vars

\* A run that is started ends: with its counts, with an error or killed.
ImportTerminates == (pc # "idle") ~> (pc = "idle")

\* ImportResult: "New rows skipped because identical bytes are already stored
\* under another document", read as a claim about the rows when the run ends.
SkippedBytesAreRecorded ==
    result = "ok" =>
        \A b \in skipped : \E d \in Docs : row[d] # None /\ row[d].sha = b

\* The abstract store's state: rows claim, final names store, and what is
\* still staged after the commit is pending.
Claimed     == [d \in Docs |-> IF row[d] = None THEN None ELSE row[d].sha]
DeletedDocs == {d \in Docs : row[d] # None /\ row[d].deleted}
Pending     == IF pc = "publish" THEN StagedDocs ELSE {}

Store == INSTANCE DocumentStore WITH
    claimed <- Claimed, deleted <- DeletedDocs, stored <- file,
    pending <- Pending

\* The import implements the abstract store: rows are claimed at one instant,
\* a final name gets claimed bytes only, and a soft-deleted document is never
\* brought back, even one that was deleted after the run read its row
\* (apply_import as a whole).
ImplementsStore == Store!Spec
=============================================================================
