------------------------ MODULE DocumentImportProofs ------------------------
(***************************************************************************)
(* Theorems about DocumentImport, for every set of documents, contents,    *)
(* entities and manifests and every bound, and about ManifestCheck, for    *)
(* every source directory and every text of a manifest.                    *)
(***************************************************************************)
EXTENDS ImportCommand, FiniteSetTheorems, WellFoundedInduction, TLAPS

LoopSteps == {"entities", "hash", "lookup", "dedup", "stage"}

\* What the importer's control keeps true: the loop is inside the manifest,
\* and the digest of the current row is known once the row was hashed.
ControlOK ==
    /\ pc # "idle" => manifest \in Manifests
    /\ pc \in LoopSteps => pos \in 1..Len(manifest)
    /\ pc \in {"lookup", "dedup", "stage"} => sha \in Bytes

TypeInv == TypeOK /\ ControlOK

\* A row of an accepted manifest names a document and has metadata.
LEMMA ManifestRows ==
    ASSUME NEW m \in Manifests, NEW i \in 1..Len(m)
    PROVE  m[i] \in ManifestRow /\ m[i].doc \in Docs /\ m[i].meta \in Metas
<1>1. m \in Seq(ManifestRow)
  BY ManifestAssumption
<1>2. m[i] \in ManifestRow
  BY <1>1
<1> QED
  BY <1>2 DEF ManifestRow

\* The current row of the loop names a document and has metadata.
LEMMA CurrentRow ==
    ASSUME TypeInv, pc \in LoopSteps
    PROVE  Current \in Docs /\ CurMeta \in Metas
BY ManifestRows
DEF TypeInv, TypeOK, ControlOK, LoopSteps, Steps, Current, CurMeta

\* Leaving a row of the loop keeps the loop inside the manifest.
LEMMA AdvanceControl ==
    ASSUME TypeInv, pc \in LoopSteps, Advance
    PROVE  /\ pos' \in Nat \ {0}
           /\ pc' \in {"hash", "commit"}
           /\ pc' = "hash" => pos' \in 1..Len(manifest)
<1>1. pos \in 1..Len(manifest) /\ manifest \in Manifests
  BY DEF TypeInv, ControlOK, LoopSteps
<1>2. Len(manifest) \in Nat
  BY <1>1, ManifestAssumption
<1> QED
  BY <1>1, <1>2 DEF Advance

\* The initial state is well typed.
LEMMA TypeInit == Init => TypeInv
BY DEF Init, TypeInv, TypeOK, ControlOK, Contents, Steps, Nothing, LoopSteps,
    Outcomes

\* Every step keeps the state well typed.
LEMMA TypeNext == TypeInv /\ [Next]_vars => TypeInv'
<1> SUFFICES ASSUME TypeInv, [Next]_vars PROVE TypeInv'
  OBVIOUS
<1> USE DEF TypeInv, TypeOK, ControlOK, LoopSteps, Steps
<1>1. ASSUME NEW m \in Manifests, Start(m) PROVE TypeInv'
  <2>1. Len(m) \in Nat /\ Len(m) > 0
    BY ManifestAssumption
  <2> QED
    BY <1>1, <2>1 DEF Start, world, Nothing, Outcomes
<1>2. CASE CheckEntities
  BY <1>2 DEF CheckEntities, world, ghosts
<1>3. CASE HashSource
  BY <1>3, CurrentRow DEF HashSource, SourceReadable, world, ghosts, Contents
<1>4. CASE LookupNew
  BY <1>4 DEF LookupNew, world, ghosts
<1>5. CASE LookupDeleted
  BY <1>5, AdvanceControl DEF LookupDeleted, world, ghosts, Outcomes
<1>6. CASE LookupStale
  BY <1>6 DEF LookupStale, world, ghosts
<1>7. CASE LookupSame
  <2>1. [sha |-> sha, meta |-> CurMeta] \in Write
    BY <1>7, CurrentRow DEF LookupSame, Write
  <2> QED
    BY <1>7, <2>1, AdvanceControl DEF LookupSame, world, ghosts, Outcomes
<1>8. CASE SkipDuplicate
  BY <1>8, AdvanceControl DEF SkipDuplicate, world, ghosts, Outcomes
<1>9. CASE KeepNew
  BY <1>9 DEF KeepNew, world, ghosts
<1>10. CASE StageRow
  <2>1. Current \in Docs /\ [sha |-> sha, meta |-> CurMeta] \in Write
    BY <1>10, CurrentRow DEF StageRow, Write
  <2> QED
    BY <1>10, <2>1, AdvanceControl DEF StageRow, Register, Outcomes, ghosts
<1>11. CASE StageChanged
  <2>1. Current \in Docs
    BY <1>11, CurrentRow DEF StageChanged
  <2> QED
    BY <1>11, <2>1 DEF StageChanged, Register, ghosts
<1>12. CASE Commit
  <2>1. Flushed \in [Docs -> DocRow \cup {None}]
    BY DEF Flushed, DocRow, Write
  <2> QED
    BY <1>12, <2>1 DEF Commit, Nothing
<1>13. CASE PublishFile
  <2>1. PICK i \in 1..Len(manifest) : PublishNth(i)
    BY <1>13 DEF PublishFile
  <2>2. manifest[i].doc \in Docs /\ staged[manifest[i].doc] \in Contents
    BY <1>13, <2>1, ManifestRows DEF PublishFile, PublishNth, IsFirstStaged
  <2> QED
    BY <1>13, <2>1, <2>2 DEF PublishFile, PublishNth
<1>14. CASE Finish
  BY <1>14 DEF Finish, world, ghosts
<1>15. CASE Discard
  BY <1>15 DEF Discard, RemoveStaged, Nothing, ghosts
<1>16. CASE StepFails
  BY <1>16 DEF StepFails, Fault, world
<1>17. CASE StageFails
  <2>1. Current \in Docs
    BY <1>17, CurrentRow DEF StageFails
  <2> QED
    BY <1>17, <2>1 DEF StageFails, Fault, Register, Contents
<1>18. CASE CommitUnacknowledged
  <2>1. Flushed \in [Docs -> DocRow \cup {None}]
    BY DEF Flushed, DocRow, Write
  <2> QED
    BY <1>18, <2>1
    DEF CommitUnacknowledged, Fault, Nothing, StagedDocs
<1>19. CASE PublishFails
  BY <1>19 DEF PublishFails, Fault, RemoveAllBut, Nothing, StagedDocs
<1>20. CASE Crash
  BY <1>20 DEF Crash, Fault, world, Nothing, StagedDocs
<1>21. ASSUME NEW d \in Docs, NEW c \in Contents, EditSource(d, c)
       PROVE  TypeInv'
  BY <1>21 DEF EditSource, local
<1>22. ASSUME NEW d \in Docs, RemoveByHand(d) PROVE TypeInv'
  BY <1>22 DEF RemoveByHand, Fault, local, Contents
<1>23. ASSUME NEW d \in Docs, SoftDelete(d) PROVE TypeInv'
  <2>1. row' \in [Docs -> DocRow \cup {None}]
    BY <1>23 DEF SoftDelete, IsLive, DocRow
  <2> QED
    BY <1>23, <2>1 DEF SoftDelete, Fault, local
<1>24. ASSUME NEW e \in Entities, DeleteEntity(e) PROVE TypeInv'
  BY <1>24 DEF DeleteEntity, Fault, local
<1>25. CASE UNCHANGED vars
  BY <1>25 DEF vars, world, local, ghosts
<1>26. CASE UnlinkFails
  BY <1>26 DEF UnlinkFails, Fault, RemoveAllBut, Nothing
<1> QED
  BY <1>1, <1>2, <1>3, <1>4, <1>5, <1>6, <1>7, <1>8, <1>9, <1>10, <1>11,
     <1>12, <1>13, <1>14, <1>15, <1>16, <1>17, <1>18, <1>19, <1>20, <1>21,
     <1>22, <1>23, <1>24, <1>25, <1>26 DEF Next, ImporterStep, Environment

\* The type invariant holds throughout.
THEOREM TypeCorrect == Spec => []TypeOK
<1>1. TypeInv => TypeOK
  BY DEF TypeInv
<1> QED
  BY <1>1, TypeInit, TypeNext, PTL DEF Spec

-----------------------------------------------------------------------------
(***************************************************************************)
(* The order of staging, committing and publishing.                        *)
(***************************************************************************)

WorkSteps == {"hash", "lookup", "dedup", "stage", "commit"}

\* Nothing is staged before the loop, and nothing is left to write after the
\* commit.
QuietOK ==
    /\ pc \in {"idle", "entities"} => staged = Nothing
    /\ pc \in {"idle", "entities", "publish"} => writes = Nothing

\* Until the commit, what is staged for a document is what the session is
\* going to write for it, and a write without a staged file keeps the digest.
StagedAsWritten ==
    pc \in WorkSteps =>
        \A d \in Docs :
            /\ staged[d] # None =>
                 writes[d] # None /\ writes[d].sha = staged[d]
            /\ writes[d] # None /\ staged[d] = None =>
                 row[d] # None /\ row[d].sha = writes[d].sha

\* After the commit, what is staged for a document is what its row claims.
StagedAsClaimed ==
    pc = "publish" =>
        \A d \in Docs :
            staged[d] # None => row[d] # None /\ row[d].sha = staged[d]

\* The rows that the loop has not done have nothing staged.
NotYetStaged ==
    pc \in LoopSteps =>
        \A i \in pos..Len(manifest) : staged[manifest[i].doc] = None

StagingInv ==
    /\ TypeInv
    /\ QuietOK
    /\ StagedAsWritten
    /\ StagedAsClaimed
    /\ NotYetStaged
    /\ StoreMatchesRows

\* Initially nothing is staged, claimed or stored.
LEMMA StagingInit == Init => StagingInv
BY TypeInit
DEF Init, StagingInv, QuietOK, StagedAsWritten, StagedAsClaimed, NotYetStaged,
    StoreMatchesRows, Nothing, WorkSteps, LoopSteps

\* Another row of the manifest names another document.
LEMMA OtherRows ==
    ASSUME TypeInv, pc # "idle", NEW i \in 1..Len(manifest),
           NEW j \in 1..Len(manifest), manifest[i].doc = manifest[j].doc
    PROVE  i = j
BY ManifestAssumption DEF TypeInv, ControlOK

\* The rows after the loop goes on are among those that were left before.
LEMMA AdvanceRows ==
    ASSUME TypeInv, pc \in LoopSteps, Advance, pc' \in LoopSteps
    PROVE  /\ pos'..Len(manifest) \subseteq pos..Len(manifest)
           /\ \A i \in pos'..Len(manifest) : manifest[i].doc # Current
<1>1. pos \in 1..Len(manifest) /\ manifest \in Manifests /\ pos' = pos + 1
  BY DEF TypeInv, ControlOK, Advance, LoopSteps
<1>2. Len(manifest) \in Nat
  BY <1>1, ManifestAssumption
<1>3. pos'..Len(manifest) \subseteq pos..Len(manifest)
  BY <1>1, <1>2
<1>4. ASSUME NEW i \in pos'..Len(manifest) PROVE manifest[i].doc # Current
  <2>1. i \in 1..Len(manifest) /\ i # pos
    BY <1>1, <1>2
  <2>2. pc # "idle"
    BY DEF LoopSteps
  <2> QED
    BY <1>1, <2>1, <2>2, OtherRows DEF Current
<1> QED
  BY <1>3, <1>4

\* A row claims bytes.
LEMMA ClaimedBytes ==
    ASSUME TypeInv, NEW d \in Docs, row[d] # None
    PROVE  row[d].sha \in Bytes /\ row[d].sha # None
BY ValueAssumption DEF TypeInv, TypeOK, DocRow, Contents

\* What a commit leaves in a document's row.
LEMMA FlushedRows ==
    ASSUME TypeInv, NEW d \in Docs
    PROVE  /\ writes[d] = None => Flushed[d] = row[d]
           /\ writes[d] # None => Flushed[d] # None
           /\ writes[d] # None => Flushed[d].sha = writes[d].sha
           /\ writes[d] # None => Flushed[d].meta = writes[d].meta
<1>1. ASSUME writes[d] # None
      PROVE  /\ Flushed[d] \in DocRow
             /\ Flushed[d].sha = writes[d].sha
             /\ Flushed[d].meta = writes[d].meta
  BY <1>1 DEF Flushed, TypeInv, TypeOK, DocRow, Write
<1> QED
  BY <1>1, ValueAssumption DEF Flushed

\* A soft delete changes no row's digest or metadata and removes no row.
LEMMA SoftDeleteRow ==
    ASSUME TypeInv, NEW d \in Docs, SoftDelete(d), NEW e \in Docs
    PROVE  /\ row'[e] # None <=> row[e] # None
           /\ row[e] # None => row'[e].sha = row[e].sha
           /\ row[e] # None => row'[e].meta = row[e].meta
<1>1. row[d] # None /\ row[d] \in DocRow
  BY DEF SoftDelete, IsLive, TypeInv, TypeOK
<1>2. PICK r : r = [row[d] EXCEPT !.deleted = TRUE]
  OBVIOUS
<1>3. r \in DocRow /\ r.sha = row[d].sha /\ r.meta = row[d].meta
  BY <1>1, <1>2 DEF DocRow
<1>4. row' = [row EXCEPT ![d] = r]
  BY <1>2 DEF SoftDelete
<1> QED
  BY <1>1, <1>3, <1>4, ValueAssumption DEF TypeInv, TypeOK

\* A soft delete marks the row.
LEMMA SoftDeleteMarks ==
    ASSUME TypeInv, NEW d \in Docs, SoftDelete(d)
    PROVE  row'[d] # None /\ row'[d].deleted
<1>1. row[d] # None /\ row[d] \in DocRow
  BY DEF SoftDelete, IsLive, TypeInv, TypeOK
<1>2. PICK r : r = [row[d] EXCEPT !.deleted = TRUE]
  OBVIOUS
<1>3. r \in DocRow /\ r.deleted
  BY <1>1, <1>2 DEF DocRow
<1>4. row' = [row EXCEPT ![d] = r]
  BY <1>2 DEF SoftDelete
<1> QED
  BY <1>3, <1>4, ValueAssumption DEF TypeInv, TypeOK

\* Every step keeps the order of staging, committing and publishing.
LEMMA StagingNext == StagingInv /\ [Next]_vars => StagingInv'
<1> SUFFICES ASSUME StagingInv, [Next]_vars PROVE StagingInv'
  OBVIOUS
<1> USE DEF StagingInv, QuietOK, StagedAsWritten, StagedAsClaimed,
            NotYetStaged, StoreMatchesRows, WorkSteps
<1>0. TypeInv /\ TypeInv'
  BY TypeNext
<1>1. ASSUME NEW m \in Manifests, Start(m) PROVE StagingInv'
  BY <1>0, <1>1, ManifestRows DEF Start, world, Nothing, LoopSteps
<1>2. CASE CheckEntities
  BY <1>0, <1>2 DEF CheckEntities, world, ghosts, Nothing, LoopSteps
<1>3. CASE HashSource
  BY <1>0, <1>3 DEF HashSource, world, ghosts, LoopSteps
<1>4. CASE LookupNew
  BY <1>0, <1>4 DEF LookupNew, world, ghosts, LoopSteps
<1>5. CASE LookupDeleted
  BY <1>0, <1>5, AdvanceControl, AdvanceRows
  DEF LookupDeleted, world, ghosts, LoopSteps
<1>6. CASE LookupStale
  BY <1>0, <1>6 DEF LookupStale, world, ghosts, LoopSteps
<1>7. CASE LookupSame
  <2>1. /\ Current \in Docs /\ row[Current] # None /\ row[Current].sha = sha
        /\ staged' = staged /\ row' = row /\ file' = file
        /\ damaged' = damaged
    BY <1>0, <1>7, CurrentRow
    DEF LookupSame, IsLive, MustRestage, LoopSteps, world, ghosts
  <2>2. pos \in pos..Len(manifest)
    BY <1>0, <1>7 DEF LookupSame, TypeInv, ControlOK, LoopSteps
  <2>3. staged[Current] = None
    BY <1>7, <2>2 DEF LookupSame, LoopSteps, Current
  <2>4. \/ writes' = writes
        \/ writes' = [writes EXCEPT
                          ![Current] = [sha |-> sha, meta |-> CurMeta]]
    BY <1>7 DEF LookupSame
  <2>5. pc' \in {"hash", "commit"}
    BY <1>0, <1>7, AdvanceControl DEF LookupSame, LoopSteps
  <2>6. StagedAsWritten'
    BY <1>0, <1>7, <2>1, <2>3, <2>4 DEF LookupSame, TypeInv, TypeOK
  <2>7. NotYetStaged'
    BY <1>0, <1>7, <2>1, AdvanceRows DEF LookupSame, LoopSteps
  <2>8. StoreMatchesRows'
    BY <1>7, <2>1, <2>5 DEF LookupSame
  <2> QED
    BY <1>0, <2>5, <2>6, <2>7, <2>8
<1>8. CASE SkipDuplicate
  BY <1>0, <1>8, AdvanceControl, AdvanceRows
  DEF SkipDuplicate, world, ghosts, LoopSteps
<1>9. CASE KeepNew
  BY <1>0, <1>9 DEF KeepNew, world, ghosts, LoopSteps
<1>10. CASE StageRow
  <2>1. /\ Current \in Docs /\ sha \in Bytes /\ CurMeta \in Metas
        /\ staged' = [staged EXCEPT ![Current] = sha]
        /\ writes' = [writes EXCEPT
                         ![Current] = [sha |-> sha, meta |-> CurMeta]]
        /\ row' = row /\ file' = file /\ damaged' = damaged
        /\ manifest' = manifest
    BY <1>0, <1>10, CurrentRow
    DEF StageRow, CopyMatches, Register, TypeInv, ControlOK, LoopSteps, ghosts
  <2>2. sha # None /\ [sha |-> sha, meta |-> CurMeta] # None
    BY <2>1, ValueAssumption DEF Write, Contents
  <2>3. pc' \in {"hash", "commit"}
    BY <1>0, <1>10, AdvanceControl DEF StageRow, LoopSteps
  <2>4. StagedAsWritten'
    BY <1>0, <1>10, <2>1, <2>2 DEF StageRow, TypeInv, TypeOK
  <2>5. NotYetStaged'
    <3> SUFFICES ASSUME pc' \in LoopSteps, NEW i \in pos' .. Len(manifest)
                 PROVE  staged'[manifest[i].doc] = None
      BY <2>1
    <3>1. i \in pos .. Len(manifest) /\ manifest[i].doc # Current
      BY <1>0, <1>10, AdvanceRows DEF StageRow, LoopSteps
    <3>2. staged[manifest[i].doc] = None
      BY <1>0, <1>10, <3>1 DEF StageRow, LoopSteps
    <3> QED
      BY <1>0, <2>1, <3>1, <3>2 DEF TypeInv, TypeOK
  <2>6. StoreMatchesRows'
    BY <1>10, <2>1, <2>3 DEF StageRow
  <2> QED
    BY <1>0, <2>3, <2>4, <2>5, <2>6
<1>11. CASE StageChanged
  BY <1>0, <1>11 DEF StageChanged, Register, ghosts, LoopSteps
<1>12. CASE Commit
  <2>1. /\ row' = Flushed /\ staged' = staged /\ file' = file
        /\ damaged' = damaged /\ pc' = "publish" /\ writes' = Nothing
    BY <1>12 DEF Commit
  <2>2. \A d \in Docs : staged[d] # None =>
                           row'[d] # None /\ row'[d].sha = staged[d]
    BY <1>0, <1>12, <2>1, FlushedRows DEF Commit
  <2>3. \A d \in Docs : staged[d] = None /\ row'[d] # None =>
                           row[d] # None /\ row'[d].sha = row[d].sha
    BY <1>0, <1>12, <2>1, FlushedRows DEF Commit
  <2>4. StoreMatchesRows'
    BY <1>12, <2>1, <2>2, <2>3 DEF Commit
  <2> QED
    BY <1>0, <2>1, <2>2, <2>4 DEF LoopSteps
<1>13. CASE PublishFile
  BY <1>0, <1>13
  DEF PublishFile, PublishNth, IsFirstStaged, LoopSteps, TypeInv, TypeOK
<1>14. CASE Finish
  <2>1. \A d \in Docs : staged[d] = None
    BY <1>14 DEF Finish, StagedDocs
  <2>2. staged = Nothing
    BY <1>0, <2>1 DEF TypeInv, TypeOK, Nothing
  <2>3. StoreMatchesRows'
    BY <1>0, <1>14, <2>1, ClaimedBytes DEF Finish, world, ghosts
  <2> QED
    BY <1>0, <1>14, <2>2, <2>3 DEF Finish, LoopSteps
<1>15. CASE Discard
  BY <1>0, <1>15 DEF Discard, RemoveStaged, ghosts, LoopSteps
<1>16. CASE StepFails
  BY <1>0, <1>16 DEF StepFails, Fault, world, LoopSteps
<1>17. CASE StageFails
  BY <1>0, <1>17 DEF StageFails, Fault, Register, LoopSteps
<1>18. CASE CommitUnacknowledged
  <2>1. /\ row' = Flushed /\ file' = file /\ pc' = "discard"
        /\ damaged' = damaged \cup StagedDocs
    BY <1>18 DEF CommitUnacknowledged
  <2>2. \A d \in Docs : staged[d] = None /\ row'[d] # None =>
                           row[d] # None /\ row'[d].sha = row[d].sha
    BY <1>0, <1>18, <2>1, FlushedRows DEF CommitUnacknowledged
  <2>3. StoreMatchesRows'
    BY <1>18, <2>1, <2>2 DEF CommitUnacknowledged, StagedDocs
  <2> QED
    BY <1>0, <2>1, <2>3 DEF LoopSteps
<1>19. CASE PublishFails
  <2>1. StoreMatchesRows'
    BY <1>0, <1>19, ClaimedBytes DEF PublishFails, StagedDocs
  <2> QED
    BY <1>0, <1>19, <2>1 DEF PublishFails, RemoveAllBut, LoopSteps
<1>20. CASE Crash
  <2>1. StoreMatchesRows'
    BY <1>0, <1>20, ClaimedBytes DEF Crash, world, StagedDocs
  <2> QED
    BY <1>0, <1>20, <2>1 DEF Crash, LoopSteps
<1>21. ASSUME NEW d \in Docs, NEW c \in Contents, EditSource(d, c)
       PROVE  StagingInv'
  BY <1>0, <1>21 DEF EditSource, local, LoopSteps
<1>22. ASSUME NEW d \in Docs, RemoveByHand(d) PROVE StagingInv'
  BY <1>0, <1>22 DEF RemoveByHand, Fault, local, LoopSteps, TypeInv, TypeOK
<1>23. ASSUME NEW d \in Docs, SoftDelete(d) PROVE StagingInv'
  <2>1. \A e \in Docs : /\ row'[e] # None => row[e] # None
                        /\ row[e] # None => row'[e] # None
                        /\ row[e] # None => row'[e].sha = row[e].sha
    BY <1>0, <1>23, SoftDeleteRow
  <2>2. UNCHANGED <<staged, writes, file, damaged, pc, pos, manifest>>
    BY <1>23 DEF SoftDelete, local
  <2> QED
    BY <1>0, <2>1, <2>2 DEF LoopSteps
<1>24. ASSUME NEW e \in Entities, DeleteEntity(e) PROVE StagingInv'
  BY <1>0, <1>24 DEF DeleteEntity, Fault, local, LoopSteps
<1>25. CASE UNCHANGED vars
  BY <1>0, <1>25 DEF vars, world, local, ghosts, LoopSteps
<1>26. CASE UnlinkFails
  BY <1>0, <1>26 DEF UnlinkFails, RemoveAllBut, LoopSteps
<1> QED
  BY <1>1, <1>2, <1>3, <1>4, <1>5, <1>6, <1>7, <1>8, <1>9, <1>10, <1>11,
     <1>12, <1>13, <1>14, <1>15, <1>16, <1>17, <1>18, <1>19, <1>20, <1>21,
     <1>22, <1>23, <1>24, <1>25, <1>26 DEF Next, ImporterStep, Environment

\* The stored bytes of a document are those its row claims, but for an
\* incident or a rename that is still to come.
THEOREM StoreAgrees == Spec => []StoreMatchesRows
<1>1. StagingInv => StoreMatchesRows
  BY DEF StagingInv
<1> QED
  BY <1>1, StagingInit, StagingNext, PTL DEF Spec

\* A final name only gets the bytes that the committed row claims, or is
\* deleted by hand.
LEMMA PublishStep ==
    ASSUME StagingInv, [Next]_vars, NEW d \in Docs, file'[d] # file[d]
    PROVE  \/ row[d] # None /\ file'[d] = row[d].sha
           \/ file'[d] = Missing /\ d \in removed'
<1> USE DEF StagingInv, TypeInv, TypeOK
<1>1. CASE PublishFile
  <2>1. PICK i \in 1..Len(manifest) : PublishNth(i)
    BY <1>1 DEF PublishFile
  <2>2. manifest[i].doc = d /\ file'[d] = staged[d] /\ staged[d] # None
    BY <2>1 DEF PublishNth, IsFirstStaged
  <2> QED
    BY <1>1, <2>2 DEF PublishFile, StagedAsClaimed
<1>2. ASSUME NEW e \in Docs, RemoveByHand(e)
      PROVE  file'[d] = Missing /\ d \in removed'
  BY <1>2 DEF RemoveByHand
<1>3. ASSUME ~PublishFile, \A e \in Docs : ~RemoveByHand(e)
      PROVE  file' = file
  BY <1>3
  DEF Next, ImporterStep, Environment, Start, CheckEntities, HashSource,
      LookupNew, LookupDeleted, LookupStale, LookupSame, SkipDuplicate,
      KeepNew, StageRow, StageChanged, Commit, Finish, Discard, StepFails,
      StageFails, CommitUnacknowledged, UnlinkFails, PublishFails, Crash,
      EditSource, SoftDelete, DeleteEntity, vars, world
<1> QED
  BY <1>1, <1>2, <1>3

\* Nothing reaches a final name before its row is committed.
THEOREM PublishesOnlyCommitted == Spec => PublishOnlyCommitted
<1>1. StagingInv /\ [Next]_vars =>
        [\A d \in Docs :
            file'[d] # file[d] =>
                \/ row[d] # None /\ file'[d] = row[d].sha
                \/ file'[d] = Missing /\ d \in removed']_vars
  BY PublishStep
<1> QED
  BY <1>1, StagingInit, StagingNext, PTL DEF Spec, PublishOnlyCommitted

-----------------------------------------------------------------------------
(***************************************************************************)
(* The import implements the abstract store.                               *)
(***************************************************************************)

\* A step that changes neither rows nor files nor what is pending is a stutter
\* of the abstract store.
LEMMA StoreStutter ==
    ASSUME row' = row, file' = file, Pending' = Pending
    PROVE  UNCHANGED Store!vars
BY DEF Store!vars, Claimed, DeletedDocs

\* Recording what the session wrote is one Record of the abstract store.
LEMMA FlushRecords ==
    ASSUME StagingInv, pc = "commit", row' = Flushed, file' = file,
           Pending' \in {StagedDocs, {}}
    PROVE  Store!Record
<1> USE DEF StagingInv
<1>1. Pending = {} /\ TypeInv
  BY DEF Pending
<1>2. \A d \in Docs :
        /\ writes[d] = None => row'[d] = row[d]
        /\ writes[d] # None => row'[d] # None /\ row'[d].sha = writes[d].sha
  BY <1>1, FlushedRows
<1>3. \A d \in Docs :
        /\ staged[d] # None => row'[d] # None /\ row'[d].sha = staged[d]
        /\ staged[d] = None => Claimed'[d] = Claimed[d]
  BY <1>2 DEF StagedAsWritten, WorkSteps, Claimed
<1>4. \A d \in Docs : row'[d] # None => row'[d] \in DocRow
  BY <1>1 DEF Flushed, TypeInv, TypeOK, DocRow, Write
<1>5. Claimed' \in [Docs -> Bytes \cup {None}]
  BY <1>4 DEF Claimed, DocRow
<1>6. \A d \in Docs : row[d] # None => row'[d] # None
  BY <1>2
<1>7. \A d \in Docs : row'[d] # None => Claimed'[d] # None
  BY <1>4, ValueAssumption DEF Claimed, DocRow, Contents
<1>8. \A d \in Docs : Claimed[d] # None => Claimed'[d] # None
  BY <1>6, <1>7 DEF Claimed
<1>9. Pending' \in SUBSET {d \in Docs : Claimed'[d] # None}
  BY <1>3, <1>7 DEF StagedDocs
<1>10. Pending' # {} =>
         {d \in Docs : Claimed'[d] # Claimed[d]} \subseteq Pending'
  BY <1>3 DEF StagedDocs
<1>11. DeletedDocs' = DeletedDocs
  <2>1. ASSUME NEW d \in Docs
        PROVE  (row'[d] # None /\ row'[d].deleted)
                 <=> (row[d] # None /\ row[d].deleted)
    <3>1. CASE writes[d] = None
      BY <1>2, <3>1
    <3>2. CASE writes[d] # None
      BY <1>2, <3>2 DEF Flushed
    <3> QED
      BY <3>1, <3>2
  <2> QED
    BY <2>1 DEF DeletedDocs
<1> QED
  BY <1>1, <1>5, <1>8, <1>9, <1>10, <1>11 DEF Store!Record

\* Every step of the import is a step of the abstract store or a stutter.
LEMMA StoreStep ==
    ASSUME StagingInv, [Next]_vars
    PROVE  [Store!Next]_(Store!vars)
<1> USE DEF StagingInv
<1>1. CASE Commit
  BY <1>1, FlushRecords
  DEF Commit, Pending, StagedDocs, Store!Next
<1>2. CASE CommitUnacknowledged
  BY <1>2, FlushRecords DEF CommitUnacknowledged, Pending, Store!Next
<1>3. CASE PublishFile
  <2>1. PICK i \in 1..Len(manifest) : PublishNth(i)
    BY <1>3 DEF PublishFile
  <2> DEFINE d == manifest[i].doc
  <2>2. d \in Docs /\ row' = row /\ pc = "publish" /\ pc' = "publish"
    BY <1>3, <2>1, ManifestRows DEF PublishFile, TypeInv, ControlOK
  <2>3. /\ file' = [file EXCEPT ![d] = staged[d]]
        /\ staged' = [staged EXCEPT ![d] = None]
        /\ staged[d] # None
    BY <2>1 DEF PublishNth, IsFirstStaged
  <2>4. Claimed[d] = staged[d] /\ Claimed' = Claimed
    BY <2>2, <2>3 DEF StagedAsClaimed, Claimed
  <2>5. d \in Pending /\ Pending' = Pending \ {d}
    BY <2>2, <2>3 DEF Pending, StagedDocs, TypeInv, TypeOK
  <2>6. DeletedDocs' = DeletedDocs
    BY <2>2 DEF DeletedDocs
  <2>7. Store!Deliver(d)
    BY <2>3, <2>4, <2>5, <2>6 DEF Store!Deliver
  <2> QED
    BY <2>2, <2>7 DEF Store!Next
<1>4. CASE PublishFails \/ Crash
  <2>1. row' = row /\ file' = file /\ Pending' = {}
    BY <1>4 DEF PublishFails, Crash, world, Pending
  <2>2. Store!Abandon
    BY <2>1 DEF Store!Abandon, Claimed, DeletedDocs
  <2> QED
    BY <2>2 DEF Store!Next
<1>5. ASSUME NEW d \in Docs, RemoveByHand(d) PROVE Store!Lose(d)
  <2>1. row' = row /\ Pending' = Pending
    BY <1>5 DEF RemoveByHand, local, Pending, StagedDocs
  <2> QED
    BY <1>5, <2>1 DEF RemoveByHand, Store!Lose, Claimed, DeletedDocs
<1>6. ASSUME NEW d \in Docs, SoftDelete(d) PROVE Store!Delete(d)
  <2>1. /\ file' = file /\ Pending' = Pending
        /\ row[d] # None
    BY <1>6 DEF SoftDelete, IsLive, local, Pending, StagedDocs
  <2>2. Claimed' = Claimed
    BY <1>6, SoftDeleteRow DEF Claimed
  <2>3. Claimed[d] # None
    BY <2>1, ClaimedBytes DEF Claimed
  <2>4. \A e \in Docs : e # d => row'[e] = row[e]
    BY <1>6 DEF SoftDelete, TypeInv, TypeOK
  <2>5. row'[d] # None /\ row'[d].deleted
    BY <1>6, SoftDeleteMarks
  <2>6. DeletedDocs' = DeletedDocs \cup {d}
    BY <2>4, <2>5 DEF DeletedDocs
  <2> QED
    BY <2>1, <2>2, <2>3, <2>6 DEF Store!Delete
<1>7. CASE Finish
  <2>1. row' = row /\ file' = file /\ Pending' = Pending
    BY <1>7 DEF Finish, world, Pending
  <2> QED
    BY <2>1, StoreStutter
<1>8. ASSUME NEW m \in Manifests, Start(m)
      PROVE  UNCHANGED Store!vars
  <2>1. row' = row /\ file' = file /\ Pending' = Pending
    BY <1>8 DEF Start, world, Pending
  <2> QED
    BY <2>1, StoreStutter
<1>9. CASE \/ CheckEntities \/ HashSource \/ LookupNew \/ LookupDeleted
           \/ LookupStale \/ LookupSame \/ SkipDuplicate \/ KeepNew
           \/ StageRow \/ StageChanged \/ Discard \/ StepFails \/ StageFails
           \/ UnlinkFails
  <2>1. row' = row /\ file' = file /\ pc # "publish" /\ pc' # "publish"
    BY <1>9
    DEF CheckEntities, HashSource, LookupNew, LookupDeleted, LookupStale,
        LookupSame, SkipDuplicate, KeepNew, StageRow, StageChanged, Discard,
        StepFails, StageFails, UnlinkFails, Advance, world
  <2> QED
    BY <2>1, StoreStutter DEF Pending
<1>10. ASSUME NEW d \in Docs, NEW c \in Contents, EditSource(d, c)
       PROVE  UNCHANGED Store!vars
  <2>1. row' = row /\ file' = file /\ Pending' = Pending
    BY <1>10 DEF EditSource, local, Pending, StagedDocs
  <2> QED
    BY <2>1, StoreStutter
<1>11. ASSUME NEW e \in Entities, DeleteEntity(e)
       PROVE  UNCHANGED Store!vars
  <2>1. row' = row /\ file' = file /\ Pending' = Pending
    BY <1>11 DEF DeleteEntity, local, Pending, StagedDocs
  <2> QED
    BY <2>1, StoreStutter
<1>12. CASE UNCHANGED vars
  <2>1. row' = row /\ file' = file /\ Pending' = Pending
    BY <1>12 DEF vars, world, local, Pending, StagedDocs
  <2> QED
    BY <2>1, StoreStutter
<1> QED
  BY <1>1, <1>2, <1>3, <1>4, <1>5, <1>6, <1>7, <1>8, <1>9, <1>10, <1>11, <1>12
  DEF Next, ImporterStep, Environment, Store!Next

\* The import implements the abstract store.
THEOREM RefinesStore == Spec => ImplementsStore
<1>1. Init => Store!Init
  BY DEF Init, Store!Init, Claimed, DeletedDocs, Pending, Nothing
<1>2. StagingInv /\ [Next]_vars => [Store!Next]_(Store!vars)
  BY StoreStep
<1> QED
  BY <1>1, <1>2, StagingInit, StagingNext, PTL
  DEF Spec, ImplementsStore, Store!Spec

-----------------------------------------------------------------------------
(***************************************************************************)
(* A whole run: the staging files it leaves, the rows it records and what  *)
(* it repairs.                                                             *)
(***************************************************************************)
\* Every temporary file of a run that is over was left by an incident.
LEMMA TempsNext ==
    ASSUME StagingInv, NoStrayTemps, [Next]_vars
    PROVE  NoStrayTemps'
<1> USE DEF NoStrayTemps
<1>0. TypeInv /\ QuietOK
  BY DEF StagingInv
<1>1. ASSUME NEW m \in Manifests, Start(m) PROVE NoStrayTemps'
  BY <1>1 DEF Start, world
<1>2. CASE CheckEntities \/ StepFails
  <2>1. temps' = temps /\ staged' = staged /\ run' = run /\ littered' = littered
    BY <1>2 DEF CheckEntities, StepFails, world, ghosts
  <2>2. CASE pc = "entities"
    <3>1. \A t \in temps : staged[t[2]] = None
      BY <1>0, <2>2 DEF QuietOK, Nothing, TypeInv, TypeOK
    <3> QED
      BY <2>1, <3>1
  <2>3. CASE pc # "entities"
    <3>1. pc # "idle" /\ pc' = "discard"
      BY <1>2, <2>3 DEF CheckEntities, StepFails
    <3> QED
      BY <2>1, <3>1
  <2> QED
    BY <2>2, <2>3
<1>3. CASE \/ HashSource \/ LookupNew \/ LookupDeleted \/ LookupStale
           \/ LookupSame \/ SkipDuplicate \/ KeepNew
  BY <1>3
  DEF HashSource, LookupNew, LookupDeleted, LookupStale, LookupSame,
      SkipDuplicate, KeepNew, Advance, world, ghosts
<1>4. CASE StageRow \/ StageChanged \/ StageFails
  <2>1. Current \in Docs
    BY <1>0, <1>4, CurrentRow DEF StageRow, StageChanged, StageFails, LoopSteps
  <2>2. PICK c \in Contents : Register(c)
    <3>1. source[Current] \in Contents /\ Missing \in Contents
      BY <1>0, <2>1 DEF TypeInv, TypeOK, Contents
    <3>2. Register(source[Current]) \/ Register(Missing)
      BY <1>4 DEF StageRow, StageChanged, StageFails
    <3> QED
      BY <3>1, <3>2
  <2>3. c # None
    BY ValueAssumption
  <2>4. /\ temps' = temps \cup {<<run, Current>>}
        /\ staged' = [staged EXCEPT ![Current] = c]
    BY <2>2 DEF Register
  <2>5. pc # "idle" /\ pc' # "idle" /\ run' = run /\ littered' = littered
    BY <1>4 DEF StageRow, StageChanged, StageFails, Advance, ghosts
  <2> QED
    BY <1>0, <2>1, <2>3, <2>4, <2>5 DEF TypeInv, TypeOK
<1>5. CASE Commit \/ CommitUnacknowledged
  BY <1>5 DEF Commit, CommitUnacknowledged
<1>6. CASE PublishFile
  <2>1. PICK i \in 1..Len(manifest) : PublishNth(i)
    BY <1>6 DEF PublishFile
  <2>2. /\ temps' = temps \ {<<run, manifest[i].doc>>}
        /\ staged' = [staged EXCEPT ![manifest[i].doc] = None]
    BY <2>1 DEF PublishNth
  <2> QED
    BY <1>0, <1>6, <2>2 DEF PublishFile, TypeInv, TypeOK
<1>7. CASE Finish
  <2>1. \A d \in Docs : staged[d] = None
    BY <1>7 DEF Finish, StagedDocs
  <2>2. temps \subseteq Nat \X Docs
    BY <1>0 DEF TypeInv, TypeOK
  <2> QED
    BY <1>7, <2>1, <2>2 DEF Finish, world, ghosts
<1>8. CASE Discard \/ PublishFails \/ UnlinkFails
  <2>1. PICK kept \in SUBSET StagedDocs :
          /\ temps' = temps \ ({run} \X (StagedDocs \ kept))
          /\ littered' = IF kept = {} THEN littered ELSE littered \cup {run}
    <3>1. {} \in SUBSET StagedDocs /\ StagedDocs \ {} = StagedDocs
      OBVIOUS
    <3>2. CASE Discard
      BY <3>1, <3>2 DEF Discard, RemoveStaged, ghosts
    <3> QED
      BY <1>8, <3>2 DEF PublishFails, UnlinkFails, RemoveAllBut
  <2>2. temps \subseteq Nat \X Docs
    BY <1>0 DEF TypeInv, TypeOK
  <2>3. ASSUME NEW t \in temps' PROVE t[1] \in littered'
    <3>1. t = <<t[1], t[2]>> /\ t[2] \in Docs /\ t \in temps
      BY <2>1, <2>2
    <3>2. t[1] = run /\ staged[t[2]] # None => t[2] \in kept
      BY <2>1, <3>1 DEF StagedDocs
    <3> QED
      BY <2>1, <3>1, <3>2
  <2> QED
    BY <2>3
<1>9. CASE Crash
  BY <1>9 DEF Crash, world
<1>10. CASE \/ \E d \in Docs, c \in Contents : EditSource(d, c)
            \/ \E d \in Docs : RemoveByHand(d) \/ SoftDelete(d)
            \/ \E e \in Entities : DeleteEntity(e)
  BY <1>10 DEF EditSource, RemoveByHand, SoftDelete, DeleteEntity, local
<1>11. CASE UNCHANGED vars
  BY <1>11 DEF vars, world, local, ghosts
<1> QED
  BY <1>1, <1>2, <1>3, <1>4, <1>5, <1>6, <1>7, <1>8, <1>9, <1>10, <1>11
  DEF Next, ImporterStep, Environment

\* A staging file is left behind only by a run that was killed or could not
\* unlink it.
THEOREM NoTempsLeft == Spec => []NoStrayTemps
<1>1. Init => NoStrayTemps
  BY DEF Init, NoStrayTemps
<1> QED
  BY <1>1, StagingInit, StagingNext, TempsNext, PTL DEF Spec

-----------------------------------------------------------------------------
(***************************************************************************)
(* What the run has done with the rows of its manifest.                    *)
(***************************************************************************)

RunSteps == WorkSteps \cup {"publish"}
Kept     == {"created", "updated", "unchanged"}

\* Where the run is: the loop starts with the first row and is over before the
\* commit, every row names an entity that was found live, and only a run that
\* is over has a result.
ProgressOK ==
    /\ result # "none" => pc = "idle"
    /\ pc = "entities" => pos = 1
    /\ pc \in {"commit", "publish"} \/ result = "ok" => pos = Len(manifest) + 1
    /\ pc \in RunSteps =>
         \A i \in 1..Len(manifest) : EntityOf[manifest[i].meta] \in live

\* The row's bytes are under its final name, unless someone removed them.
StoreServes(d) ==
    row[d] # None /\ (file[d] = row[d].sha \/ d \in removed)

\* A row the loop has counted as kept is as the manifest says, or is about to
\* be, and its bytes are staged or served.
RowWritten(d, meta) ==
    /\ writes[d] = None => row[d] # None /\ row[d].meta = meta
    /\ writes[d] # None => writes[d].meta = meta
    /\ outcome[d] # "unchanged" => writes[d] # None
    /\ staged[d] # None \/ StoreServes(d)

\* The same after the commit.
RowCommitted(d, meta) ==
    /\ row[d] # None
    /\ row[d].meta = meta
    /\ staged[d] # None \/ StoreServes(d)

\* The rows the loop has left behind are counted, and as their counts say.
DoneRowsOK ==
    \A i \in 1..Len(manifest) :
        LET d == manifest[i].doc IN
        /\ pc \in WorkSteps /\ i < pos =>
             /\ outcome[d] # "none"
             /\ outcome[d] \in Kept => RowWritten(d, manifest[i].meta)
        /\ pc = "publish" \/ result = "ok" =>
             /\ outcome[d] # "none"
             /\ outcome[d] \in Kept => RowCommitted(d, manifest[i].meta)

\* The session holds no change of a row the loop has not reached.
NotYetWritten ==
    pc \in LoopSteps =>
        \A i \in pos..Len(manifest) : writes[manifest[i].doc] = None

\* Document e is of a later line of the manifest than d.
Later(d, e) ==
    \E j \in 1..Len(manifest) : \E i \in 1..(j - 1) :
        manifest[i].doc = d /\ manifest[j].doc = e

\* The session holds changes of rows that the loop has left behind, and
\* staged_hashes has their digests; the bytes of a new row are those of no live
\* row, and of no other change but of a stored document on a later line.
NewBytesOK ==
    pc \in WorkSteps =>
        /\ pc = "dedup" => row[Current] = None
        /\ pc = "stage" /\ row[Current] = None => ~AlreadyStored(sha)
        /\ \A d \in Docs : writes[d] # None =>
             /\ writes[d].sha \in hashes
             /\ \E i \in 1..(pos - 1) : manifest[i].doc = d
             /\ row[d] = None =>
                  \A e \in Docs \ {d} :
                      /\ IsLive(e) => row[e].sha # writes[d].sha
                      /\ writes[e] # None /\ writes[e].sha = writes[d].sha =>
                           row[e] # None /\ Later(d, e)

RunInv == ProgressOK /\ DoneRowsOK /\ NotYetWritten /\ NewBytesOK

\* Initially no run is in progress.
LEMMA RunInit == Init => RunInv
BY DEF Init, RunInv, ProgressOK, DoneRowsOK, NotYetWritten, NewBytesOK,
    RunSteps, WorkSteps, LoopSteps

\* Every step keeps track of where the run is.
LEMMA ProgressNext ==
    ASSUME StagingInv, ProgressOK, [Next]_vars
    PROVE  ProgressOK'
<1> USE DEF ProgressOK, RunSteps, WorkSteps
<1>0. TypeInv
  BY DEF StagingInv
<1>1. ASSUME NEW m \in Manifests, Start(m) PROVE ProgressOK'
  BY <1>1 DEF Start
<1>2. CASE CheckEntities
  <2> DEFINE wanted == {EntityOf[manifest[i].meta] : i \in 1..Len(manifest)}
  <2>1. CASE AllLive(wanted)
    <3>1. pc' = "hash" /\ result' = result /\ live' = wanted \cap liveEnt
      BY <1>2, <2>1 DEF CheckEntities
    <3>2. \A i \in 1..Len(manifest) : EntityOf[manifest[i].meta] \in live'
      BY <2>1, <3>1 DEF AllLive
    <3>3. manifest' = manifest /\ pc = "entities"
      BY <1>2 DEF CheckEntities
    <3> QED
      BY <3>1, <3>2, <3>3
  <2>2. CASE ~AllLive(wanted)
    <3>1. pc' = "idle" /\ result' = "invalid"
      BY <1>2, <2>2 DEF CheckEntities
    <3> QED
      BY <3>1
  <2> QED
    BY <2>1, <2>2
<1>3. CASE \/ HashSource \/ LookupNew \/ LookupStale \/ KeepNew
           \/ StageChanged \/ StageFails
  BY <1>3 DEF HashSource, LookupNew, LookupStale, KeepNew, StageChanged,
              StageFails
<1>4. CASE LookupDeleted \/ LookupSame \/ SkipDuplicate \/ StageRow
  <2>1. /\ pc \in LoopSteps /\ pc \in WorkSteps /\ Advance
        /\ manifest' = manifest /\ live' = live /\ result' = result
    BY <1>4 DEF LookupDeleted, LookupSame, SkipDuplicate, StageRow, LoopSteps
  <2>2. pos \in 1..Len(manifest) /\ Len(manifest) \in Nat
    BY <1>0, <2>1, ManifestAssumption DEF TypeInv, ControlOK
  <2> QED
    BY <2>1, <2>2 DEF Advance
<1>5. CASE Commit \/ CommitUnacknowledged \/ PublishFile \/ Finish
  BY <1>5 DEF Commit, CommitUnacknowledged, PublishFile, Finish
<1>6. CASE Discard \/ UnlinkFails \/ PublishFails \/ Crash
  BY <1>6 DEF Discard, UnlinkFails, PublishFails, Crash
<1>7. CASE StepFails
  BY <1>7 DEF StepFails
<1>8. CASE \/ \E d \in Docs, c \in Contents : EditSource(d, c)
           \/ \E d \in Docs : RemoveByHand(d) \/ SoftDelete(d)
           \/ \E e \in Entities : DeleteEntity(e)
  BY <1>8 DEF EditSource, RemoveByHand, SoftDelete, DeleteEntity, local
<1>9. CASE UNCHANGED vars
  BY <1>9 DEF vars, local
<1> QED
  BY <1>1, <1>2, <1>3, <1>4, <1>5, <1>6, <1>7, <1>8, <1>9
  DEF Next, ImporterStep, Environment

\* Leaving a row of the loop: the row becomes one of those left behind, the
\* others are other documents.
LEMMA AdvanceDone ==
    ASSUME TypeInv, pc \in LoopSteps, Advance, NEW i \in 1..Len(manifest),
           i < pos'
    PROVE  i = pos \/ (i < pos /\ manifest[i].doc # Current)
<1>1. pos \in 1..Len(manifest) /\ pos' = pos + 1 /\ pc # "idle"
  BY DEF TypeInv, ControlOK, Advance, LoopSteps
<1>2. i = pos \/ i < pos
  BY <1>1
<1>3. ASSUME i < pos PROVE manifest[i].doc # Current
  BY <1>1, <1>3, OtherRows DEF Current
<1> QED
  BY <1>2, <1>3

\* Every step keeps the rows left behind as they are counted.
LEMMA DoneRowsNext ==
    ASSUME StagingInv, ProgressOK, DoneRowsOK, NotYetWritten, [Next]_vars
    PROVE  DoneRowsOK'
<1>0. /\ TypeInv /\ TypeInv'
      /\ row \in [Docs -> DocRow \cup {None}]
      /\ file \in [Docs -> Contents]
      /\ staged \in [Docs -> Contents \cup {None}]
      /\ writes \in [Docs -> Write \cup {None}]
      /\ outcome \in [Docs -> Outcomes]
  BY TypeNext DEF StagingInv, TypeInv, TypeOK
<1>1. \A i \in 1..Len(manifest) : manifest[i].doc \in Docs
  BY <1>0, ManifestRows DEF TypeInv, TypeOK
<1>2. ASSUME NEW m \in Manifests, Start(m) PROVE DoneRowsOK'
  BY <1>2 DEF Start, DoneRowsOK, WorkSteps
<1>3. CASE CheckEntities
  <2>1. /\ pos' = 1 /\ pc' # "publish" /\ result' # "ok"
        /\ manifest' = manifest
    BY <1>3 DEF CheckEntities, ProgressOK
  <2> QED
    BY <2>1 DEF DoneRowsOK
<1>4. CASE HashSource \/ LookupNew \/ LookupStale \/ KeepNew
  <2>1. /\ pc \in WorkSteps /\ pc' # "publish"
        /\ UNCHANGED <<manifest, pos, result, outcome, writes, staged, row,
                       file, removed>>
    BY <1>4 DEF HashSource, LookupNew, LookupStale, KeepNew, WorkSteps, world,
                ghosts
  <2> QED
    BY <2>1 DEF DoneRowsOK, RowWritten, StoreServes, ProgressOK, WorkSteps
<1>5. CASE LookupDeleted \/ LookupSame \/ SkipDuplicate \/ StageRow
  <2>1. /\ pc \in LoopSteps /\ pc \in WorkSteps /\ Advance /\ pc # "idle"
        /\ UNCHANGED <<manifest, result, row, file, removed>>
    BY <1>5
    DEF LookupDeleted, LookupSame, SkipDuplicate, StageRow, LoopSteps,
        WorkSteps, world, ghosts
  <2>2. /\ Current \in Docs /\ CurMeta \in Metas
        /\ pc' # "publish" /\ result = "none"
    BY <1>0, <2>1, CurrentRow DEF Advance, ProgressOK, TypeInv
  <2>3. \A d \in Docs \ {Current} :
          /\ outcome'[d] = outcome[d]
          /\ writes'[d] = writes[d]
          /\ staged'[d] = staged[d]
    BY <1>0, <1>5, <2>2
    DEF LookupDeleted, LookupSame, SkipDuplicate, StageRow, Register
  <2>4. PICK c \in Docs, meta \in Metas : c = Current /\ meta = CurMeta
    BY <2>2
  <2>5. /\ outcome'[c] # "none"
        /\ outcome'[c] \in Kept => RowWritten(c, meta)'
    <3>1. CASE LookupDeleted \/ SkipDuplicate
      BY <1>0, <2>4, <3>1 DEF LookupDeleted, SkipDuplicate, Kept
    <3>2. CASE LookupSame
      <4>1. /\ row[c] # None /\ file[c] = row[c].sha /\ staged' = staged
        BY <2>4, <3>2 DEF LookupSame, IsLive, MustRestage
      <4>2. writes[c] = None
        BY <1>0, <2>1, <2>4 DEF NotYetWritten, Current, TypeInv, ControlOK
      <4>3. StoreServes(c)'
        BY <2>1, <4>1 DEF StoreServes
      <4>4. CASE row[c].meta = meta
        <5>1. outcome'[c] = "unchanged" /\ writes' = writes
          BY <1>0, <2>4, <3>2, <4>4 DEF LookupSame
        <5> QED
          BY <2>1, <4>1, <4>2, <4>3, <4>4, <5>1 DEF RowWritten
      <4>5. CASE row[c].meta # meta
        <5>1. /\ outcome'[c] = "updated"
              /\ writes'[c] = [sha |-> sha, meta |-> meta]
          BY <1>0, <2>4, <3>2, <4>5 DEF LookupSame
        <5>2. writes'[c] # None
          BY <1>0, <2>1, <3>2, <5>1, ValueAssumption
          DEF Write, TypeInv, ControlOK, LookupSame
        <5> QED
          BY <4>3, <5>1, <5>2 DEF RowWritten
      <4> QED
        BY <4>4, <4>5
    <3>3. CASE StageRow
      <4>1. /\ outcome'[c] \in {"created", "updated"}
            /\ writes'[c] = [sha |-> sha, meta |-> meta]
            /\ staged'[c] = sha /\ sha \in Bytes
        BY <1>0, <2>4, <3>3
        DEF StageRow, Register, CopyMatches, TypeInv, ControlOK
      <4>2. writes'[c] # None /\ staged'[c] # None
        BY <4>1, ValueAssumption DEF Write, Contents
      <4> QED
        BY <4>1, <4>2 DEF RowWritten
    <3> QED
      BY <1>5, <3>1, <3>2, <3>3
  <2>6. ASSUME NEW i \in 1..Len(manifest), i < pos'
        PROVE  /\ outcome'[manifest[i].doc] # "none"
               /\ outcome'[manifest[i].doc] \in Kept =>
                    RowWritten(manifest[i].doc, manifest[i].meta)'
    <3>1. CASE i = pos
      <4>1. manifest[i].doc = c /\ manifest[i].meta = meta
        BY <2>4, <3>1 DEF Current, CurMeta
      <4> QED
        BY <2>1, <2>5, <4>1 DEF RowWritten, StoreServes
    <3>2. CASE i < pos /\ manifest[i].doc # Current
      <4> DEFINE d == manifest[i].doc
      <4>1. d \in Docs \ {Current}
        BY <1>1, <2>1, <3>2
      <4>2. /\ outcome[d] # "none"
            /\ outcome[d] \in Kept => RowWritten(d, manifest[i].meta)
        BY <2>1, <3>2 DEF DoneRowsOK
      <4>3. /\ outcome'[d] = outcome[d]
            /\ writes'[d] = writes[d]
            /\ staged'[d] = staged[d]
        BY <2>3, <4>1
      <4> QED
        BY <2>1, <4>2, <4>3 DEF RowWritten, StoreServes
    <3> QED
      BY <1>0, <2>1, <2>6, <3>1, <3>2, AdvanceDone
  <2> QED
    BY <2>1, <2>2, <2>6 DEF DoneRowsOK
<1>6. CASE Commit
  <2>1. /\ pc = "commit" /\ pc' = "publish" /\ row' = Flushed
        /\ UNCHANGED <<manifest, result, outcome, staged, file, removed>>
    BY <1>6 DEF Commit
  <2>2. pos = Len(manifest) + 1 /\ Len(manifest) \in Nat /\ result = "none"
    BY <1>0, <2>1, ManifestAssumption DEF ProgressOK, TypeInv, ControlOK
  <2>3. ASSUME NEW i \in 1..Len(manifest),
               outcome[manifest[i].doc] \in Kept
        PROVE  RowCommitted(manifest[i].doc, manifest[i].meta)'
    <3> DEFINE d == manifest[i].doc
    <3>1. d \in Docs /\ RowWritten(d, manifest[i].meta)
      BY <1>1, <2>1, <2>2, <2>3 DEF DoneRowsOK, WorkSteps
    <3>2. row'[d] # None /\ row'[d].meta = manifest[i].meta
      BY <1>0, <2>1, <3>1, FlushedRows DEF RowWritten
    <3>3. staged[d] # None \/ StoreServes(d)
      BY <3>1 DEF RowWritten
    <3>4. staged[d] = None => row'[d].sha = row[d].sha
      BY <1>0, <2>1, <3>1, FlushedRows
      DEF StagingInv, StagedAsWritten, WorkSteps
    <3> QED
      BY <2>1, <3>2, <3>3, <3>4 DEF RowCommitted, StoreServes
  <2>4. \A i \in 1..Len(manifest) : outcome[manifest[i].doc] # "none"
    BY <2>1, <2>2 DEF DoneRowsOK, WorkSteps
  <2> QED
    BY <2>1, <2>3, <2>4 DEF DoneRowsOK, WorkSteps
<1>7. CASE PublishFile
  <2>1. PICK k \in 1..Len(manifest) : PublishNth(k)
    BY <1>7 DEF PublishFile
  <2> DEFINE p == manifest[k].doc
  <2>2. /\ pc = "publish" /\ pc' = "publish" /\ p \in Docs
        /\ UNCHANGED <<manifest, result, outcome, row>>
    BY <1>1, <1>7, <2>1 DEF PublishFile
  <2>3. /\ staged[p] # None
        /\ file' = [file EXCEPT ![p] = staged[p]]
        /\ staged' = [staged EXCEPT ![p] = None]
        /\ removed' = removed \ {p}
    BY <2>1 DEF PublishNth, IsFirstStaged
  <2>4. file'[p] = row[p].sha /\ row[p] # None
    BY <1>0, <2>2, <2>3 DEF StagingInv, StagedAsClaimed
  <2>5. ASSUME NEW i \in 1..Len(manifest),
               outcome[manifest[i].doc] \in Kept
        PROVE  RowCommitted(manifest[i].doc, manifest[i].meta)'
    <3> DEFINE d == manifest[i].doc
    <3>1. d \in Docs /\ RowCommitted(d, manifest[i].meta)
      BY <1>1, <2>2, <2>5 DEF DoneRowsOK
    <3>2. staged'[d] # None \/ StoreServes(d)'
      BY <1>0, <2>2, <2>3, <2>4, <3>1 DEF RowCommitted, StoreServes
    <3> QED
      BY <2>2, <3>1, <3>2 DEF RowCommitted, StoreServes
  <2> QED
    BY <2>2, <2>5 DEF DoneRowsOK, WorkSteps
<1>8. CASE Finish
  <2>1. /\ pc = "publish" /\ pc' = "idle"
        /\ UNCHANGED <<manifest, outcome, row, file, staged, removed>>
    BY <1>8 DEF Finish, world, ghosts
  <2> QED
    BY <2>1 DEF DoneRowsOK, RowCommitted, StoreServes, WorkSteps
<1>9. CASE \/ StageChanged \/ StageFails \/ CommitUnacknowledged \/ Discard
           \/ StepFails \/ UnlinkFails \/ PublishFails \/ Crash
  <2>1. pc' \notin RunSteps /\ result' # "ok"
    BY <1>9
    DEF StageChanged, StageFails, CommitUnacknowledged, Discard, StepFails,
        UnlinkFails, PublishFails, Crash, RunSteps, WorkSteps, ProgressOK
  <2> QED
    BY <2>1 DEF DoneRowsOK, RunSteps
<1>10. ASSUME NEW d \in Docs, RemoveByHand(d) PROVE DoneRowsOK'
  <2>1. /\ UNCHANGED <<pc, manifest, pos, result, outcome, writes, staged, row>>
        /\ file' = [file EXCEPT ![d] = Missing]
        /\ removed' = removed \cup {d}
    BY <1>10 DEF RemoveByHand, local
  <2>2. \A e : StoreServes(e) => StoreServes(e)'
    BY <1>0, <2>1 DEF StoreServes
  <2> QED
    BY <2>1, <2>2 DEF DoneRowsOK, RowWritten, RowCommitted
<1>11. ASSUME NEW d \in Docs, SoftDelete(d) PROVE DoneRowsOK'
  <2>1. UNCHANGED <<pc, manifest, pos, result, outcome, writes, staged, file,
                    removed>>
    BY <1>11 DEF SoftDelete, local
  <2>2. \A e \in Docs : row[e] # None =>
          /\ row'[e] # None
          /\ row'[e].sha = row[e].sha
          /\ row'[e].meta = row[e].meta
    BY <1>0, <1>11, SoftDeleteRow
  <2>3. \A e \in Docs : StoreServes(e) => StoreServes(e)'
    BY <2>1, <2>2 DEF StoreServes
  <2> QED
    BY <1>1, <2>1, <2>2, <2>3 DEF DoneRowsOK, RowWritten, RowCommitted
<1>12. CASE \/ \E d \in Docs, c \in Contents : EditSource(d, c)
            \/ \E e \in Entities : DeleteEntity(e)
            \/ UNCHANGED vars
  <2>1. UNCHANGED <<pc, manifest, pos, result, outcome, writes, staged, row,
                    file, removed>>
    BY <1>12 DEF EditSource, DeleteEntity, local, world, ghosts, vars
  <2> QED
    BY <2>1 DEF DoneRowsOK, RowWritten, RowCommitted, StoreServes
<1> QED
  BY <1>2, <1>3, <1>4, <1>5, <1>6, <1>7, <1>8, <1>9, <1>10, <1>11, <1>12
  DEF Next, ImporterStep, Environment

\* The session changes no row before the loop reaches it.
LEMMA NotYetWrittenNext ==
    ASSUME StagingInv, NotYetWritten, [Next]_vars
    PROVE  NotYetWritten'
<1>0. TypeInv /\ TypeInv' /\ writes \in [Docs -> Write \cup {None}]
  BY TypeNext DEF StagingInv, TypeInv, TypeOK
<1>1. \A i \in 1..Len(manifest) : manifest[i].doc \in Docs
  BY <1>0, ManifestRows DEF TypeInv, TypeOK
<1>2. ASSUME NEW m \in Manifests, Start(m) PROVE NotYetWritten'
  BY <1>2, ManifestRows DEF Start, NotYetWritten, Nothing
<1>3. CASE \/ CheckEntities \/ HashSource \/ LookupNew \/ LookupStale
           \/ KeepNew
  BY <1>3
  DEF CheckEntities, HashSource, LookupNew, LookupStale, KeepNew,
      NotYetWritten, LoopSteps
<1>4. CASE LookupDeleted \/ LookupSame \/ SkipDuplicate \/ StageRow
  <2>1. pc \in LoopSteps /\ Advance /\ manifest' = manifest
    BY <1>4
    DEF LookupDeleted, LookupSame, SkipDuplicate, StageRow, LoopSteps
  <2>2. \A d \in Docs \ {Current} : writes'[d] = writes[d]
    BY <1>0, <1>4
    DEF LookupDeleted, LookupSame, SkipDuplicate, StageRow
  <2>3. ASSUME pc' \in LoopSteps, NEW i \in pos'..Len(manifest)
        PROVE  writes'[manifest[i].doc] = None
    <3>1. i \in pos..Len(manifest) /\ manifest[i].doc # Current
      BY <1>0, <2>1, <2>3, AdvanceRows
    <3>2. i \in 1..Len(manifest)
      BY <1>0, <3>1 DEF TypeInv, TypeOK
    <3> QED
      BY <1>1, <2>1, <2>2, <3>1, <3>2 DEF NotYetWritten
  <2> QED
    BY <2>1, <2>3 DEF NotYetWritten
<1>5. CASE \/ StageChanged \/ StageFails \/ Commit \/ CommitUnacknowledged
           \/ PublishFile \/ Finish \/ Discard \/ StepFails \/ UnlinkFails
           \/ PublishFails \/ Crash
  <2>1. pc' \notin LoopSteps
    BY <1>5
    DEF StageChanged, StageFails, Commit, CommitUnacknowledged, PublishFile,
        Finish, Discard, StepFails, UnlinkFails, PublishFails, Crash,
        LoopSteps
  <2> QED
    BY <2>1 DEF NotYetWritten
<1>6. CASE \/ \E d \in Docs, c \in Contents : EditSource(d, c)
           \/ \E d \in Docs : RemoveByHand(d) \/ SoftDelete(d)
           \/ \E e \in Entities : DeleteEntity(e)
           \/ UNCHANGED vars
  <2>1. UNCHANGED <<pc, manifest, pos, writes>>
    BY <1>6
    DEF EditSource, RemoveByHand, SoftDelete, DeleteEntity, local, vars
  <2> QED
    BY <2>1 DEF NotYetWritten
<1> QED
  BY <1>2, <1>3, <1>4, <1>5, <1>6 DEF Next, ImporterStep, Environment

\* Every step keeps the new rows of the session apart.
LEMMA NewBytesNext ==
    ASSUME StagingInv, ProgressOK, NewBytesOK, [Next]_vars
    PROVE  NewBytesOK'
<1>0. /\ TypeInv /\ QuietOK
      /\ row \in [Docs -> DocRow \cup {None}]
      /\ writes \in [Docs -> Write \cup {None}]
  BY DEF StagingInv, TypeInv, TypeOK
<1>9. pos \in Nat \ {0}
  BY <1>0 DEF TypeInv, TypeOK
<1>1. ASSUME NEW m \in Manifests, Start(m) PROVE NewBytesOK'
  BY <1>1 DEF Start, NewBytesOK, WorkSteps
<1>2. CASE CheckEntities
  <2>1. pc' \notin {"dedup", "stage"} /\ writes' = Nothing
    BY <1>0, <1>2 DEF CheckEntities, QuietOK
  <2> QED
    BY <2>1 DEF NewBytesOK, Nothing
<1>3. CASE HashSource \/ LookupNew \/ LookupStale \/ KeepNew
  <2>1. /\ pc \in WorkSteps
        /\ UNCHANGED <<manifest, pos, writes, row, hashes>>
    BY <1>3 DEF HashSource, LookupNew, LookupStale, KeepNew, WorkSteps, world
  <2>2. pc' = "dedup" => row[Current] = None
    BY <1>3 DEF HashSource, LookupNew, LookupStale, KeepNew
  <2>3. pc' = "stage" /\ row[Current] = None => ~AlreadyStored(sha) /\ sha' = sha
    BY <1>3 DEF HashSource, LookupNew, LookupStale, KeepNew, IsLive
  <2> QED
    BY <2>1, <2>2, <2>3 DEF NewBytesOK, Current, AlreadyStored, IsLive, Later
<1>4. CASE LookupDeleted \/ SkipDuplicate
  <2>1. /\ pc \in WorkSteps /\ pc' \in {"hash", "commit"}
        /\ pos' = pos + 1 /\ UNCHANGED <<manifest, writes, row, hashes>>
    BY <1>4 DEF LookupDeleted, SkipDuplicate, Advance, WorkSteps, world
  <2> QED
    BY <1>9, <2>1 DEF NewBytesOK, IsLive, Later
<1>5. CASE LookupSame \/ StageRow
  <2>1. /\ pc \in WorkSteps /\ pc' \in {"hash", "commit"}
        /\ hashes' = hashes \cup {sha} /\ row' = row
        /\ pos' = pos + 1 /\ manifest' = manifest
    BY <1>5 DEF LookupSame, StageRow, Advance, WorkSteps, world
  <2>2. PICK c \in Docs, meta \in Metas : c = Current /\ meta = CurMeta
    BY <1>0, <1>5, CurrentRow DEF LookupSame, StageRow, LoopSteps
  <2>3. \/ writes' = writes
        \/ writes' = [writes EXCEPT ![c] = [sha |-> sha, meta |-> meta]]
    BY <1>5, <2>2 DEF LookupSame, StageRow
  <2>4. manifest[pos].doc = c /\ pos \in 1..Len(manifest)
    <3>1. pc \in LoopSteps /\ manifest[pos].doc = c
      BY <1>5, <2>2 DEF LookupSame, StageRow, LoopSteps, Current
    <3> QED
      BY <1>0, <3>1 DEF TypeInv, ControlOK
  <2>5. ASSUME NEW d \in Docs, writes'[d] # None
        PROVE  /\ writes'[d].sha \in hashes'
               /\ \E i \in 1..(pos' - 1) : manifest[i].doc = d
    <3>1. CASE writes'[d] = writes[d]
      BY <1>9, <2>1, <2>5, <3>1 DEF NewBytesOK
    <3>2. CASE writes'[d] # writes[d]
      <4>1. d = c /\ writes'[d].sha = sha
        BY <1>0, <2>3, <3>2
      <4> QED
        BY <1>9, <2>1, <2>4, <4>1
    <3> QED
      BY <3>1, <3>2
  <2>6. CASE row[c] # None
    <3>1. ASSUME NEW d \in Docs, writes[d] # None, row[d] = None, writes[d].sha = sha
          PROVE  Later(d, c)
      <4>1. PICK i \in 1..(pos - 1) : manifest[i].doc = d
        BY <2>1, <3>1 DEF NewBytesOK
      <4> QED
        BY <2>4, <4>1 DEF Later
    <3>2. \A d, e : Later(d, e)' <=> Later(d, e)
      BY <2>1 DEF Later
    <3> QED
      BY <1>0, <2>1, <2>3, <2>6, <2>5, <3>1, <3>2 DEF NewBytesOK, IsLive
  <2>7. CASE row[c] = None
    <3>1. ~AlreadyStored(sha)
      BY <1>5, <2>2, <2>7
      DEF LookupSame, StageRow, IsLive, NewBytesOK, WorkSteps
    <3>2. \A e \in Docs : IsLive(e) => row[e].sha # sha
      BY <3>1 DEF AlreadyStored
    <3>3. \A e \in Docs : writes[e] # None => writes[e].sha # sha
      BY <2>1, <3>1 DEF AlreadyStored, NewBytesOK
    <3> QED
      BY <1>0, <2>1, <2>3, <2>5, <3>2, <3>3 DEF NewBytesOK, IsLive, Later
  <2> QED
    BY <2>6, <2>7
<1>6. CASE \/ StageChanged \/ StageFails \/ Commit \/ CommitUnacknowledged
           \/ PublishFile \/ Finish \/ Discard \/ StepFails \/ UnlinkFails
           \/ PublishFails \/ Crash
  <2>1. pc' \notin WorkSteps
    BY <1>6
    DEF StageChanged, StageFails, Commit, CommitUnacknowledged, PublishFile,
        Finish, Discard, StepFails, UnlinkFails, PublishFails, Crash,
        WorkSteps
  <2> QED
    BY <2>1 DEF NewBytesOK
<1>7. ASSUME NEW d \in Docs, SoftDelete(d) PROVE NewBytesOK'
  <2>1. UNCHANGED <<pc, manifest, pos, sha, writes, hashes>>
    BY <1>7 DEF SoftDelete, local
  <2>2. \A e \in Docs :
          /\ row'[e] # None <=> row[e] # None
          /\ row[e] # None => row'[e].sha = row[e].sha
    BY <1>0, <1>7, SoftDeleteRow
  <2>3. row'[d] # None /\ row'[d].deleted
    BY <1>0, <1>7, SoftDeleteMarks
  <2>4. \A e \in Docs : e # d => row'[e] = row[e]
    BY <1>0, <1>7 DEF SoftDelete
  <2>5. \A e \in Docs : IsLive(e)' => IsLive(e) /\ row'[e].sha = row[e].sha
    BY <2>3, <2>4 DEF IsLive
  <2>6. pc \in {"dedup", "stage"} => Current \in Docs
    BY <1>0, CurrentRow DEF LoopSteps
  <2>7. pc \in {"dedup", "stage"} => (row'[Current] = None <=> row[Current] = None)
    BY <2>2, <2>6
  <2>8. \A b : AlreadyStored(b)' => AlreadyStored(b)
    BY <2>1, <2>5 DEF AlreadyStored
  <2> QED
    BY <2>1, <2>2, <2>5, <2>7, <2>8 DEF NewBytesOK, Current, Later
<1>8. CASE \/ \E d \in Docs, c \in Contents : EditSource(d, c)
           \/ \E d \in Docs : RemoveByHand(d)
           \/ \E e \in Entities : DeleteEntity(e)
           \/ UNCHANGED vars
  <2>1. UNCHANGED <<pc, manifest, pos, sha, writes, row, hashes>>
    BY <1>8 DEF EditSource, RemoveByHand, DeleteEntity, local, vars, world
  <2> QED
    BY <2>1 DEF NewBytesOK, Current, AlreadyStored, IsLive, Later
<1> QED
  BY <1>1, <1>2, <1>3, <1>4, <1>5, <1>6, <1>7, <1>8
  DEF Next, ImporterStep, Environment

\* Every step keeps what the run has done.
LEMMA RunNext == StagingInv /\ RunInv /\ [Next]_vars => RunInv'
BY ProgressNext, DoneRowsNext, NotYetWrittenNext, NewBytesNext DEF RunInv

\* A run that succeeds leaves the documents of its manifest counted, recorded
\* as the manifest says and served, whatever earlier runs left behind.
THEOREM SuccessRepairs == Spec => []SuccessfulImportRepairs
<1>1. StagingInv /\ RunInv => SuccessfulImportRepairs
  <2> SUFFICES ASSUME StagingInv, RunInv, result = "ok",
                      NEW i \in 1..Len(manifest)
               PROVE  LET d == manifest[i].doc IN
                      /\ outcome[d] # "none"
                      /\ outcome[d] \in {"created", "updated", "unchanged"} =>
                           /\ row[d] # None
                           /\ row[d].meta = manifest[i].meta
                           /\ d \in removed \/ file[d] = row[d].sha
    BY DEF SuccessfulImportRepairs
  <2>1. manifest[i].doc \in Docs
    BY ManifestRows DEF StagingInv, TypeInv, TypeOK
  <2>2. staged[manifest[i].doc] = None
    BY <2>1 DEF RunInv, ProgressOK, StagingInv, QuietOK, Nothing
  <2> QED
    BY <2>2 DEF RunInv, DoneRowsOK, RowCommitted, StoreServes, Kept
<1> QED
  BY <1>1, StagingInit, StagingNext, RunInit, RunNext, PTL DEF Spec

\* A step that changes what a row says, other than its deletion, is a commit.
LEMMA RecordingStep ==
    ASSUME StagingInv, [Next]_vars, NEW d \in Docs,
           \/ row[d] = None /\ row'[d] # None
           \/ row[d] # None /\ row'[d].sha # row[d].sha
           \/ row[d] # None /\ row'[d].meta # row[d].meta
    PROVE  pc = "commit" /\ row' = Flushed
<1>1. TypeInv
  BY DEF StagingInv
<1>2. row' # row
  OBVIOUS
<1>3. ASSUME NEW e \in Docs, SoftDelete(e) PROVE FALSE
  BY <1>1, <1>3, SoftDeleteRow
<1>4. Commit \/ CommitUnacknowledged
  BY <1>2, <1>3
  DEF Next, ImporterStep, Environment, Start, CheckEntities, HashSource,
      LookupNew, LookupDeleted, LookupStale, LookupSame, SkipDuplicate,
      KeepNew, StageRow, StageChanged, PublishFile, Finish, Discard,
      StepFails, StageFails, UnlinkFails, PublishFails, Crash, EditSource,
      RemoveByHand, DeleteEntity, vars, world
<1> QED
  BY <1>4 DEF Commit, CommitUnacknowledged

\* When a row is recorded, every row of the manifest is, and names an entity
\* that was live.
THEOREM RecordsTogether == Spec => RecordsWholeManifest
<1>1. ASSUME StagingInv, RunInv, [Next]_vars, NEW d \in Docs,
             \/ row[d] = None /\ row'[d] # None
             \/ row[d] # None /\ row'[d].sha # row[d].sha
             \/ row[d] # None /\ row'[d].meta # row[d].meta,
             NEW i \in 1..Len(manifest)
      PROVE  LET e == manifest[i].doc IN
             /\ EntityOf[manifest[i].meta] \in live
             /\ outcome[e] # "none"
             /\ outcome[e] \in {"created", "updated"} =>
                  row'[e] # None /\ row'[e].meta = manifest[i].meta
  <2>1. pc = "commit" /\ row' = Flushed
    BY <1>1, RecordingStep
  <2>2. /\ TypeInv /\ manifest[i].doc \in Docs
        /\ Len(manifest) \in Nat /\ pos = Len(manifest) + 1
    BY <1>1, <2>1, ManifestRows, ManifestAssumption
    DEF StagingInv, RunInv, ProgressOK, TypeInv, ControlOK
  <2>3. EntityOf[manifest[i].meta] \in live
    BY <1>1, <2>1 DEF RunInv, ProgressOK, RunSteps, WorkSteps
  <2>4. /\ outcome[manifest[i].doc] # "none"
        /\ outcome[manifest[i].doc] \in Kept =>
             RowWritten(manifest[i].doc, manifest[i].meta)
    BY <1>1, <2>1, <2>2 DEF RunInv, DoneRowsOK, WorkSteps
  <2> QED
    BY <2>1, <2>2, <2>3, <2>4, FlushedRows DEF Kept, RowWritten
<1>2. StagingInv /\ RunInv /\ [Next]_vars =>
        [\A d \in Docs :
          (\/ row[d] = None /\ row'[d] # None
           \/ row[d] # None /\ row'[d].sha # row[d].sha
           \/ row[d] # None /\ row'[d].meta # row[d].meta) =>
              \A i \in 1..Len(manifest) :
                  LET e == manifest[i].doc IN
                  /\ EntityOf[manifest[i].meta] \in live
                  /\ outcome[e] # "none"
                  /\ outcome[e] \in {"created", "updated"} =>
                        row'[e] # None /\ row'[e].meta = manifest[i].meta]_vars
  BY <1>1
<1> QED
  BY <1>2, StagingInit, StagingNext, RunInit, RunNext, PTL
  DEF Spec, RecordsWholeManifest

\* A document that is recorded for the first time has the bytes of no other live
\* one, unless that one's bytes change to them on a later line of the same manifest.
THEOREM OnlyLaterUpdatesShare == Spec => OnlyLaterUpdatesShareNewBytes
<1>1. ASSUME StagingInv, RunInv, [Next]_vars, NEW d \in Docs, NEW e \in Docs,
             d # e, row[d] = None, row'[d] # None,
             row'[e] # None, ~row'[e].deleted, row'[e].sha = row'[d].sha
      PROVE  IsLive(e) /\ row[e].sha # row'[d].sha /\ Later(d, e)
  <2>1. pc = "commit" /\ row' = Flushed /\ TypeInv
    BY <1>1, RecordingStep DEF StagingInv
  <2>2. writes[d] # None /\ row'[d].sha = writes[d].sha
    BY <1>1, <2>1, FlushedRows
  <2>3. /\ IsLive(e) => row[e].sha # writes[d].sha
        /\ writes[e] # None /\ writes[e].sha = writes[d].sha =>
             row[e] # None /\ Later(d, e)
    BY <1>1, <2>1, <2>2 DEF RunInv, NewBytesOK, WorkSteps
  <2>4. CASE writes[e] = None
    <3>1. row'[e] = row[e]
      BY <2>1, <2>4 DEF Flushed
    <3> QED
      BY <1>1, <2>2, <2>3, <3>1 DEF IsLive
  <2>5. CASE writes[e] # None
    <3>1. /\ row'[e].sha = writes[e].sha
          /\ row'[e].deleted = (row[e] # None /\ row[e].deleted)
      BY <2>1, <2>5 DEF Flushed
    <3> QED
      BY <1>1, <2>2, <2>3, <2>5, <3>1 DEF IsLive
  <2> QED
    BY <2>4, <2>5
<1>2. StagingInv /\ RunInv /\ [Next]_vars =>
        [\A d \in Docs, e \in Docs :
          (/\ d # e /\ row[d] = None /\ row'[d] # None
           /\ row'[e] # None /\ ~row'[e].deleted /\ row'[e].sha = row'[d].sha) =>
              /\ IsLive(e) /\ row[e].sha # row'[d].sha
              /\ \E j \in 1..Len(manifest) : \E i \in 1..(j - 1) :
                    manifest[i].doc = d /\ manifest[j].doc = e]_vars
  BY <1>1 DEF Later
<1> QED
  BY <1>2, StagingInit, StagingNext, RunInit, RunNext, PTL
  DEF Spec, OnlyLaterUpdatesShareNewBytes

-----------------------------------------------------------------------------
(***************************************************************************)
(* The folds of the manifest check.                                        *)
(***************************************************************************)
\* A set of numbers has a least one.
LEMMA Least ==
    ASSUME NEW N \in SUBSET Nat, N # {}
    PROVE  \E n \in N : \A m \in N : n <= m
<1> DEFINE R == {ss \in Nat \X Nat : ss[1] < ss[2]}
<1>1. IsWellFoundedOn(R, Nat)
  BY NatLessThanWellFounded DEF OpToRel
<1>2. PICK n \in N : \A m \in N : <<m, n>> \notin R
  BY <1>1, WFMin
<1>3. ASSUME NEW m \in N PROVE n <= m
  <2>1. m \in Nat /\ n \in Nat
    OBVIOUS
  <2>2. ~(m < n)
    BY <1>2, <2>1
  <2> QED
    BY <2>1, <2>2
<1> QED
  BY <1>3

LEMMA MinIn ==
    ASSUME NEW N \in SUBSET Nat, N # {}
    PROVE  Min(N) \in N
BY Least DEF Min

\* A set of positions has a last one.
LEMMA MaxIn ==
    ASSUME NEW n \in Nat, NEW s \in SUBSET (1 .. n), s # {}
    PROVE  Max(s) \in s
<1> DEFINE N == {n - x : x \in s}
<1>1. N \in SUBSET Nat /\ N # {}
  <2>1. ASSUME NEW x \in s PROVE n - x \in Nat
    OBVIOUS
  <2> QED
    BY <2>1
<1>2. PICK m \in N : \A k \in N : m <= k
  BY <1>1, Least
<1>3. PICK x \in s : m = n - x
  OBVIOUS
<1>4. ASSUME NEW y \in s PROVE x >= y
  <2>1. m <= n - y
    BY <1>2
  <2>2. x \in Int /\ y \in Int
    OBVIOUS
  <2> HIDE DEF N
  <2> QED
    BY <1>3, <2>1, <2>2
<1> QED
  BY <1>3, <1>4 DEF Max

LEMMA LastOfFirst ==
    ASSUME NEW k \in Nat, k # 0
    PROVE  Max(1 .. k) = k /\ (1 .. k) \ {k} = 1 .. k - 1 /\ 1 .. k # {}
<1>1. k \in 1 .. k /\ \A y \in 1 .. k : k >= y
  OBVIOUS
<1>2. ASSUME NEW x \in 1 .. k, \A y \in 1 .. k : x >= y PROVE x = k
  BY <1>1, <1>2
<1>3. Max(1 .. k) = k
  BY <1>1, <1>2 DEF Max
<1>4. (1 .. k) \ {k} = 1 .. k - 1
  <2>1. ASSUME NEW x PROVE x \in (1 .. k) \ {k} <=> x \in 1 .. k - 1
    OBVIOUS
  <2> QED
    BY <2>1
<1> QED
  BY <1>1, <1>3, <1>4

\* One step of either fold: a record that is read, a row whose file is hashed.
Fold(of, acc, x) == IF of = "read" THEN ReadRecord(acc, x) ELSE Verify(acc, x)

\* h is the table of a fold over xs, by the set of the positions taken.
FoldsUp(h, of, base, xs) ==
    h = [s \in SUBSET DOMAIN xs |-> IF s = {} THEN base
                                    ELSE Fold(of, h[s \ {Max(s)}], xs[Max(s)])]
ReadsUp(h, base, rs) ==
    h = [s \in SUBSET DOMAIN rs |-> IF s = {} THEN base
                                    ELSE ReadRecord(h[s \ {Max(s)}], rs[Max(s)])]
VerifiesUp(h, base, rows) ==
    h = [s \in SUBSET DOMAIN rows |-> IF s = {} THEN base
                                      ELSE Verify(h[s \ {Max(s)}], rows[Max(s)])]

\* A table has a step at each position.
TableSteps(h, of, base, xs, l) ==
    /\ h[1 .. 0] = base
    /\ \A k \in 1 .. l : h[1 .. k] = Fold(of, h[1 .. k - 1], xs[k])

\* g has the report after each record, the account after each row.
ReadsBy(g, base, rs, l) ==
    /\ g[0] = base /\ g[l] = FoldLeft(ReadRecord, base, rs)
    /\ \A k \in 1 .. l : g[k] = ReadRecord(g[k - 1], rs[k])
VerifiesBy(g, base, rows, l) ==
    /\ g[0] = base /\ g[l] = FoldLeft(Verify, base, rows)
    /\ \A k \in 1 .. l : g[k] = Verify(g[k - 1], rows[k])

LEMMA ReadIsOfTable ==
    ASSUME NEW base, NEW rs
    PROVE  FoldLeft(ReadRecord, base, rs) = (CHOOSE h : ReadsUp(h, base, rs))[DOMAIN rs]
BY DEF FoldLeft, MapThenFoldSet, ReadsUp

LEMMA VerifyIsOfTable ==
    ASSUME NEW base, NEW rows
    PROVE  FoldLeft(Verify, base, rows) = (CHOOSE h : VerifiesUp(h, base, rows))[DOMAIN rows]
BY DEF FoldLeft, MapThenFoldSet, VerifiesUp

\* A set of positions is one larger than without its last.
LEMMA OneShorter ==
    ASSUME NEW n \in Nat, NEW s \in SUBSET (1 .. n)
    PROVE  /\ IsFiniteSet(s) /\ Cardinality(s) \in Nat
           /\ Cardinality(s) = 0 => s = {}
           /\ s # {} => /\ Max(s) \in s
                        /\ Cardinality(s \ {Max(s)}) \in Nat
                        /\ Cardinality(s \ {Max(s)}) < Cardinality(s)
<1>1. IsFiniteSet(1 .. n)
  BY FS_Interval
<1>2. IsFiniteSet(s) /\ Cardinality(s) \in Nat /\ (Cardinality(s) = 0 => s = {})
  BY <1>1, FS_Subset, FS_CardinalityType, FS_EmptySet
<1>3. ASSUME s # {}
      PROVE  /\ Max(s) \in s
             /\ Cardinality(s \ {Max(s)}) \in Nat
             /\ Cardinality(s \ {Max(s)}) < Cardinality(s)
  <2>1. Max(s) \in s
    BY <1>3, MaxIn
  <2>2. IsFiniteSet(s \ {Max(s)}) /\ Cardinality(s \ {Max(s)}) = Cardinality(s) - 1
    BY <1>2, <2>1, FS_RemoveElement
  <2>3. Cardinality(s \ {Max(s)}) \in Nat
    BY <2>2, FS_CardinalityType
  <2> QED
    BY <1>2, <2>1, <2>2, <2>3
<1> QED
  BY <1>2, <1>3

\* There is a table: that of the sets of n + 1 positions from that of those of n.
LEMMA FoldExists ==
    ASSUME NEW of, NEW base, NEW xs, NEW l \in Nat, DOMAIN xs = 1 .. l
    PROVE  \E h : FoldsUp(h, of, base, xs)
<1> DEFINE Sub(n) == {s \in SUBSET (1 .. l) : Cardinality(s) <= n}
           Table(h, n) == h = [s \in Sub(n) |-> IF s = {} THEN base
                                                ELSE Fold(of, h[s \ {Max(s)}], xs[Max(s)])]
           Bad == {n \in Nat : ~\E h : Table(h, n)}
<1>1. \A s \in SUBSET (1 .. l) :
         /\ IsFiniteSet(s) /\ Cardinality(s) \in Nat
         /\ Cardinality(s) = 0 => s = {}
         /\ s # {} => /\ Max(s) \in s
                      /\ Cardinality(s \ {Max(s)}) \in Nat
                      /\ Cardinality(s \ {Max(s)}) < Cardinality(s)
  BY OneShorter
<1>2. Bad = {}
  <2> SUFFICES ASSUME Bad # {} PROVE FALSE
    OBVIOUS
  <2> HIDE DEF Bad
  <2>0. Bad \in SUBSET Nat
    BY DEF Bad
  <2>2. PICK n \in Bad : \A m \in Bad : n <= m
    BY <2>0, Least
  <2>3. n \in Nat
    BY <2>0
  <2>4. n # 0
    <3> SUFFICES ASSUME n = 0 PROVE FALSE
      OBVIOUS
    <3> DEFINE h == [s \in Sub(0) |-> base]
    <3>1. ASSUME NEW s \in Sub(0) PROVE s = {}
      <4>1. s \in SUBSET (1 .. l) /\ Cardinality(s) <= 0
        OBVIOUS
      <4>2. Cardinality(s) \in Nat /\ (Cardinality(s) = 0 => s = {})
        BY <1>1, <4>1
      <4> QED
        BY <4>1, <4>2
    <3> HIDE DEF Sub
    <3>2. Table(h, 0)
      BY <3>1
    <3> QED
      BY <3>2 DEF Bad
  <2>5. n - 1 \in Nat /\ n - 1 \notin Bad
    <3>1. n - 1 \in Nat /\ ~(n <= n - 1)
      BY <2>3, <2>4
    <3> QED
      BY <2>2, <3>1
  <2>6. PICK h : Table(h, n - 1)
    BY <2>5 DEF Bad
  <2> DEFINE k == [s \in Sub(n) |-> IF s = {} THEN base
                                    ELSE Fold(of, h[s \ {Max(s)}], xs[Max(s)])]
  <2>7. \A s \in Sub(n) : s # {} => /\ s \ {Max(s)} \in Sub(n - 1)
                                    /\ s \ {Max(s)} \in Sub(n)
    <3> SUFFICES ASSUME NEW s \in Sub(n), s # {}
                 PROVE  s \ {Max(s)} \in Sub(n - 1) /\ s \ {Max(s)} \in Sub(n)
      OBVIOUS
    <3>1. /\ s \in SUBSET (1 .. l) /\ Cardinality(s) <= n /\ Cardinality(s) \in Nat
          /\ Cardinality(s \ {Max(s)}) \in Nat
          /\ Cardinality(s \ {Max(s)}) < Cardinality(s)
      BY <1>1
    <3>2. /\ Cardinality(s \ {Max(s)}) <= n - 1
          /\ Cardinality(s \ {Max(s)}) <= n
      BY <2>3, <3>1
    <3>3. s \ {Max(s)} \in SUBSET (1 .. l)
      BY <3>1
    <3> QED
      BY <3>2, <3>3
  <2>8. ASSUME NEW s \in Sub(n - 1) PROVE s \in Sub(n)
    <3>1. s \in SUBSET (1 .. l) /\ Cardinality(s) <= n - 1
      OBVIOUS
    <3>2. Cardinality(s) \in Nat
      BY <1>1, <3>1
    <3> QED
      BY <2>3, <3>1, <3>2
  <2> HIDE DEF Sub
  <2>9. \A s \in Sub(n - 1) : k[s] = h[s]
    BY <2>6, <2>8
  <2>10. k = [s \in Sub(n) |-> IF s = {} THEN base
                               ELSE Fold(of, k[s \ {Max(s)}], xs[Max(s)])]
    <3> DEFINE r == [s \in Sub(n) |-> IF s = {} THEN base
                                      ELSE Fold(of, k[s \ {Max(s)}], xs[Max(s)])]
    <3>1. ASSUME NEW s \in Sub(n) PROVE k[s] = r[s]
      <4>1. CASE s = {}
        BY <4>1
      <4>2. CASE s # {}
        <5>1. k[s \ {Max(s)}] = h[s \ {Max(s)}]
          BY <2>7, <2>9, <4>2
        <5>2. r[s] = Fold(of, k[s \ {Max(s)}], xs[Max(s)])
          BY <4>2
        <5>3. k[s] = Fold(of, h[s \ {Max(s)}], xs[Max(s)])
          BY <4>2
        <5> QED
          BY <5>1, <5>2, <5>3
      <4> QED
        BY <4>1, <4>2
    <3> QED
      BY <3>1
  <2> QED
    BY <2>10 DEF Bad
<1>3. IsFiniteSet(1 .. l) /\ Cardinality(1 .. l) \in Nat
  BY FS_Interval, FS_CardinalityType
<1>4. Sub(Cardinality(1 .. l)) = SUBSET DOMAIN xs
  BY <1>3, FS_Subset
<1>5. \E h : Table(h, Cardinality(1 .. l))
  BY <1>2, <1>3
<1> HIDE DEF Sub
<1> QED
  BY <1>4, <1>5 DEF FoldsUp

LEMMA FoldSteps ==
    ASSUME NEW of, NEW base, NEW xs, NEW l \in Nat, DOMAIN xs = 1 .. l,
           NEW h, FoldsUp(h, of, base, xs)
    PROVE  TableSteps(h, of, base, xs, l)
<1>1. h[1 .. 0] = base
  <2>1. 1 .. 0 = {}
    OBVIOUS
  <2> QED
    BY <2>1 DEF FoldsUp
<1>2. ASSUME NEW k \in 1 .. l PROVE h[1 .. k] = Fold(of, h[1 .. k - 1], xs[k])
  <2>0. k \in Nat /\ k # 0
    OBVIOUS
  <2>1. Max(1 .. k) = k /\ (1 .. k) \ {k} = 1 .. k - 1 /\ 1 .. k # {}
    BY <2>0, LastOfFirst
  <2>2. 1 .. k \in SUBSET DOMAIN xs
    OBVIOUS
  <2> QED
    BY <2>1, <2>2 DEF FoldsUp
<1> QED
  BY <1>1, <1>2 DEF TableSteps

\* Records are read, and files hashed, one after the other.
LEMMA ReadSteps ==
    ASSUME NEW base, NEW rs, NEW l \in Nat, DOMAIN rs = 1 .. l
    PROVE  \E g : ReadsBy(g, base, rs, l)
<1> DEFINE h == CHOOSE h : ReadsUp(h, base, rs)
           g == [k \in 0 .. l |-> h[1 .. k]]
<1>1. \E t : ReadsUp(t, base, rs)
  <2>1. PICK t : FoldsUp(t, "read", base, rs)
    BY FoldExists
  <2> QED
    BY <2>1 DEF FoldsUp, ReadsUp, Fold
<1>2. ReadsUp(h, base, rs)
  BY <1>1
<1>3. FoldLeft(ReadRecord, base, rs) = h[1 .. l]
  BY ReadIsOfTable
<1> HIDE DEF h
<1>4. FoldsUp(h, "read", base, rs)
  BY <1>2 DEF FoldsUp, ReadsUp, Fold
<1>5. TableSteps(h, "read", base, rs, l)
  BY <1>4, FoldSteps
<1>6. /\ h[1 .. 0] = base
      /\ \A k \in 1 .. l : h[1 .. k] = Fold("read", h[1 .. k - 1], rs[k])
  BY <1>5 DEF TableSteps
<1>7. ASSUME NEW k \in 1 .. l PROVE g[k] = ReadRecord(g[k - 1], rs[k])
  <2>1. k \in 0 .. l /\ k - 1 \in 0 .. l
    OBVIOUS
  <2> QED
    BY <1>6, <2>1 DEF Fold
<1>8. g[0] = base /\ g[l] = FoldLeft(ReadRecord, base, rs)
  BY <1>3, <1>6
<1> QED
  BY <1>7, <1>8 DEF ReadsBy

LEMMA VerifySteps ==
    ASSUME NEW base, NEW rows, NEW l \in Nat, DOMAIN rows = 1 .. l
    PROVE  \E g : VerifiesBy(g, base, rows, l)
<1> DEFINE h == CHOOSE h : VerifiesUp(h, base, rows)
           g == [k \in 0 .. l |-> h[1 .. k]]
<1>1. \E t : VerifiesUp(t, base, rows)
  <2>1. PICK t : FoldsUp(t, "hash", base, rows)
    BY FoldExists
  <2> QED
    BY <2>1 DEF FoldsUp, VerifiesUp, Fold
<1>2. VerifiesUp(h, base, rows)
  BY <1>1
<1>3. FoldLeft(Verify, base, rows) = h[1 .. l]
  BY VerifyIsOfTable
<1> HIDE DEF h
<1>4. FoldsUp(h, "hash", base, rows)
  BY <1>2 DEF FoldsUp, VerifiesUp, Fold
<1>5. TableSteps(h, "hash", base, rows, l)
  BY <1>4, FoldSteps
<1>6. /\ h[1 .. 0] = base
      /\ \A k \in 1 .. l : h[1 .. k] = Fold("hash", h[1 .. k - 1], rows[k])
  BY <1>5 DEF TableSteps
<1>7. ASSUME NEW k \in 1 .. l PROVE g[k] = Verify(g[k - 1], rows[k])
  <2>1. k \in 0 .. l /\ k - 1 \in 0 .. l
    OBVIOUS
  <2> QED
    BY <1>6, <2>1 DEF Fold
<1>8. g[0] = base /\ g[l] = FoldLeft(Verify, base, rows)
  BY <1>3, <1>6
<1> QED
  BY <1>7, <1>8 DEF VerifiesBy

-----------------------------------------------------------------------------
(***************************************************************************)
(* What is read of a manifest.                                             *)
(***************************************************************************)
Abouts == {"file", "entity", "document_type", "category", "title", "consent_on_file",
           "document_date", "effective_date", "confidential", "cells", "header", "manifest", "rows"}
Problems == [line : Nat, about : Abouts]
ParsedRows == {ParsedRow(r, line) : r \in Record, line \in Nat}
Reports == [rows : Seq(ParsedRows), found : Seq(Problems), lines : Seq(Nat), unreadable : BOOLEAN]

\* The lines with a problem, that of no line included.
FoundLines(report) == {report.found[i].line : i \in DOMAIN report.found}

\* The tests of a row fail where the record is not a good one.
LEMMA GoodPasses ==
    ASSUME NEW r \in Record
    PROVE  /\ GoodRecord(r) <=> ~r.extra /\ Failures(r) = {}
           /\ Failures(r) # {} => Tests(r)[Min(Failures(r))].column \in Abouts
<1>1. DOMAIN Tests(r) = {1, 2, 3, 4, 5, 6, 7, 8, 9, 10}
  <2>1. DOMAIN Tests(r) = 1 .. 10
    BY DEF Tests
  <2>2. 1 .. 10 = {1, 2, 3, 4, 5, 6, 7, 8, 9, 10}
    OBVIOUS
  <2> QED
    BY <2>1, <2>2
<1>2. Failures(r) = {} <=> \A i \in {1, 2, 3, 4, 5, 6, 7, 8, 9, 10} : ~Tests(r)[i].fails
  BY <1>1 DEF Failures
<1>3. (\A i \in {1, 2, 3, 4, 5, 6, 7, 8, 9, 10} : ~Tests(r)[i].fails) <=>
        /\ ~FileRefused(Paths[r.file]) /\ ~EntityRefused(r)
        /\ r.document_type # "unknown" /\ r.category # "unknown" /\ r.title \in 1 .. 255
        /\ ~BoolRefused(r.consent_on_file) /\ ~ConsentMisplaced(r)
        /\ ~DateRefused(r.document_date) /\ ~DateRefused(r.effective_date)
        /\ ~BoolRefused(r.confidential)
  <2>1. /\ Tests(r)[1].fails = FileRefused(Paths[r.file]) /\ Tests(r)[2].fails = EntityRefused(r)
        /\ Tests(r)[3].fails = (r.document_type = "unknown")
        /\ Tests(r)[4].fails = (r.category = "unknown")
        /\ Tests(r)[5].fails = (r.title \notin 1 .. 255)
    BY DEF Tests
  <2>2. /\ Tests(r)[6].fails = BoolRefused(r.consent_on_file)
        /\ Tests(r)[7].fails = ConsentMisplaced(r)
        /\ Tests(r)[8].fails = DateRefused(r.document_date)
        /\ Tests(r)[9].fails = DateRefused(r.effective_date)
        /\ Tests(r)[10].fails = BoolRefused(r.confidential)
    BY DEF Tests
  <2> QED
    BY <2>1, <2>2, Zenon
<1>4. r.title \in 1 .. 255 <=> r.title > 0 /\ r.title < 256
  <2>1. r.title \in Nat
    BY DEF Record
  <2> QED
    BY <2>1
<1>5. r.entity \in {"key", "uuid"} <=> r.entity # "text"
  BY DEF Record
<1>6. {r.consent_on_file, r.confidential, r.document_date, r.effective_date} \cap {"text"} = {}
        <=> /\ r.consent_on_file # "text" /\ r.confidential # "text"
            /\ r.document_date # "text" /\ r.effective_date # "text"
  OBVIOUS
<1>7. /\ r.consent_on_file \in {"true", "false", Blank, "text"}
      /\ r.confidential \in {"true", "false", Blank, "text"}
      /\ r.document_date \in {"date", Blank, "text"}
      /\ r.effective_date \in {"date", Blank, "text"}
  BY DEF Record
<1>0. Blank # "text"
  BY DEF Blank
<1>8. GoodRecord(r) <=>
        ~r.extra /\ \A i \in {1, 2, 3, 4, 5, 6, 7, 8, 9, 10} : ~Tests(r)[i].fails
  <2>1. ~BoolRefused(r.consent_on_file) <=> r.consent_on_file # "text"
    BY <1>0, <1>7 DEF BoolRefused
  <2>2. ~BoolRefused(r.confidential) <=> r.confidential # "text"
    BY <1>0, <1>7 DEF BoolRefused
  <2>3. /\ ~DateRefused(r.document_date) <=> r.document_date # "text"
        /\ ~DateRefused(r.effective_date) <=> r.effective_date # "text"
    BY <1>0, <1>7 DEF DateRefused
  <2>4. ~FileRefused(Paths[r.file]) <=>
           /\ Paths[r.file].place = "inside"
           /\ Paths[r.file].kind \in {"pdf", "png", "jpeg", "tiff", "txt"}
    BY DEF FileRefused
  <2>5. ~EntityRefused(r) <=> r.entity # "text"
    BY <1>5 DEF EntityRefused
  <2>6. ~ConsentMisplaced(r) <=> (r.consent_on_file = "true" => r.category = "Tax Returns")
    BY DEF ConsentMisplaced
  <2> QED
    BY <1>3, <1>4, <1>6, <2>1, <2>2, <2>3, <2>4, <2>5, <2>6, Zenon DEF GoodRecord
<1>9. ASSUME Failures(r) # {} PROVE Tests(r)[Min(Failures(r))].column \in Abouts
  <2>1. Failures(r) \in SUBSET Nat
    BY <1>1 DEF Failures
  <2>2. Min(Failures(r)) \in DOMAIN Tests(r)
    BY <1>1, <1>9, <2>1, MinIn DEF Failures
  <2>3. /\ Tests(r)[1].column = "file" /\ Tests(r)[2].column = "entity"
        /\ Tests(r)[3].column = "document_type" /\ Tests(r)[4].column = "category"
        /\ Tests(r)[5].column = "title" /\ Tests(r)[6].column = "consent_on_file"
        /\ Tests(r)[7].column = "consent_on_file" /\ Tests(r)[8].column = "document_date"
        /\ Tests(r)[9].column = "effective_date" /\ Tests(r)[10].column = "confidential"
    BY DEF Tests
  <2> QED
    BY <1>1, <2>2, <2>3 DEF Abouts
<1> QED
  BY <1>2, <1>8, <1>9

\* What is known of the report when the first k records were read.
ReadUpTo(a, rs, k) ==
    /\ a \in Reports /\ ~a.unreadable
    /\ Len(a.lines) = k /\ \A i \in 1 .. k : a.lines[i] = i
    /\ FoundLines(a) = (1 .. k) \ Accepted(rs)
    /\ \A j \in DOMAIN a.rows : /\ a.rows[j].line \in (1 .. k) \cap Accepted(rs)
                                /\ a.rows[j] = ParsedRow(rs[a.rows[j].line], a.rows[j].line)
    /\ \A i \in (1 .. k) \cap Accepted(rs) : \E j \in DOMAIN a.rows : a.rows[j].line = i
    /\ \A i, j \in DOMAIN a.rows : i < j => a.rows[i].line < a.rows[j].line
    /\ a.found = <<>> => Len(a.rows) = k /\ \A i \in 1 .. k : a.rows[i].line = i

\* Of the good records for a file the first is accepted.
LEMMA FirstAccepted ==
    ASSUME NEW rs, NEW l \in Nat, DOMAIN rs = 1 .. l,
           NEW j \in 1 .. l, GoodRecord(rs[j])
    PROVE  \E i \in 1 .. j : i \in Accepted(rs) /\ Doc(rs[i]) = Doc(rs[j])
<1> DEFINE N == {i \in 1 .. j : GoodRecord(rs[i]) /\ Doc(rs[i]) = Doc(rs[j])}
<1>1. N \in SUBSET Nat /\ N # {}
  OBVIOUS
<1> HIDE DEF N
<1>2. PICK i \in N : \A m \in N : i <= m
  BY <1>1, Least
<1>3. i \in 1 .. j /\ GoodRecord(rs[i]) /\ Doc(rs[i]) = Doc(rs[j])
  BY DEF N
<1>4. ASSUME NEW m \in 1 .. i - 1, GoodRecord(rs[m]) PROVE Doc(rs[m]) # Doc(rs[i])
  <2>1. m \in 1 .. j /\ ~(i <= m)
    BY <1>3
  <2>2. m \notin N
    BY <1>2, <2>1
  <2> QED
    BY <1>3, <1>4, <2>1, <2>2 DEF N
<1>5. i \in DOMAIN rs
  BY <1>3
<1> QED
  BY <1>3, <1>4, <1>5 DEF Accepted

\* A row repeats a file when it is that of an earlier good record.
LEMMA RepeatedMeans ==
    ASSUME NEW rs, NEW l \in Nat, DOMAIN rs = 1 .. l, NEW k \in 1 .. l,
           NEW a, ReadUpTo(a, rs, k - 1)
    PROVE  Repeated(ParsedRow(rs[k], k), a.rows) <=>
             \E j \in 1 .. k - 1 : GoodRecord(rs[j]) /\ Doc(rs[j]) = Doc(rs[k])
<1>1. \A r, i : ParsedRow(r, i).doc = Doc(r)
  BY DEF ParsedRow, Doc
<1>2. ASSUME Repeated(ParsedRow(rs[k], k), a.rows)
      PROVE  \E j \in 1 .. k - 1 : GoodRecord(rs[j]) /\ Doc(rs[j]) = Doc(rs[k])
  <2>1. PICK i \in DOMAIN a.rows : a.rows[i].doc = Doc(rs[k])
    BY <1>1, <1>2 DEF Repeated
  <2>2. /\ a.rows[i].line \in (1 .. k - 1) \cap Accepted(rs)
        /\ a.rows[i].doc = Doc(rs[a.rows[i].line])
    BY <1>1 DEF ReadUpTo
  <2> QED
    BY <2>1, <2>2 DEF Accepted
<1>3. ASSUME NEW j \in 1 .. k - 1, GoodRecord(rs[j]), Doc(rs[j]) = Doc(rs[k])
      PROVE  Repeated(ParsedRow(rs[k], k), a.rows)
  <2>0. j \in 1 .. l
    OBVIOUS
  <2>1. PICK i \in 1 .. j : i \in Accepted(rs) /\ Doc(rs[i]) = Doc(rs[j])
    BY <1>3, <2>0, FirstAccepted
  <2>2. i \in (1 .. k - 1) \cap Accepted(rs)
    BY <2>1
  <2>3. PICK m \in DOMAIN a.rows : a.rows[m].line = i
    BY <2>2 DEF ReadUpTo
  <2>4. a.rows[m].doc = Doc(rs[i])
    BY <1>1, <2>3 DEF ReadUpTo
  <2> QED
    BY <1>1, <1>3, <2>1, <2>4 DEF Repeated
<1> QED
  BY <1>2, <1>3

\* The report at the next line, and with its row.
NextLine(a, k) == [a EXCEPT !.lines = Append(@, k)]
WithRow(a, parsed) == [a EXCEPT !.rows = Append(@, parsed)]

\* A record gets a row when it is accepted, and a problem when not.
LEMMA ReadOne ==
    ASSUME NEW rs \in Seq(Record), NEW l \in Nat, DOMAIN rs = 1 .. l, NEW k \in 1 .. l,
           NEW a, ReadUpTo(a, rs, k - 1)
    PROVE  /\ k \in Accepted(rs) =>
                ReadRecord(a, rs[k]) = WithRow(NextLine(a, k), ParsedRow(rs[k], k))
           /\ k \notin Accepted(rs) =>
                \E about \in Abouts : ReadRecord(a, rs[k]) = Add(NextLine(a, k), k, about)
<1> DEFINE read == NextLine(a, k)
           parsed == ParsedRow(rs[k], k)
           r == rs[k]
<1>1. r \in Record
  OBVIOUS
<1>2. Len(a.lines) + 1 = k
  BY DEF ReadUpTo
<1>3. ReadRecord(a, r) =
        IF r.extra THEN Add(read, k, "cells")
        ELSE IF Failures(r) # {} THEN Add(read, k, Tests(r)[Min(Failures(r))].column)
        ELSE IF Repeated(parsed, a.rows) THEN Add(read, k, "file")
        ELSE WithRow(read, parsed)
  BY <1>2 DEF ReadRecord, NextLine, WithRow
<1>4. k \in Accepted(rs) <=> GoodRecord(r) /\ ~Repeated(parsed, a.rows)
  BY RepeatedMeans DEF Accepted
<1>5. /\ GoodRecord(r) <=> ~r.extra /\ Failures(r) = {}
      /\ Failures(r) # {} => Tests(r)[Min(Failures(r))].column \in Abouts
  BY <1>1, GoodPasses
<1> HIDE DEF read, parsed, r
<1>6. k \in Accepted(rs) => ReadRecord(a, r) = WithRow(read, parsed)
  BY <1>3, <1>4, <1>5
<1>7. ASSUME k \notin Accepted(rs)
      PROVE  \E about \in Abouts : ReadRecord(a, r) = Add(read, k, about)
  <2>1. ~(~r.extra /\ Failures(r) = {} /\ ~Repeated(parsed, a.rows))
    BY <1>4, <1>5, <1>7
  <2>2. "cells" \in Abouts /\ "file" \in Abouts
    BY DEF Abouts
  <2> QED
    BY <1>3, <1>5, <2>1, <2>2, Zenon
<1> QED
  BY <1>6, <1>7 DEF read, parsed, r

\* One more problem.
Adds(b, a, line) ==
    /\ b \in Reports /\ b.rows = a.rows /\ b.lines = a.lines
    /\ b.unreadable = a.unreadable
    /\ b.found # <<>>
    /\ FoundLines(b) = FoundLines(a) \cup {line}

LEMMA AddProblem ==
    ASSUME NEW a \in Reports, NEW line \in Nat, NEW about \in Abouts
    PROVE  Adds(Add(a, line, about), a, line)
<1> DEFINE p == [line |-> line, about |-> about]
           b == Add(a, line, about)
<1>1. a.found \in Seq(Problems) /\ p \in Problems
  BY DEF Reports, Problems
<1>2. b = [a EXCEPT !.found = Append(@, p)]
  BY DEF Add
<1>3. /\ b.rows = a.rows /\ b.lines = a.lines /\ b.unreadable = a.unreadable
      /\ b.found = Append(a.found, p)
  BY <1>2 DEF Reports
<1>4. Append(a.found, p) \in Seq(Problems)
  BY <1>1
<1>5. b \in Reports
  BY <1>2, <1>4 DEF Reports
<1>6. p.line = line
  OBVIOUS
<1>7. FoundLines(b) = FoundLines(a) \cup {line}
  <2> HIDE DEF p, b
  <2>1. PICK n \in Nat : n = Len(a.found)
    BY <1>1
  <2>2. /\ DOMAIN a.found = 1 .. n /\ DOMAIN b.found = 1 .. n + 1
        /\ b.found[n + 1] = p /\ \A i \in 1 .. n : b.found[i] = a.found[i]
    BY <1>1, <1>3, <2>1
  <2> HIDE <2>1
  <2>3. \A i : i \in 1 .. n + 1 <=> i \in 1 .. n \/ i = n + 1
    OBVIOUS
  <2> QED
    BY <1>6, <2>2, <2>3 DEF FoundLines
<1>8. b.found # <<>>
  BY <1>1, <1>3
<1> QED
  BY <1>3, <1>5, <1>7, <1>8 DEF Adds

LEMMA OneMore ==
    ASSUME NEW k \in Nat \ {0}
    PROVE  1 .. k = (1 .. k - 1) \cup {k} /\ k \notin 1 .. k - 1
<1>1. ASSUME NEW x PROVE x \in 1 .. k <=> x \in 1 .. k - 1 \/ x = k
  OBVIOUS
<1> QED
  BY <1>1

\* The next line is read.
AtLine(read, a, k) ==
    /\ read \in Reports /\ read.rows = a.rows /\ read.found = a.found
    /\ ~read.unreadable
    /\ Len(read.lines) = k /\ \A i \in 1 .. k : read.lines[i] = i

LEMMA LineRead ==
    ASSUME NEW rs, NEW k \in Nat \ {0}, NEW a, ReadUpTo(a, rs, k - 1)
    PROVE  AtLine(NextLine(a, k), a, k)
<1>1. /\ a \in Reports /\ ~a.unreadable /\ a.lines \in Seq(Nat)
      /\ Len(a.lines) = k - 1 /\ \A i \in 1 .. k - 1 : a.lines[i] = i
  BY DEF ReadUpTo, Reports
<1>2. Append(a.lines, k) \in Seq(Nat) /\ Len(Append(a.lines, k)) = k
  BY <1>1
<1>3. \A i \in 1 .. k : Append(a.lines, k)[i] = i
  BY <1>1
<1> QED
  BY <1>1, <1>2, <1>3 DEF Reports, NextLine, AtLine

\* Each record that is read keeps what is known.
LEMMA ReadKeeps ==
    ASSUME NEW rs \in Seq(Record), NEW l \in Nat, DOMAIN rs = 1 .. l, NEW k \in 1 .. l,
           NEW a, ReadUpTo(a, rs, k - 1)
    PROVE  ReadUpTo(ReadRecord(a, rs[k]), rs, k)
<1> DEFINE read == NextLine(a, k)
           parsed == ParsedRow(rs[k], k)
           b == ReadRecord(a, rs[k])
           acc == Accepted(rs)
           before == 1 .. k - 1
<1>1. /\ k \in acc => b = WithRow(read, parsed)
      /\ k \notin acc => \E about \in Abouts : b = Add(read, k, about)
  BY ReadOne
<1>2. k \in Nat \ {0}
  OBVIOUS
<1>0. AtLine(read, a, k)
  BY <1>2, LineRead
<1>3. /\ read \in Reports /\ read.rows = a.rows /\ read.found = a.found
      /\ ~read.unreadable
      /\ Len(read.lines) = k /\ \A i \in 1 .. k : read.lines[i] = i
  BY <1>0 DEF AtLine
<1>4. 1 .. k = before \cup {k} /\ k \notin before
  BY <1>2, OneMore
<1>5. /\ FoundLines(a) = before \ acc
      /\ \A j \in DOMAIN a.rows : /\ a.rows[j].line \in before \cap acc
                                  /\ a.rows[j] = ParsedRow(rs[a.rows[j].line], a.rows[j].line)
      /\ \A i \in before \cap acc : \E j \in DOMAIN a.rows : a.rows[j].line = i
      /\ \A i, j \in DOMAIN a.rows : i < j => a.rows[i].line < a.rows[j].line
      /\ a.found = <<>> => Len(a.rows) = k - 1 /\ \A i \in before : a.rows[i].line = i
  BY DEF ReadUpTo
<1>6. rs[k] \in Record
  OBVIOUS
<1>7. FoundLines(read) = FoundLines(a)
  BY <1>3 DEF FoundLines
<1> HIDE DEF read, parsed, b, acc
<1>8. CASE k \notin acc
  <2>1. PICK about \in Abouts : b = Add(read, k, about)
    BY <1>1, <1>8
  <2>2. /\ b \in Reports /\ b.rows = a.rows /\ b.lines = read.lines
        /\ ~b.unreadable /\ b.found # <<>> /\ FoundLines(b) = FoundLines(a) \cup {k}
    <3>1. Adds(b, read, k)
      BY <1>2, <1>3, <2>1, AddProblem
    <3> QED
      BY <1>3, <1>7, <3>1 DEF Adds
  <2> HIDE DEF before
  <2>3. FoundLines(b) = (1 .. k) \ acc /\ (1 .. k) \cap acc = before \cap acc
    BY <1>4, <1>5, <1>8, <2>2
  <2>4. ReadUpTo(b, rs, k)
    BY <1>3, <1>5, <2>2, <2>3 DEF ReadUpTo, acc
  <2> QED
    BY <2>4 DEF b
<1>9. CASE k \in acc
  <2>1. parsed \in ParsedRows /\ parsed.line = k
    BY <1>2, <1>6 DEF parsed, ParsedRows, ParsedRow
  <2>2. a.rows \in Seq(ParsedRows)
    BY <1>3 DEF Reports
  <2>3. /\ b.rows = Append(a.rows, parsed) /\ b.found = a.found /\ b.lines = read.lines
        /\ b.unreadable = read.unreadable /\ b \in Reports
    <3>1. b = WithRow(read, parsed)
      BY <1>1, <1>9
    <3>2. Append(a.rows, parsed) \in Seq(ParsedRows)
      BY <2>1, <2>2
    <3> QED
      BY <1>3, <3>1, <3>2 DEF Reports, WithRow
  <2>4. PICK n \in Nat : n = Len(a.rows)
    BY <2>2
  <2>5. /\ DOMAIN a.rows = 1 .. n /\ DOMAIN b.rows = 1 .. n + 1 /\ Len(b.rows) = n + 1
        /\ b.rows[n + 1] = parsed /\ \A i \in 1 .. n : b.rows[i] = a.rows[i]
    BY <2>1, <2>2, <2>3, <2>4
  <2>6. FoundLines(b) = FoundLines(a)
    BY <2>3 DEF FoundLines
  <2>7. 1 .. n + 1 = (1 .. n) \cup {n + 1} /\ n + 1 \notin 1 .. n
    <3>1. n + 1 \in Nat \ {0} /\ (n + 1) - 1 = n
      OBVIOUS
    <3> QED
      BY <3>1, OneMore
  <2>8. FoundLines(b) = (1 .. k) \ acc
    <3> HIDE DEF before
    <3> QED
      BY <1>4, <1>5, <1>9, <2>6
  <2>9. ASSUME NEW j \in DOMAIN b.rows
        PROVE  /\ b.rows[j].line \in (1 .. k) \cap acc
               /\ b.rows[j] = ParsedRow(rs[b.rows[j].line], b.rows[j].line)
    <3> HIDE DEF before
    <3>1. CASE j \in 1 .. n
      BY <1>4, <1>5, <2>5, <3>1
    <3>2. CASE j = n + 1
      BY <1>4, <1>9, <2>1, <2>5, <3>2 DEF parsed
    <3> QED
      BY <2>5, <2>7, <3>1, <3>2
  <2>10. ASSUME NEW i \in (1 .. k) \cap acc
         PROVE  \E j \in DOMAIN b.rows : b.rows[j].line = i
    <3> HIDE DEF before
    <3>1. CASE i \in before
      BY <1>5, <2>5, <2>7, <3>1
    <3>2. CASE i = k
      BY <2>1, <2>5, <2>7, <3>2
    <3> QED
      BY <1>4, <3>1, <3>2
  <2>11. ASSUME NEW i \in DOMAIN b.rows, NEW j \in DOMAIN b.rows, i < j
         PROVE  b.rows[i].line < b.rows[j].line
    <3>1. i \in 1 .. n
      BY <2>5, <2>11
    <3>2. CASE j \in 1 .. n
      BY <1>5, <2>5, <2>11, <3>1, <3>2
    <3>3. CASE j = n + 1
      <4>1. b.rows[i].line \in 1 .. k - 1
        BY <1>5, <2>5, <3>1
      <4> QED
        BY <2>1, <2>5, <3>3, <4>1
    <3> QED
      BY <2>5, <2>7, <3>2, <3>3
  <2>12. ASSUME b.found = <<>>
         PROVE  Len(b.rows) = k /\ \A i \in 1 .. k : b.rows[i].line = i
    <3>1. n = k - 1 /\ \A i \in before : a.rows[i].line = i
      BY <1>5, <2>3, <2>4, <2>12
    <3>2. n + 1 = k /\ 1 .. n = before
      BY <3>1
    <3> HIDE DEF before
    <3> QED
      BY <1>4, <2>1, <2>5, <3>1, <3>2
  <2>13. ReadUpTo(b, rs, k)
    BY <1>3, <2>3, <2>8, <2>9, <2>10, <2>11, <2>12 DEF ReadUpTo, acc
  <2> QED
    BY <2>13 DEF b
<1> QED
  BY <1>8, <1>9

\* Reading starts from an empty report.
LEMMA NothingRead ==
    ASSUME NEW rs
    PROVE  ReadUpTo(EmptyReport, rs, 0)
<1>1. /\ EmptyReport.rows = <<>> /\ EmptyReport.found = <<>> /\ EmptyReport.lines = <<>>
      /\ ~EmptyReport.unreadable /\ EmptyReport \in Reports
  BY DEF EmptyReport, Reports
<1>2. 1 .. 0 = {} /\ DOMAIN <<>> = {} /\ Len(<<>>) = 0
  OBVIOUS
<1> HIDE DEF EmptyReport
<1>3. FoundLines(EmptyReport) = {}
  BY <1>1, <1>2 DEF FoundLines
<1> QED
  BY <1>1, <1>2, <1>3 DEF ReadUpTo

\* All is known of the report when every record was read.
LEMMA AllRead ==
    ASSUME NEW rs \in Seq(Record), NEW l \in Nat, DOMAIN rs = 1 .. l
    PROVE  ReadUpTo(FoldLeft(ReadRecord, EmptyReport, rs), rs, l)
<1>0. PICK g : ReadsBy(g, EmptyReport, rs, l)
  BY ReadSteps
<1>1. /\ g[0] = EmptyReport /\ g[l] = FoldLeft(ReadRecord, EmptyReport, rs)
      /\ \A k \in 1 .. l : g[k] = ReadRecord(g[k - 1], rs[k])
  BY <1>0 DEF ReadsBy
<1> DEFINE Bad == {k \in 0 .. l : ~ReadUpTo(g[k], rs, k)}
<1>2. Bad = {}
  <2> SUFFICES ASSUME Bad # {} PROVE FALSE
    OBVIOUS
  <2>1. Bad \in SUBSET Nat
    OBVIOUS
  <2> HIDE DEF Bad
  <2>2. PICK k \in Bad : \A m \in Bad : k <= m
    BY <2>1, Least
  <2>3. k \in 0 .. l /\ ~ReadUpTo(g[k], rs, k)
    BY DEF Bad
  <2>4. k # 0
    BY <1>1, <2>3, NothingRead
  <2>5. k \in 1 .. l /\ k - 1 \in 0 .. l /\ ~(k <= k - 1)
    BY <2>3, <2>4
  <2>6. ReadUpTo(g[k - 1], rs, k - 1)
    BY <2>2, <2>5 DEF Bad
  <2>7. ReadUpTo(ReadRecord(g[k - 1], rs[k]), rs, k)
    BY <2>5, <2>6, ReadKeeps
  <2> QED
    BY <1>1, <2>3, <2>5, <2>7
<1>3. l \in 0 .. l
  OBVIOUS
<1> QED
  BY <1>1, <1>2, <1>3

-----------------------------------------------------------------------------
(***************************************************************************)
(* What a dry run finds.                                                   *)
(***************************************************************************)
Hashes == {Paths[p].bytes : p \in DOMAIN Paths}
HashesAt(report, rs, k) == {BytesAt(rs[report.rows[j].line]) : j \in 1 .. k}
LinesTo(report, k) == {report.rows[j].line : j \in 1 .. k}

\* What is known when the files of the first k rows were hashed.
HashedUpTo(acc, report, rs, k) ==
    /\ acc \in [report : Reports, hashes : SUBSET Hashes]
    /\ acc.report.rows = report.rows /\ acc.report.lines = report.lines
    /\ ~acc.report.unreadable
    /\ acc.hashes = HashesAt(report, rs, k) \ {"unreadable"}
    /\ FoundLines(acc.report) = FoundLines(report) \cup (LinesTo(report, k) \ Verified(rs))

\* The rows before one are those of the accepted records before its record.
LEMMA RowsBefore ==
    ASSUME NEW rs, NEW l \in Nat, DOMAIN rs = 1 .. l,
           NEW report, ReadUpTo(report, rs, l), NEW k \in 1 .. Len(report.rows)
    PROVE  /\ report.rows[k].line \in Accepted(rs)
           /\ {j \in Accepted(rs) : j < report.rows[k].line} = LinesTo(report, k - 1)
<1> DEFINE rows == report.rows
<1>1. rows \in Seq(ParsedRows)
  BY DEF ReadUpTo, Reports
<1>2. PICK n \in Nat : n = Len(rows) /\ DOMAIN rows = 1 .. n
  BY <1>1
<1>3. /\ \A j \in 1 .. n : rows[j].line \in (1 .. l) \cap Accepted(rs)
      /\ \A i \in (1 .. l) \cap Accepted(rs) : \E j \in 1 .. n : rows[j].line = i
      /\ \A i, j \in 1 .. n : i < j => rows[i].line < rows[j].line
  BY <1>2 DEF ReadUpTo
<1>4. k \in 1 .. n
  BY <1>2
<1>5. Accepted(rs) \subseteq 1 .. l
  BY DEF Accepted
<1> HIDE DEF rows
<1>6. rows[k].line \in Accepted(rs) /\ rows[k].line \in 1 .. l
  BY <1>3, <1>4
<1>7. ASSUME NEW j \in Accepted(rs), j < rows[k].line
      PROVE  \E m \in 1 .. k - 1 : rows[m].line = j
  <2>1. PICK m \in 1 .. n : rows[m].line = j
    BY <1>3, <1>5
  <2>2. ~(rows[k].line < rows[m].line) /\ m # k
    BY <1>5, <1>6, <1>7, <2>1
  <2>3. ~(k < m)
    BY <1>3, <1>4, <2>2
  <2>4. m \in 1 .. k - 1
    BY <1>4, <2>2, <2>3
  <2> QED
    BY <2>1, <2>4
<1>8. ASSUME NEW m \in 1 .. k - 1
      PROVE  rows[m].line \in Accepted(rs) /\ rows[m].line < rows[k].line
  <2>1. m \in 1 .. n /\ m < k
    BY <1>4
  <2> QED
    BY <1>3, <1>4, <2>1
<1>9. {j \in Accepted(rs) : j < rows[k].line} = {rows[j].line : j \in 1 .. k - 1}
  BY <1>7, <1>8
<1> QED
  BY <1>6, <1>9 DEF LinesTo, rows

\* Each row that is hashed keeps what is known.
LEMMA HashKeeps ==
    ASSUME NEW rs \in Seq(Record), NEW l \in Nat, DOMAIN rs = 1 .. l,
           NEW report, ReadUpTo(report, rs, l), NEW k \in 1 .. Len(report.rows),
           NEW acc, HashedUpTo(acc, report, rs, k - 1)
    PROVE  HashedUpTo(Verify(acc, report.rows[k]), report, rs, k)
<1> DEFINE parsed == report.rows[k]
           i == parsed.line
           bytes == Paths[parsed.file].bytes
           b == Verify(acc, parsed)
           bad == bytes = "unreadable" \/ bytes \in acc.hashes
<1>1. k \in DOMAIN report.rows /\ k \in Nat \ {0}
  BY DEF ReadUpTo, Reports
<1>2. /\ i \in (1 .. l) \cap Accepted(rs) /\ parsed = ParsedRow(rs[i], i)
  BY <1>1 DEF ReadUpTo
<1>3. bytes = BytesAt(rs[i]) /\ bytes \in Hashes /\ i \in Nat
  <2>1. rs[i] \in Record
    BY <1>2
  <2>2. parsed.file = rs[i].file
    BY <1>2 DEF ParsedRow
  <2>3. rs[i].file \in DOMAIN Paths
    BY <2>1 DEF Record
  <2> QED
    BY <1>2, <2>2, <2>3 DEF BytesAt, Hashes
<1>4. /\ acc \in [report : Reports, hashes : SUBSET Hashes]
      /\ acc.report.rows = report.rows /\ acc.report.lines = report.lines
      /\ ~acc.report.unreadable
      /\ acc.hashes = HashesAt(report, rs, k - 1) \ {"unreadable"}
      /\ FoundLines(acc.report) = FoundLines(report) \cup (LinesTo(report, k - 1) \ Verified(rs))
  BY DEF HashedUpTo
<1>5. {j \in Accepted(rs) : j < i} = LinesTo(report, k - 1)
  BY RowsBefore
<1>6. 1 .. k = (1 .. k - 1) \cup {k}
  BY <1>1, OneMore
<1>7. LinesTo(report, k) = LinesTo(report, k - 1) \cup {i}
  BY <1>6 DEF LinesTo
<1>8. HashesAt(report, rs, k) = HashesAt(report, rs, k - 1) \cup {bytes}
  BY <1>3, <1>6 DEF HashesAt
<1>9. i \in Verified(rs) <=> ~bad
  <2>1. HashesAt(report, rs, k - 1) = {BytesAt(rs[j]) : j \in LinesTo(report, k - 1)}
    BY DEF HashesAt, LinesTo
  <2>2. i \in Verified(rs) <=>
          bytes # "unreadable" /\ \A j \in LinesTo(report, k - 1) : BytesAt(rs[j]) # bytes
    BY <1>2, <1>3, <1>5 DEF Verified
  <2> QED
    BY <1>4, <2>1, <2>2
<1>10. b = IF bad THEN [acc EXCEPT !.report = Add(acc.report, i, "file")]
           ELSE [acc EXCEPT !.hashes = acc.hashes \cup {bytes}]
  BY DEF Verify
<1> HIDE DEF parsed, i, bytes, b, bad
<1>11. CASE bad
  <2>1. b = [acc EXCEPT !.report = Add(acc.report, i, "file")]
    BY <1>10, <1>11
  <2>2. acc.report \in Reports /\ acc.hashes \in SUBSET Hashes /\ "file" \in Abouts
    BY <1>4 DEF Abouts
  <2> DEFINE c == Add(acc.report, i, "file")
  <2>3. /\ c \in Reports /\ c.rows = acc.report.rows /\ c.lines = acc.report.lines
        /\ c.unreadable = acc.report.unreadable
        /\ FoundLines(c) = FoundLines(acc.report) \cup {i}
    <3>1. Adds(c, acc.report, i)
      BY <1>3, <2>2, AddProblem
    <3> QED
      BY <3>1 DEF Adds
  <2> HIDE DEF c
  <2>4. /\ b.report = c /\ b.hashes = acc.hashes
        /\ b \in [report : Reports, hashes : SUBSET Hashes]
    BY <1>4, <2>1, <2>2, <2>3 DEF c
  <2>5. b.hashes = HashesAt(report, rs, k) \ {"unreadable"}
    BY <1>4, <1>8, <1>11, <2>4 DEF bad
  <2>6. FoundLines(c) = FoundLines(report) \cup (LinesTo(report, k) \ Verified(rs))
    BY <1>4, <1>7, <1>9, <1>11, <2>3
  <2>7. HashedUpTo(b, report, rs, k)
    BY <1>4, <2>3, <2>4, <2>5, <2>6 DEF HashedUpTo
  <2> QED
    BY <2>7 DEF b, parsed
<1>12. CASE ~bad
  <2>1. b = [acc EXCEPT !.hashes = acc.hashes \cup {bytes}]
    BY <1>10, <1>12
  <2>2. /\ b.report = acc.report /\ b.hashes = acc.hashes \cup {bytes}
        /\ b \in [report : Reports, hashes : SUBSET Hashes]
    BY <1>3, <1>4, <2>1
  <2>3. b.hashes = HashesAt(report, rs, k) \ {"unreadable"}
    BY <1>4, <1>8, <1>12, <2>2 DEF bad
  <2>4. LinesTo(report, k) \ Verified(rs) = LinesTo(report, k - 1) \ Verified(rs)
    BY <1>7, <1>9, <1>12
  <2>5. HashedUpTo(b, report, rs, k)
    BY <1>4, <2>2, <2>3, <2>4 DEF HashedUpTo
  <2> QED
    BY <2>5 DEF b, parsed
<1> QED
  BY <1>11, <1>12

\* A dry run leaves a problem on the lines that are not verified and on no other.
LEMMA AllHashed ==
    ASSUME NEW rs \in Seq(Record), NEW l \in Nat, DOMAIN rs = 1 .. l,
           NEW report, ReadUpTo(report, rs, l)
    PROVE  /\ VerifySources(report) \in Reports /\ ~VerifySources(report).unreadable
           /\ VerifySources(report).lines = report.lines
           /\ FoundLines(VerifySources(report)) = (1 .. l) \ Verified(rs)
<1> DEFINE base == [report |-> report, hashes |-> {}]
<1>1. report \in Reports /\ report.rows \in Seq(ParsedRows) /\ ~report.unreadable
  BY DEF ReadUpTo, Reports
<1>2. PICK n \in Nat : n = Len(report.rows) /\ DOMAIN report.rows = 1 .. n
  BY <1>1
<1>3. PICK g : VerifiesBy(g, base, report.rows, n)
  BY <1>2, VerifySteps
<1>4. /\ g[0] = base /\ g[n] = FoldLeft(Verify, base, report.rows)
      /\ \A k \in 1 .. n : g[k] = Verify(g[k - 1], report.rows[k])
  BY <1>3 DEF VerifiesBy
<1>5. HashedUpTo(base, report, rs, 0)
  <2>1. HashesAt(report, rs, 0) = {} /\ LinesTo(report, 0) = {}
    BY DEF HashesAt, LinesTo
  <2>2. base.report = report /\ base.hashes = {} /\ base \in [report : Reports, hashes : SUBSET Hashes]
    BY <1>1
  <2> HIDE DEF base
  <2> QED
    BY <1>1, <2>1, <2>2 DEF HashedUpTo
<1>6. VerifySources(report) = g[n].report
  BY <1>4 DEF VerifySources
<1> HIDE DEF base
<1> DEFINE Bad == {k \in 0 .. n : ~HashedUpTo(g[k], report, rs, k)}
<1>7. Bad = {}
  <2> SUFFICES ASSUME Bad # {} PROVE FALSE
    OBVIOUS
  <2>1. Bad \in SUBSET Nat
    OBVIOUS
  <2> HIDE DEF Bad
  <2>2. PICK k \in Bad : \A m \in Bad : k <= m
    BY <2>1, Least
  <2>3. k \in 0 .. n /\ ~HashedUpTo(g[k], report, rs, k)
    BY DEF Bad
  <2>4. k # 0
    BY <1>4, <1>5, <2>3
  <2>5. k \in 1 .. n /\ k - 1 \in 0 .. n /\ ~(k <= k - 1)
    BY <2>3, <2>4
  <2>6. HashedUpTo(g[k - 1], report, rs, k - 1)
    BY <2>2, <2>5 DEF Bad
  <2>7. k \in 1 .. Len(report.rows)
    BY <1>2, <2>5
  <2>8. HashedUpTo(Verify(g[k - 1], report.rows[k]), report, rs, k)
    BY <2>6, <2>7, HashKeeps
  <2> QED
    BY <1>4, <2>3, <2>5, <2>8
<1>8. HashedUpTo(g[n], report, rs, n)
  <2>1. n \in 0 .. n
    OBVIOUS
  <2> QED
    BY <1>7, <2>1
<1>9. LinesTo(report, n) = Accepted(rs)
  <2>1. \A j \in 1 .. n : report.rows[j].line \in Accepted(rs)
    BY <1>2 DEF ReadUpTo
  <2>2. \A i \in (1 .. l) \cap Accepted(rs) : \E j \in 1 .. n : report.rows[j].line = i
    BY <1>2 DEF ReadUpTo
  <2>3. Accepted(rs) \subseteq 1 .. l
    BY DEF Accepted
  <2> QED
    BY <2>1, <2>2, <2>3 DEF LinesTo
<1>10. FoundLines(g[n].report) = (1 .. l) \ Verified(rs)
  <2>1. FoundLines(g[n].report) = FoundLines(report) \cup (Accepted(rs) \ Verified(rs))
    BY <1>8, <1>9 DEF HashedUpTo
  <2>2. FoundLines(report) = (1 .. l) \ Accepted(rs)
    BY DEF ReadUpTo
  <2>3. Verified(rs) \subseteq Accepted(rs) /\ Accepted(rs) \subseteq 1 .. l
    BY DEF Verified, Accepted
  <2> QED
    BY <2>1, <2>2, <2>3
<1>11. /\ g[n].report \in Reports /\ ~g[n].report.unreadable
       /\ g[n].report.lines = report.lines
  BY <1>8 DEF HashedUpTo
<1> QED
  BY <1>6, <1>10, <1>11

\* Without rows there is nothing to hash.
LEMMA NoneHashed ==
    ASSUME NEW report, report.rows = <<>>
    PROVE  VerifySources(report) = report
<1> DEFINE base == [report |-> report, hashes |-> {}]
<1>1. DOMAIN report.rows = 1 .. 0
  OBVIOUS
<1>2. PICK g : VerifiesBy(g, base, report.rows, 0)
  BY <1>1, VerifySteps
<1> QED
  BY <1>2 DEF VerifiesBy, VerifySources

-----------------------------------------------------------------------------
(***************************************************************************)
(* The verdicts.                                                           *)
(***************************************************************************)
\* No problem is none of a line and none of no line.
LEMMA NoProblem ==
    ASSUME NEW report \in Reports
    PROVE  /\ report.found = <<>> <=> FoundLines(report) = {}
           /\ Errors(report) = 0 <=> report.found = <<>>
           /\ Errors(report) \in Nat
<1> DEFINE general == {i \in DOMAIN report.found : report.found[i].line = NoLine}
           lines == BadLines(report)
<1>1. report.found \in Seq(Problems)
  BY DEF Reports
<1>2. PICK n \in Nat : n = Len(report.found) /\ DOMAIN report.found = 1 .. n
  BY <1>1
<1>3. report.found = <<>> <=> n = 0
  BY <1>1, <1>2
<1>4. n = 0 <=> 1 .. n = {}
  OBVIOUS
<1>5. report.found = <<>> <=> FoundLines(report) = {}
  BY <1>2, <1>3, <1>4 DEF FoundLines
<1>6. lines = FoundLines(report) \ {NoLine}
  BY DEF BadLines, FoundLines
<1>7. IsFiniteSet(1 .. n)
  BY FS_Interval
<1>8. IsFiniteSet(FoundLines(report))
  <2>1. FoundLines(report) = {report.found[i].line : i \in 1 .. n}
    BY <1>2 DEF FoundLines
  <2>2. [i \in 1 .. n |-> report.found[i].line] \in Surjection(1 .. n, FoundLines(report))
    BY <2>1 DEF Surjection
  <2> QED
    BY <1>7, <2>2, FS_Surjection DEF ExistsSurjection
<1>9. IsFiniteSet(lines) /\ IsFiniteSet(general)
  BY <1>2, <1>6, <1>7, <1>8, FS_Subset
<1>10. /\ Cardinality(lines) \in Nat /\ Cardinality(general) \in Nat
       /\ Cardinality(lines) = 0 <=> lines = {}
       /\ Cardinality(general) = 0 <=> general = {}
  BY <1>9, FS_CardinalityType, FS_EmptySet
<1>11. lines = {} /\ general = {} <=> FoundLines(report) = {}
  BY <1>6 DEF FoundLines
<1>12. Errors(report) = Cardinality(lines) + Cardinality(general)
  BY DEF Errors
<1> HIDE DEF lines, general
<1>13. Errors(report) = 0 <=> lines = {} /\ general = {}
  BY <1>10, <1>12
<1>14. Errors(report) \in Nat
  BY <1>10, <1>12
<1> QED
  BY <1>5, <1>11, <1>13, <1>14

\* A header is good when nothing is said about it.
LEMMA HeaderVerdict ==
    ASSUME NEW names \in Seq(STRING)
    PROVE  /\ HeaderReport(names) \in Reports
           /\ HeaderReport(names).rows = <<>> /\ ~HeaderReport(names).unreadable
           /\ GoodHeader(names) <=> HeaderReport(names).found = <<>>
           /\ HeaderReport(names).found = <<>> => HeaderReport(names) = EmptyReport
<1> DEFINE lacking == Lacking(names)
           misplaced == Misplaced(names)
<1>1. PICK n \in Nat : n = Len(names) /\ DOMAIN names = 1 .. n
  OBVIOUS
<1>2. IsFiniteSet(misplaced)
  <2>1. IsFiniteSet(1 .. n)
    BY FS_Interval
  <2> QED
    BY <1>1, <2>1, FS_Subset DEF Misplaced
<1>3. IsFiniteSet(lacking)
  <2>0. PICK five \in Nat : five = 5
    OBVIOUS
  <2>1. DOMAIN Required = 1 .. five
    BY <2>0 DEF Required
  <2>2. IsFiniteSet(1 .. five)
    BY FS_Interval
  <2>3. [i \in 1 .. five |-> Required[i]] \in Surjection(1 .. five, ToSet(Required))
    BY <2>1 DEF Surjection, ToSet
  <2>4. IsFiniteSet(ToSet(Required))
    BY <2>2, <2>3, FS_Surjection DEF ExistsSurjection
  <2> QED
    BY <2>4, FS_Subset DEF Lacking
<1>4. GoodHeader(names) <=> lacking = {} /\ misplaced = {}
  <2>1. lacking = {} <=> ToSet(Required) \subseteq ToSet(names)
    BY DEF Lacking
  <2>2. misplaced = {} <=>
          /\ \A i \in 1 .. n : names[i] \in Columns
          /\ \A i \in 1 .. n : \A j \in 1 .. i - 1 : names[j] # names[i]
    BY <1>1 DEF Misplaced
  <2>3. (\A i \in 1 .. n : names[i] \in Columns) <=> ToSet(names) \subseteq Columns
    BY <1>1 DEF ToSet
  <2>4. (\A i \in 1 .. n : \A j \in 1 .. i - 1 : names[j] # names[i]) <=>
          (\A i, j \in 1 .. n : names[i] = names[j] => i = j)
    <3>1. ASSUME \A i \in 1 .. n : \A j \in 1 .. i - 1 : names[j] # names[i],
                 NEW i \in 1 .. n, NEW j \in 1 .. n, names[i] = names[j]
          PROVE  i = j
      <4>1. j \notin 1 .. i - 1 /\ i \notin 1 .. j - 1
        BY <3>1
      <4> QED
        BY <4>1
    <3>2. ASSUME \A i, j \in 1 .. n : names[i] = names[j] => i = j,
                 NEW i \in 1 .. n, NEW j \in 1 .. i - 1
          PROVE  names[j] # names[i]
      <4>1. j \in 1 .. n /\ j # i
        OBVIOUS
      <4> QED
        BY <3>2, <4>1
    <3> QED
      BY <3>1, <3>2
  <2> QED
    BY <1>1, <2>1, <2>2, <2>3, <2>4 DEF GoodHeader
<1> HIDE DEF lacking, misplaced
<1>5. /\ Cardinality(lacking) \in Nat /\ Cardinality(misplaced) \in Nat
      /\ Cardinality(lacking) = 0 <=> lacking = {}
      /\ Cardinality(misplaced) = 0 <=> misplaced = {}
  BY <1>2, <1>3, FS_CardinalityType, FS_EmptySet
<1>6. PICK problems \in Nat : problems = Cardinality(lacking) + Cardinality(misplaced)
  BY <1>5
<1> DEFINE p == [line |-> NoLine, about |-> "header"]
           found == [i \in 1 .. problems |-> p]
<1>7. HeaderReport(names) = [EmptyReport EXCEPT !.found = found]
  BY <1>6 DEF HeaderReport, lacking, misplaced
<1>8. p \in Problems
  BY DEF Problems, Abouts, NoLine
<1> HIDE DEF p
<1>9. found \in Seq(Problems) /\ (found = <<>> <=> problems = 0)
  <2>1. found \in Seq(Problems) /\ Len(found) = problems
    BY <1>8
  <2> QED
    BY <2>1
<1> HIDE DEF found
<1>10. /\ HeaderReport(names) \in Reports /\ HeaderReport(names).rows = <<>>
       /\ ~HeaderReport(names).unreadable /\ HeaderReport(names).found = found
  <2>1. EmptyReport \in Reports /\ EmptyReport.rows = <<>> /\ ~EmptyReport.unreadable
    BY DEF EmptyReport, Reports
  <2> QED
    BY <1>7, <1>9, <2>1 DEF Reports
<1>11. found = <<>> => HeaderReport(names) = EmptyReport
  BY <1>7 DEF EmptyReport
<1>12. problems = 0 <=> lacking = {} /\ misplaced = {}
  BY <1>5, <1>6
<1> QED
  BY <1>4, <1>9, <1>10, <1>11, <1>12

\* The report of a manifest that has a problem before its first record, or no record.
Refused(report) ==
    /\ report \in Reports /\ report.found # <<>> /\ report.rows = <<>>

\* Such a report is left as it is, and is of no success.
LEMMA RefusedExits ==
    ASSUME NEW text, Refused(ReadManifest(text))
    PROVE  /\ ImportExit(text) # "import" /\ DryExit(text) # "ok"
           /\ Errors(DryReport(text)) # 0
           /\ DryExit(text) = "usage" <=> ReadManifest(text).unreadable
<1> DEFINE report == ReadManifest(text)
<1>1. DryReport(text) = report
  BY NoneHashed DEF DryReport, Refused
<1>2. Errors(report) # 0
  BY NoProblem DEF Refused
<1> QED
  BY <1>1, <1>2 DEF ImportExit, DryExit, Refused

\* What is read where no record is.
LEMMA RefusedTexts ==
    ASSUME NEW text \in Texts,
           text.breaks # "nowhere" \/ ~GoodHeader(text.header) \/ text.records = <<>>
    PROVE  /\ Refused(ReadManifest(text))
           /\ ReadManifest(text).unreadable <=> Unreadable(text)
           /\ Unreadable(text) <=> \/ text.breaks = "header"
                                   \/ text.breaks = "records" /\ GoodHeader(text.header)
<1> DEFINE header == HeaderReport(text.header)
<1>1. /\ text.breaks \in {"nowhere", "header", "records"}
      /\ text.header \in Seq(STRING) /\ text.records \in Seq(Record)
  BY TextAssumption
<1>2. /\ header \in Reports /\ header.rows = <<>> /\ ~header.unreadable
      /\ GoodHeader(text.header) <=> header.found = <<>>
      /\ header.found = <<>> => header = EmptyReport
  BY <1>1, HeaderVerdict
<1>3. "manifest" \in Abouts /\ "rows" \in Abouts /\ NoLine \in Nat
  BY DEF Abouts, NoLine
<1>4. EmptyReport \in Reports /\ EmptyReport.rows = <<>>
  BY DEF EmptyReport, Reports
<1>8. Unreadable(text) <=> \/ text.breaks = "header"
                           \/ text.breaks = "records" /\ header.found = <<>>
  BY DEF Unreadable
<1>9. Unreadable(text) <=> \/ text.breaks = "header"
                           \/ text.breaks = "records" /\ GoodHeader(text.header)
  BY <1>2, <1>8
<1> HIDE DEF header
<1>5. CASE Unreadable(text)
  <2> DEFINE a == [EmptyReport EXCEPT !.unreadable = TRUE]
  <2>1. ReadManifest(text) = Add(a, NoLine, "manifest")
    BY <1>5 DEF ReadManifest
  <2>2. a \in Reports /\ a.rows = <<>> /\ a.unreadable
    BY <1>4 DEF Reports
  <2> HIDE DEF a
  <2>3. Adds(Add(a, NoLine, "manifest"), a, NoLine)
    BY <1>3, <2>2, AddProblem
  <2> QED
    BY <1>5, <1>9, <2>1, <2>2, <2>3 DEF Refused, Adds
<1>6. CASE ~Unreadable(text) /\ header.found # <<>>
  <2>1. ReadManifest(text) = header
    BY <1>6 DEF ReadManifest, header
  <2> QED
    BY <1>2, <1>6, <1>9, <2>1 DEF Refused
<1>7. CASE ~Unreadable(text) /\ header.found = <<>>
  <2>1. text.records = <<>> /\ header = EmptyReport
    BY <1>1, <1>2, <1>7, <1>8
  <2>2. DOMAIN text.records = 1 .. 0
    BY <2>1
  <2>3. PICK g : ReadsBy(g, EmptyReport, text.records, 0)
    BY <2>2, ReadSteps
  <2>4. FoldLeft(ReadRecord, header, text.records) = EmptyReport
    BY <2>1, <2>3 DEF ReadsBy
  <2>5. EmptyReport.found = <<>>
    BY DEF EmptyReport
  <2>6. ReadManifest(text) = Add(EmptyReport, NoLine, "rows")
    BY <1>4, <1>7, <2>4, <2>5 DEF ReadManifest, header
  <2>7. Adds(Add(EmptyReport, NoLine, "rows"), EmptyReport, NoLine)
    BY <1>3, <1>4, AddProblem
  <2>8. ~EmptyReport.unreadable
    BY DEF EmptyReport
  <2> QED
    BY <1>4, <1>7, <1>9, <2>6, <2>7, <2>8 DEF Refused, Adds
<1> QED
  BY <1>5, <1>6, <1>7

\* The verdicts where every record is read.
LEMMA ReadTexts ==
    ASSUME NEW text \in Texts,
           text.breaks = "nowhere", GoodHeader(text.header), text.records # <<>>
    PROVE  Right(text)
<1> DEFINE rs == text.records
           report == ReadManifest(text)
           dry == DryReport(text)
<1>1. text.header \in Seq(STRING) /\ rs \in Seq(Record)
  BY TextAssumption
<1>2. PICK l \in Nat : l = Len(rs) /\ DOMAIN rs = 1 .. l /\ l # 0
  BY <1>1
<1>3. HeaderReport(text.header) = EmptyReport /\ EmptyReport.found = <<>>
  BY <1>1, HeaderVerdict DEF EmptyReport
<1> DEFINE read == FoldLeft(ReadRecord, EmptyReport, rs)
<1>4. ReadUpTo(read, rs, l)
  BY <1>1, <1>2, AllRead
<1>5. report = IF read.rows = <<>> /\ read.found = <<>> THEN Add(read, NoLine, "rows") ELSE read
  BY <1>3 DEF ReadManifest, Unreadable
<1> HIDE DEF read
<1>6. ~(read.rows = <<>> /\ read.found = <<>>)
  <2> SUFFICES ASSUME read.rows = <<>>, read.found = <<>> PROVE FALSE
    OBVIOUS
  <2>1. Len(read.rows) = l
    BY <1>4 DEF ReadUpTo
  <2> QED
    BY <1>2, <2>1
<1>7. report = read
  BY <1>5, <1>6
<1>8. ReadUpTo(report, rs, l)
  BY <1>4, <1>7
<1>9. /\ report \in Reports /\ ~report.unreadable
      /\ Len(report.lines) = l /\ \A i \in 1 .. l : report.lines[i] = i
      /\ FoundLines(report) = (1 .. l) \ Accepted(rs)
      /\ report.lines \in Seq(Nat) /\ report.rows \in Seq(ParsedRows)
  BY <1>8 DEF ReadUpTo, Reports
<1>10. dry = VerifySources(report)
  BY <1>9 DEF DryReport
<1>11. /\ dry \in Reports /\ ~dry.unreadable /\ dry.lines = report.lines
       /\ FoundLines(dry) = (1 .. l) \ Verified(rs)
  BY <1>1, <1>2, <1>8, <1>10, AllHashed
<1>12. /\ report.found = <<>> <=> FoundLines(report) = {}
       /\ dry.found = <<>> <=> FoundLines(dry) = {}
       /\ Errors(dry) = 0 <=> dry.found = <<>>
  BY <1>9, <1>11, NoProblem
<1>13. /\ ImportExit(text) = "import" <=> report.found = <<>>
       /\ DryExit(text) = "ok" <=> dry.found = <<>>
       /\ DryExit(text) # "usage"
  BY <1>9, <1>11 DEF ImportExit, DryExit
<1>14. Accepted(rs) \subseteq 1 .. l /\ Verified(rs) \subseteq Accepted(rs)
  BY <1>2 DEF Accepted, Verified
<1> HIDE DEF rs, report, dry
<1>15. ImportExit(text) = "import" <=> Accepted(rs) = DOMAIN rs
  BY <1>2, <1>9, <1>12, <1>13, <1>14
<1>16. DryExit(text) = "ok" <=> Verified(rs) = DOMAIN rs
  BY <1>2, <1>11, <1>12, <1>13, <1>14
<1>17. DryExit(text) = "ok" => ImportExit(text) = "import"
  BY <1>2, <1>14, <1>15, <1>16
<1>18. OkLines(dry) = Verified(rs)
  <2>1. ToSet(dry.lines) = 1 .. l
    BY <1>9, <1>11 DEF ToSet
  <2>2. BadLines(dry) = FoundLines(dry) \ {NoLine}
    BY DEF BadLines, FoundLines
  <2>3. NoLine \notin 1 .. l
    BY DEF NoLine
  <2> QED
    BY <1>11, <1>14, <2>1, <2>2, <2>3 DEF OkLines
<1>19. ASSUME ImportExit(text) = "import"
       PROVE  /\ [i \in DOMAIN report.rows |-> report.rows[i].doc] = [i \in DOMAIN rs |-> Doc(rs[i])]
              /\ \A i, j \in DOMAIN rs : Doc(rs[i]) = Doc(rs[j]) => i = j
  <2>1. Len(report.rows) = l /\ \A i \in 1 .. l : report.rows[i].line = i
    BY <1>8, <1>13, <1>19 DEF ReadUpTo
  <2>2. DOMAIN report.rows = 1 .. l
    BY <1>9, <2>1
  <2>3. ASSUME NEW i \in 1 .. l PROVE report.rows[i].doc = Doc(rs[i])
    <3>1. report.rows[i] = ParsedRow(rs[report.rows[i].line], report.rows[i].line)
      BY <1>8, <2>2 DEF ReadUpTo
    <3> QED
      BY <2>1, <3>1 DEF ParsedRow, Doc
  <2>4. Accepted(rs) = DOMAIN rs
    BY <1>15, <1>19
  <2>5. ASSUME NEW i \in DOMAIN rs, NEW j \in 1 .. i - 1 PROVE Doc(rs[j]) # Doc(rs[i])
    <3>1. j \in DOMAIN rs
      BY <1>2
    <3> QED
      BY <2>4, <3>1 DEF Accepted
  <2>6. ASSUME NEW i \in DOMAIN rs, NEW j \in DOMAIN rs, Doc(rs[i]) = Doc(rs[j]) PROVE i = j
    <3>1. j \notin 1 .. i - 1 /\ i \notin 1 .. j - 1
      BY <2>5, <2>6
    <3> QED
      BY <1>2, <3>1
  <2> QED
    BY <1>2, <2>2, <2>3, <2>6
<1> QED
  BY <1>12, <1>13, <1>15, <1>16, <1>17, <1>18, <1>19 DEF Right, rs, report, dry

\* The verdicts on any text.
LEMMA TextJudged ==
    ASSUME NEW text \in Texts
    PROVE  Right(text)
<1>1. text.breaks \in {"nowhere", "header", "records"}
  BY TextAssumption
<1>2. CASE text.breaks = "nowhere" /\ GoodHeader(text.header) /\ text.records # <<>>
  BY <1>2, ReadTexts
<1>3. CASE ~(text.breaks = "nowhere" /\ GoodHeader(text.header) /\ text.records # <<>>)
  <2>1. /\ Refused(ReadManifest(text))
        /\ ReadManifest(text).unreadable <=>
             text.breaks = "header" \/ (text.breaks = "records" /\ GoodHeader(text.header))
    BY <1>3, RefusedTexts
  <2>2. /\ ImportExit(text) # "import" /\ DryExit(text) # "ok"
        /\ Errors(DryReport(text)) # 0
        /\ DryExit(text) = "usage" <=> ReadManifest(text).unreadable
    BY <2>1, RefusedExits
  <2> QED
    BY <1>1, <1>3, <2>1, <2>2 DEF Right
<1> QED
  BY <1>2, <1>3

\* Whatever is in the source directory and whatever the manifest holds: the
\* command imports exactly the manifests without a fault, one document for each
\* record, and a dry run succeeds, and marks a line as good, exactly where the
\* record would be stored as a document of its own.
THEOREM ManifestsJudged == Spec => []VerdictsAreRight
<1>1. VerdictsAreRight
  BY TextJudged DEF VerdictsAreRight
<1> QED
  BY <1>1, PTL

\* What DocumentImport assumes of a manifest (ManifestAssumption) is what the
\* check of its text ensures: rows with the documents of an accepted text are not
\* none, and no two of them name the same document.
THEOREM AcceptedManifestsHold ==
    ASSUME NEW text \in Texts, ImportExit(text) = "import",
           NEW m \in Seq(ManifestRow),
           [i \in DOMAIN m |-> m[i].doc] =
             [i \in DOMAIN ReadManifest(text).rows |-> ReadManifest(text).rows[i].doc]
    PROVE  Len(m) > 0 /\ \A i, j \in 1 .. Len(m) : m[i].doc = m[j].doc => i = j
<1> DEFINE rs == text.records
           docs == [i \in DOMAIN m |-> m[i].doc]
<1>1. Right(text)
  BY TextJudged
<1>2. /\ docs = [i \in DOMAIN rs |-> Doc(rs[i])]
      /\ \A i, j \in DOMAIN rs : Doc(rs[i]) = Doc(rs[j]) => i = j
      /\ rs # <<>>
  BY <1>1 DEF Right
<1>3. rs \in Seq(Record)
  BY TextAssumption
<1> HIDE DEF rs
<1>4. DOMAIN m = DOMAIN rs /\ \A i \in DOMAIN m : m[i].doc = Doc(rs[i])
  <2>1. DOMAIN docs = DOMAIN m /\ DOMAIN docs = DOMAIN rs
    BY <1>2
  <2>2. ASSUME NEW i \in DOMAIN m PROVE m[i].doc = Doc(rs[i])
    <3>1. docs[i] = m[i].doc /\ docs[i] = Doc(rs[i])
      BY <1>2, <2>1
    <3> QED
      BY <3>1
  <2> QED
    BY <2>1, <2>2
<1>5. Len(m) = Len(rs) /\ DOMAIN m = 1 .. Len(m)
  BY <1>3, <1>4
<1> QED
  BY <1>2, <1>3, <1>4, <1>5
=============================================================================
