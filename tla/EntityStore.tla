----------------------------- MODULE EntityStore -----------------------------
(***************************************************************************)
(* The entities table under concurrent requests: create_entity,            *)
(* update_entity and delete_entity of api/v1/endpoints/entities.py and     *)
(* entity_edit_save of web/routes.py.  Each request is one process with    *)
(* one session and one PostgreSQL transaction at READ COMMITTED; every     *)
(* await on the database is a step.                                        *)
(*                                                                         *)
(* A row keeps the fields the rules are about.  ein stands for the three   *)
(* fields an individual or household must not have (LEGAL_ONLY_FIELDS).    *)
(***************************************************************************)
EXTENDS Naturals

CONSTANTS
    Ids,            \* primary keys
    Procs,          \* requests that can be in progress at once
    Eins, Xeros,    \* employer numbers, Xero tenant ids
    EmptyEin,       \* "", which the schemas admit and Python takes for false
    None,           \* SQL NULL, or no row
    CreateBodies,   \* rows that EntityCreate accepts
    PatchBodies,    \* EntityUpdate bodies of the API: [sent, val]
    FormBodies,     \* what the edit form of the web page sends: [sent, val]
    MayDelete,      \* whether delete_entity is called
    MaxRequests,    \* bound: requests received
    MaxFaults       \* bound: commits that fail

Types    == {"llc", "individual"}
Personal == {"individual"}
Row == [type : Types, ein : Eins \cup {None}, xero : Xeros \cup {None},
        active : BOOLEAN, deleted : BOOLEAN]
Fields == {"type", "ein", "xero", "active", "deleted"}

\* The values an EntityUpdate carries: every field may be null.
Draft == [type : Types \cup {None}, ein : Eins \cup {None},
          xero : Xeros \cup {None}, active : BOOLEAN \cup {None},
          deleted : BOOLEAN]
Body  == [sent : SUBSET Fields, val : Draft]

\* What the handlers' tests for a value take for none.
Absent == {None, EmptyEin}

\* EntityCreate refuses legal fields on a personal entity; no body has the
\* deleted field; the form has no Xero field, and makes null of what is blank.
ASSUME BodyAssumption ==
    /\ CreateBodies \subseteq
         {r \in Row : ~r.deleted /\ (r.type \in Personal => r.ein \in Absent)}
    /\ PatchBodies \subseteq {b \in Body : "deleted" \notin b.sent}
    /\ FormBodies \subseteq
         {b \in Body : b.sent = {"type", "ein", "active"} /\ b.val.ein # EmptyEin}

ASSUME NullAssumption ==
    /\ None \notin Eins /\ None \notin Xeros
    /\ EmptyEin \in Eins /\ EmptyEin \notin Xeros
    /\ None \notin Types /\ None \notin BOOLEAN
    /\ None \notin Row

ASSUME BoundAssumption ==
    MayDelete \in BOOLEAN /\ MaxRequests \in Nat /\ MaxFaults \in Nat

VARIABLES
    rows,       \* committed rows
    pc,         \* where each request is
    kind,       \* which handler serves it
    id,         \* the entity it is about
    sent,       \* fields of the body, model_fields_set
    val,        \* their values
    seen,       \* the row the handler has read
    pending,    \* whether its change is flushed and not yet committed
    reply,      \* how the request was answered
    requests, faults,
    since       \* history: rows that others committed since a request's EIN check

vars == <<rows, pc, kind, id, sent, val, seen, pending, reply, requests,
          faults, since>>

Kinds   == {"create", "patch", "form", "delete"}
Steps   == {"idle", "read", "ein", "xero", "flush", "respond", "commit"}
Replies == {"none", "ok", "notfound", "invalid", "conflict", "error"}

Blank == [type |-> "llc", ein |-> None, xero |-> None,
          active |-> TRUE, deleted |-> FALSE]
Gone  == [Blank EXCEPT !.deleted = TRUE]

TypeOK ==
    /\ rows \in [Ids -> Row \cup {None}]
    /\ pc \in [Procs -> Steps]
    /\ kind \in [Procs -> Kinds]
    /\ id \in [Procs -> Ids]
    /\ sent \in [Procs -> SUBSET Fields]
    /\ val \in [Procs -> Draft]
    /\ seen \in [Procs -> Row]
    /\ pending \in [Procs -> BOOLEAN]
    /\ reply \in [Procs -> Replies]
    /\ requests \in 0..MaxRequests
    /\ faults \in 0..MaxFaults
    /\ since \in [Procs -> SUBSET Ids]

Init ==
    /\ rows = [i \in Ids |-> None]
    /\ pc = [p \in Procs |-> "idle"]
    /\ kind \in [Procs -> {"create"}]
    /\ \E i \in Ids : id = [p \in Procs |-> i]
    /\ sent = [p \in Procs |-> {}]
    /\ val = [p \in Procs |-> Blank]
    /\ seen = [p \in Procs |-> Blank]
    /\ pending = [p \in Procs |-> FALSE]
    /\ reply = [p \in Procs |-> "none"]
    /\ requests = 0
    /\ faults = 0
    /\ since = [p \in Procs |-> {}]

-----------------------------------------------------------------------------
(***************************************************************************)
(* The database.                                                           *)
(***************************************************************************)

Live(i) == rows[i] # None /\ ~rows[i].deleted

\* The columns an UPDATE of request p names: those it sent whose values differ
\* from what the session read.
Changed(p) == {f \in sent[p] : val[p][f] # seen[p][f]}

\* Row r with the fields fs as v has them.
Merge(r, v, fs) ==
    [type    |-> IF "type" \in fs THEN v.type ELSE r.type,
     ein     |-> IF "ein" \in fs THEN v.ein ELSE r.ein,
     xero    |-> IF "xero" \in fs THEN v.xero ELSE r.xero,
     active  |-> IF "active" \in fs THEN v.active ELSE r.active,
     deleted |-> IF "deleted" \in fs THEN v.deleted ELSE r.deleted]

\* Mutant of After: the row as the session read it, with what was sent.
WholeRow(p) ==
    IF kind[p] = "create" THEN val[p] ELSE Merge(seen[p], val[p], sent[p])

\* The row as request p's statement leaves it.
After(p) ==
    IF kind[p] = "create" THEN val[p]
    ELSE Merge(rows[id[p]], val[p], Changed(p))

\* Both rows hold the same key of ix_entities_ein_active, a partial unique
\* index over active rows that are not deleted.
SameEinKey(r, s) ==
    /\ r.ein # None /\ r.ein = s.ein
    /\ r.active = TRUE /\ ~r.deleted /\ s.active = TRUE /\ ~s.deleted

\* Both rows hold the same key of ix_entities_xero_tenant_id_active.
SameXeroKey(r, s) ==
    /\ r.xero # None /\ r.xero = s.xero
    /\ ~r.deleted /\ ~s.deleted

Clash(r, s) == SameEinKey(r, s) \/ SameXeroKey(r, s)

\* Another transaction has inserted or updated this row and is not finished.
Locked(p, i) == \E q \in Procs \ {p} : pending[q] /\ id[q] = i

\* A statement waits for the transaction that holds its row, or that holds or
\* is giving up a key it needs.
Waits(p) ==
    \E q \in Procs \ {p} :
        /\ pending[q]
        /\ \/ id[q] = id[p]
           \/ Clash(After(p), After(q))
           \/ rows[id[q]] # None /\ Clash(After(p), rows[id[q]])

\* Mutant of BreaksIndex: the index on Xero tenants is missing.
BreaksEinIndex(p) ==
    \E i \in Ids \ {id[p]} :
        rows[i] # None /\ ~Locked(p, i) /\ SameEinKey(After(p), rows[i])

\* The statement would put a key twice into a unique index.
BreaksIndex(p) ==
    \E i \in Ids \ {id[p]} :
        rows[i] # None /\ ~Locked(p, i) /\ Clash(After(p), rows[i])

\* Mutant of BreaksNotNull: only the type is NOT NULL.
BreaksTypeNotNull(p) == After(p).type = None

\* The statement would put a null into a column that is NOT NULL.
BreaksNotNull(p) == After(p).type = None \/ After(p).active = None

Violates(p) == BreaksIndex(p) \/ BreaksNotNull(p)

\* Whether the flush of request p sends a statement at all.
Writes(p) == kind[p] = "create" \/ Changed(p) # {}

-----------------------------------------------------------------------------
(***************************************************************************)
(* The handlers.                                                           *)
(***************************************************************************)

Receive(p, k, i, fs, v) ==
    /\ pc[p] = "idle"
    /\ requests < MaxRequests
    /\ kind' = [kind EXCEPT ![p] = k]
    /\ id' = [id EXCEPT ![p] = i]
    /\ sent' = [sent EXCEPT ![p] = fs]
    /\ val' = [val EXCEPT ![p] = v]
    /\ seen' = [seen EXCEPT ![p] = Blank]
    /\ reply' = [reply EXCEPT ![p] = "none"]
    /\ pc' = [pc EXCEPT ![p] = IF k = "create" THEN "ein" ELSE "read"]
    /\ requests' = requests + 1
    /\ UNCHANGED <<rows, pending, faults, since>>

\* A new entity gets a fresh uuid: no row and no other request has it.
FreshId(i) == rows[i] = None /\ \A q \in Procs : pc[q] # "idle" => id[q] # i

ReceiveCreate(p) ==
    \E i \in Ids, v \in CreateBodies :
        FreshId(i) /\ Receive(p, "create", i, Fields, v)

ReceivePatch(p) ==
    \E i \in Ids, b \in PatchBodies : Receive(p, "patch", i, b.sent, b.val)

ReceiveForm(p) ==
    \E i \in Ids, b \in FormBodies : Receive(p, "form", i, b.sent, b.val)

ReceiveDelete(p) ==
    /\ MayDelete
    /\ \E i \in Ids : Receive(p, "delete", i, {"deleted"}, Gone)

\* The request is answered and its session rolled back.
Refuse(p, why) ==
    /\ reply' = [reply EXCEPT ![p] = why]
    /\ pc' = [pc EXCEPT ![p] = "idle"]
    /\ since' = [since EXCEPT ![p] = {}]
    /\ UNCHANGED <<rows, kind, id, sent, val, seen, pending, requests, faults>>

Goto(p, step) ==
    /\ pc' = [pc EXCEPT ![p] = step]
    /\ UNCHANGED <<rows, kind, id, sent, val, pending, reply, requests, faults,
                   since>>

\* Mutant of PersonalWithLegalFields: the stored type is judged.
StoredPersonal(p) ==
    rows[id[p]].type \in Personal /\ "ein" \in sent[p] /\ val[p].ein \notin Absent

\* The entity as it will be after the update is a person with legal fields.
PersonalWithLegalFields(p) ==
    LET after == Merge(rows[id[p]], val[p], sent[p]) IN
    after.type \in Personal /\ after.ein \notin Absent

NotFound(p) ==
    /\ pc[p] = "read"
    /\ ~Live(id[p])
    /\ Refuse(p, "notfound")

\* Only the API's update judges the personal-entity rule.
PersonalRefused(p) ==
    /\ pc[p] = "read"
    /\ Live(id[p])
    /\ kind[p] = "patch"
    /\ PersonalWithLegalFields(p)
    /\ Refuse(p, "invalid")

Read(p) ==
    /\ pc[p] = "read"
    /\ Live(id[p])
    /\ kind[p] = "patch" => ~PersonalWithLegalFields(p)
    /\ seen' = [seen EXCEPT ![p] = rows[id[p]]]
    /\ Goto(p, IF kind[p] = "delete" THEN "flush" ELSE "ein")

\* The body has a value for the field that the entity does not have yet; "" is
\* none.
NewValue(p, f) == f \in sent[p] /\ val[p][f] \notin Absent \cup {seen[p][f]}

\* The rows the EIN check finds: of any other entity, deleted or not.
EinHolders(p) ==
    {i \in Ids \ {id[p]} : rows[i] # None /\ rows[i].ein = val[p].ein}

\* Mutant of EinTaken: only an active holder counts.
EinTakenByActive(p) ==
    NewValue(p, "ein") /\ \E i \in EinHolders(p) : rows[i].active

\* The EIN check of create_entity, update_entity and entity_edit_save.
EinTaken(p) == NewValue(p, "ein") /\ EinHolders(p) # {}

\* scalar_one_or_none raises MultipleResultsFound on two rows.
Several(s) == \E i, j \in s : i # j

EinRefused(p) ==
    /\ pc[p] = "ein"
    /\ EinTaken(p)
    /\ Refuse(p, IF Several(EinHolders(p)) THEN "error" ELSE "conflict")

EinFree(p) ==
    /\ pc[p] = "ein"
    /\ ~EinTaken(p)
    /\ Goto(p, IF kind[p] = "form" THEN "flush" ELSE "xero")
    /\ UNCHANGED seen

\* _ensure_xero_tenant_free: another entity that is not deleted has the id.
XeroTaken(p) ==
    /\ NewValue(p, "xero")
    /\ \E i \in Ids \ {id[p]} : Live(i) /\ rows[i].xero = val[p].xero

XeroRefused(p) ==
    /\ pc[p] = "xero"
    /\ XeroTaken(p)
    /\ Refuse(p, "conflict")

XeroFree(p) ==
    /\ pc[p] = "xero"
    /\ ~XeroTaken(p)
    /\ Goto(p, "flush")
    /\ UNCHANGED seen

\* The flush breaks a constraint.  The API answers 409, whichever it is; the
\* form's handler does not catch the IntegrityError.
FlushRefused(p) ==
    /\ pc[p] = "flush"
    /\ Writes(p)
    /\ ~Locked(p, id[p])
    /\ Violates(p)
    /\ Refuse(p, IF kind[p] = "form" THEN "error" ELSE "conflict")

Flush(p) ==
    /\ pc[p] = "flush"
    /\ Writes(p) => ~Waits(p) /\ ~Violates(p)
    /\ pending' = [pending EXCEPT ![p] = Writes(p)]
    /\ pc' = [pc EXCEPT ![p] = "respond"]
    /\ UNCHANGED <<rows, kind, id, sent, val, seen, reply, requests, faults,
                   since>>

\* The response is sent before get_async_session resumes after its yield.
Respond(p) ==
    /\ pc[p] = "respond"
    /\ reply' = [reply EXCEPT ![p] = "ok"]
    /\ pc' = [pc EXCEPT ![p] = "commit"]
    /\ UNCHANGED <<rows, kind, id, sent, val, seen, pending, requests, faults,
                   since>>

Committed(p) ==
    IF pending[p] THEN [rows EXCEPT ![id[p]] = After(p)] ELSE rows

\* Past its EIN check, if its handler makes one.
Checked == {"xero", "flush", "respond", "commit"}

\* The histories of the other requests after a commit of request p.
SinceCommit(p) ==
    [q \in Procs |-> IF q = p THEN {}
                     ELSE IF pending[p] /\ pc[q] \in Checked THEN since[q] \cup {id[p]}
                     ELSE since[q]]

\* Mutant of Commit: the session is not resumed, and its locks stay.
CommitNever(p) == pc[p] = "commit" /\ UNCHANGED vars

Commit(p) ==
    /\ pc[p] = "commit"
    /\ rows' = Committed(p)
    /\ since' = SinceCommit(p)
    /\ pending' = [pending EXCEPT ![p] = FALSE]
    /\ pc' = [pc EXCEPT ![p] = "idle"]
    /\ UNCHANGED <<kind, id, sent, val, seen, reply, requests, faults>>

\* The connection is lost: the transaction is rolled back.
CommitFails(p) ==
    /\ pc[p] \in {"respond", "commit"}
    /\ faults < MaxFaults
    /\ faults' = faults + 1
    /\ pending' = [pending EXCEPT ![p] = FALSE]
    /\ pc' = [pc EXCEPT ![p] = "idle"]
    /\ reply' = [reply EXCEPT ![p] = IF pc[p] = "respond" THEN "error" ELSE @]
    /\ since' = [since EXCEPT ![p] = {}]
    /\ UNCHANGED <<rows, kind, id, sent, val, seen, requests>>

Arrive(p) ==
    ReceiveCreate(p) \/ ReceivePatch(p) \/ ReceiveForm(p) \/ ReceiveDelete(p)

Handle(p) ==
    \/ NotFound(p) \/ PersonalRefused(p) \/ Read(p)
    \/ EinRefused(p) \/ EinFree(p)
    \/ XeroRefused(p) \/ XeroFree(p)
    \/ FlushRefused(p) \/ Flush(p) \/ Respond(p) \/ Commit(p)

Next == \E p \in Procs : Arrive(p) \/ Handle(p) \/ CommitFails(p)

Spec == Init /\ [][Next]_vars

\* Every handler is scheduled, and a lock is granted when it is free.
FairSpec == Spec /\ \A p \in Procs : WF_vars(Handle(p))

-----------------------------------------------------------------------------
(***************************************************************************)
(* Properties.                                                             *)
(***************************************************************************)

\* No two committed rows hold the same key of a unique index, whatever the
\* interleaving of checks, flushes and commits: a Xero tenant is mapped to at
\* most one entity that is not deleted, an EIN to at most one active one.
KeysUnique ==
    \A i, j \in Ids :
        i # j /\ rows[i] # None /\ rows[j] # None => ~Clash(rows[i], rows[j])

\* A change that two requests make to different fields of one entity at the
\* same time is not lost: a commit changes the fields its request sent and
\* leaves those that others have committed since it read the row.
OnlySentFieldsChange ==
    [][\A i \in Ids, f \in Fields :
          rows[i] # None /\ rows'[i] # rows[i] /\ rows'[i][f] # rows[i][f] =>
              \E p \in Procs : /\ pc[p] = "commit" /\ pc'[p] = "idle"
                              /\ id[p] = i /\ f \in sent[p]
                              /\ rows'[i][f] = val[p][f]]_vars

\* Soft deletion is final and keeps the row: no request that read the row
\* before it was deleted brings it back, and no row disappears.
DeletedStaysDeleted ==
    [][\A i \in Ids :
          rows[i] # None =>
              rows'[i] # None /\ (rows[i].deleted => rows'[i].deleted)]_vars

\* Every request is answered: waiting for rows and index keys never becomes a
\* deadlock between requests.
EveryRequestAnswered ==
    \A p \in Procs : (pc[p] # "idle") ~> (pc[p] = "idle")

\* create_entity: "the optional ein and xero_tenant_id fields must be unique across
\* non-deleted entities".
LiveEinUnique ==
    \A i, j \in Ids :
        i # j /\ Live(i) /\ Live(j) /\ rows[i].ein \notin Absent =>
            rows[i].ein # rows[j].ein

\* What is true of that rule whatever requests are in progress: a request that gives
\* its entity the EIN of another live one was overtaken, since that one's row was
\* committed after the request had checked (create_entity, update_entity and
\* entity_edit_save, which leave the rule to an index on active entities).
SharedEinsRaced ==
    [][\A p \in Procs, j \in Ids :
          LET i == id[p] IN
          (/\ pc[p] = "commit" /\ pc'[p] = "idle" /\ rows'[i] # rows[i] /\ i # j
           /\ rows[i] # None => rows[i].ein # rows'[i].ein
           /\ ~rows'[i].deleted /\ rows'[i].ein \notin Absent
           /\ Live(j) /\ rows[j].ein = rows'[i].ein) =>
              j \in since[p]]_vars

\* A live person or household with fields that "must be empty".
LegalPerson(r) ==
    r # None /\ ~r.deleted /\ r.type \in Personal /\ r.ein \notin Absent

\* The rule that individuals and households have no legal fields is broken by the
\* form, which does not know it, or by an update whose row another request has
\* changed since it was judged, and in no other way (_personal_with_legal_fields).
LegalPersonsRaced ==
    [][\A p \in Procs :
          (/\ pc[p] = "commit" /\ pc'[p] = "idle"
           /\ LegalPerson(rows'[id[p]]) /\ ~LegalPerson(rows[id[p]])) =>
              kind[p] = "form" \/ (kind[p] = "patch" /\ rows[id[p]] # seen[p])]_vars

\* While requests come one at a time, none ends in a server error unless its
\* connection is lost.
NoServerError ==
    \A p \in Procs : faults = 0 => reply[p] # "error"
=============================================================================
