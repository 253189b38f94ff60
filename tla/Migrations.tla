----------------------------- MODULE Migrations -----------------------------
(***************************************************************************)
(* The Alembic migrations (alembic/), run statement by statement against   *)
(* PostgreSQL while the application writes rows: what is committed, what   *)
(* the version row says, and what a crash or a refused statement leaves.   *)
(*                                                                         *)
(* The schema is a set of objects - types, labels added to them, tables,   *)
(* added columns, indexes - each with the names it depends on.  A command  *)
(* runs in one transaction (env.py gives no transaction_per_migration),    *)
(* except that autocommit_block commits what came before it, version row   *)
(* included, and each of its own statements.                               *)
(***************************************************************************)
EXTENDS Naturals, Sequences, SequencesExt

VARIABLES
    committed,   \* what is committed: the objects and the version
    work,        \* the same as the running command's session sees it
    command,     \* the versions it runs between
    pc,          \* its next statement
    mode,        \* "idle", "transaction" or "autocommit"
    locked,      \* tables its transaction keeps others from writing
    data,        \* facts about the rows that some statement minds
    refused      \* the statement that ended the last command, if one did

vars == <<committed, work, command, pc, mode, locked, data, refused>>

Object(kind, name, on) == [kind |-> kind, name |-> name, on |-> on]
Statement(do, what, unless) == [do |-> do, what |-> what, unless |-> unless]
Create(kind, name, on) == Statement("create", Object(kind, name, on), {})
Drop(kind, name, on) == Statement("drop", Object(kind, name, on), {})
Each(Op(_), names) == [i \in DOMAIN names |-> Op(names[i])]

\* Mutant of Label: the label is added without IF NOT EXISTS.
LabelOnce(type, label) == Create("label", label, {type})

\* ALTER TYPE ... ADD VALUE IF NOT EXISTS
Label(type, label) == Statement("ensure", Object("label", label, {type}), {})

\* The refusal of a downgrade while the fact holds, and the type rebuilt without
\* its new labels, which a row that uses one refuses too.
Guard(table, fact) == Statement("guard", Object("rows", fact, {table}), {fact})
Rebuild(type, table, fact) == Statement("rebuild", Object("type", type, {table}), {fact})

Autocommit(statements) ==
    <<Statement("enter", Object("block", "", {}), {})>> \o statements
        \o <<Statement("leave", Object("block", "", {}), {})>>

-----------------------------------------------------------------------------
(* 0b8d73696951: a table comes with the enum types of its columns and the   *)
(* tables it references, then its indexes.                                  *)

Table(name, types, refs, indexes) ==
    LET Type(t) == Create("type", t, {})
        Index(i) == Create("index", i, {name})
    IN Each(Type, types) \o <<Create("table", name, ToSet(types) \cup refs)>> \o Each(Index, indexes)

Entities == Table("entities", <<"entity_type_enum">>, {},
    <<"ix_entities_accounting_record_id", "ix_entities_ein", "ix_entities_legal_name">>)
BankAccounts == Table("bank_accounts", <<"account_type_enum">>, {"entities"},
    <<"ix_bank_accounts_entity_id">>)
Documents == Table("documents", <<"document_type_enum">>, {"entities"},
    <<"ix_documents_entity_id", "ix_documents_title">>)
Relationships == Table("entity_relationships", <<"relationship_type_enum">>, {"entities"},
    <<"ix_entity_relationships_child_entity_id", "ix_entity_relationships_parent_entity_id">>)
Owners == Table("owners", <<"ownership_type_enum">>, {"entities"},
    <<"ix_owners_entity_id", "ix_owners_owner_entity_id", "ix_owners_owner_name">>)
Agents == Table("registered_agents", <<>>, {"entities"},
    <<"ix_registered_agents_entity_id", "ix_registered_agents_state">>)
Registrations == Table("state_registrations",
    <<"registration_type_enum", "registration_status_enum">>, {"entities"},
    <<"ix_state_registrations_entity_id", "ix_state_registrations_file_number",
      "ix_state_registrations_state">>)
Filings == Table("tax_filings",
    <<"tax_filing_type_enum", "filing_frequency_enum", "filing_status_enum">>, {"entities"},
    <<"ix_tax_filings_due_date", "ix_tax_filings_entity_id", "ix_tax_filings_jurisdiction",
      "ix_tax_filings_tax_year">>)

InitialUp == Entities \o BankAccounts \o Documents \o Relationships \o Owners \o Agents
             \o Registrations \o Filings

\* Indexes and tables in the opposite order; the types stay.
InitialDown ==
    LET Undo(s) == Drop(s.what.kind, s.what.name, s.what.on)
        Dropped(s) == s.what.kind # "type"
    IN Each(Undo, Reverse(SelectSeq(InitialUp, Dropped)))

-----------------------------------------------------------------------------
(* 821fef45dccb: unique among live rows only.                               *)

PartialUp == <<
    Drop("index", "ix_entities_ein", {"entities"}),
    Create("index", "ix_entities_ein_active", {"entities"}),
    Drop("index", "ix_state_registrations_file_number", {"state_registrations"}),
    Create("index", "ix_state_registrations_file_number_active", {"state_registrations"})>>

\* The full unique index cannot be built over rows that share an EIN.
PartialDown == <<
    Drop("index", "ix_entities_ein_active", {"entities"}),
    Drop("index", "ix_state_registrations_file_number_active", {"state_registrations"}),
    Statement("create", Object("index", "ix_entities_ein", {"entities"}), {"shared_ein"}),
    Create("index", "ix_state_registrations_file_number", {"state_registrations"})>>

-----------------------------------------------------------------------------
(* 316e25bc258b: individuals, households and the Xero mapping.              *)

XeroUp ==
    Autocommit(<<Label("entity_type_enum", "INDIVIDUAL"), Label("entity_type_enum", "HOUSEHOLD")>>)
    \o <<Create("column", "entities.xero_tenant_id", {"entities"}),
         Create("index", "ix_entities_xero_tenant_id_active", {"entities", "entities.xero_tenant_id"}),
         Create("column", "bank_accounts.xero_account_id", {"bank_accounts"}),
         Create("index", "ix_bank_accounts_xero_account_id_active",
                {"bank_accounts", "bank_accounts.xero_account_id"})>>

XeroDown == <<
    Guard("entities", "individual"),
    Drop("index", "ix_bank_accounts_xero_account_id_active", {"bank_accounts"}),
    Drop("column", "bank_accounts.xero_account_id", {"bank_accounts"}),
    Drop("index", "ix_entities_xero_tenant_id_active", {"entities"}),
    Drop("column", "entities.xero_tenant_id", {"entities"}),
    Rebuild("entity_type_enum", "entities", "individual")>>

-----------------------------------------------------------------------------
(* 0e0121ec4817: the document store's fields.                               *)

StoreUp ==
    LET Estate(label) == Label("document_type_enum", label)
        Index(i) == Create("index", i[1], {"documents"} \cup i[2])
    IN Autocommit(Each(Estate, <<"WILL", "TRUST_AGREEMENT", "POWER_OF_ATTORNEY",
                                 "HEALTHCARE_DIRECTIVE">>))
       \o <<Statement("ensure", Object("type", "document_category_enum", {}), {}),
            Create("column", "documents.category", {"documents", "document_category_enum"}),
            Create("column", "documents.sha256", {"documents"}),
            Create("column", "documents.consent_on_file", {"documents"})>>
       \o Each(Index, <<<<"ix_documents_category", {"documents.category"}>>,
                        <<"ix_documents_sha256", {"documents.sha256"}>>,
                        <<"ix_documents_updated_at", {}>>>>)

\* Mutant of StoreDown: a column is forgotten.
StoreDownShort == <<
    Guard("documents", "estate"),
    Drop("index", "ix_documents_updated_at", {"documents"}),
    Drop("index", "ix_documents_sha256", {"documents"}),
    Drop("column", "documents.category", {"documents"}),
    Drop("column", "documents.sha256", {"documents"}),
    Statement("drop_if_exists", Object("type", "document_category_enum", {}), {}),
    Rebuild("document_type_enum", "documents", "estate")>>

StoreDown == <<
    Guard("documents", "estate"),
    Drop("index", "ix_documents_updated_at", {"documents"}),
    Drop("index", "ix_documents_sha256", {"documents"}),
    Drop("index", "ix_documents_category", {"documents"}),
    Drop("column", "documents.consent_on_file", {"documents"}),
    Drop("column", "documents.sha256", {"documents"}),
    Drop("column", "documents.category", {"documents"}),
    Statement("drop_if_exists", Object("type", "document_category_enum", {}), {}),
    Rebuild("document_type_enum", "documents", "estate")>>

-----------------------------------------------------------------------------
(* A command: the revisions between two versions, each followed by the      *)
(* change of the version row.                                               *)

Ups == <<InitialUp, PartialUp, XeroUp, StoreUp>>
Downs == <<InitialDown, PartialDown, XeroDown, StoreDown>>
Versions == 0 .. Len(Ups)

Stamp(v) == <<Statement("stamp", Object("version", v, {}), {})>>
Upgrade(from, to) == FlattenSeq([i \in 1 .. to - from |-> Ups[from + i] \o Stamp(from + i)])
Downgrade(from, to) ==
    FlattenSeq([i \in 1 .. from - to |-> Downs[from - i + 1] \o Stamp(from - i)])

Scripts == [from, to \in Versions |-> IF from < to THEN Upgrade(from, to) ELSE Downgrade(from, to)]
Script == Scripts[command]
Current == Script[pc]

Names(objects) == {o.name : o \in objects}
Dependents(name, objects) == {o \in objects : name \in o.on}

\* What goes with the object it is on: indexes, labels, and a table's columns.
Goes(o, kind) == o.kind \in {"index", "label"} \/ (o.kind = "column" /\ kind = "table")
Unmet(s, objects) == s.what.on \ Names(objects) # {}
Held(s, objects) == \E o \in Dependents(s.what.name, objects) : ~Goes(o, s.what.kind)

\* A statement that PostgreSQL, or the guard of a downgrade, refuses.
Refused(s, objects) ==
    \/ s.unless \cap data # {}
    \/ s.do = "create" /\ (s.what.name \in Names(objects) \/ Unmet(s, objects))
    \/ s.do \in {"ensure", "guard", "rebuild"} /\ Unmet(s, objects)
    \/ s.do = "drop" /\ (s.what.name \notin Names(objects) \/ Held(s, objects))
    \/ s.do = "drop_if_exists" /\ Held(s, objects)

Effect(s, objects) ==
    CASE s.do \in {"create", "ensure"} -> objects \cup {s.what}
      [] s.do \in {"drop", "drop_if_exists"} ->
           {o \in objects : o.name # s.what.name /\ s.what.name \notin o.on}
      [] s.do = "rebuild" -> {o \in objects : ~(o.kind = "label" /\ s.what.name \in o.on)}
      [] OTHER -> objects

After(s) == [objects |-> Effect(s, work.objects),
             version |-> IF s.do = "stamp" THEN s.what.name ELSE work.version]
Locks(s) == IF s.do \in {"guard", "stamp"} THEN {} ELSE s.what.on \cup {s.what.name}

TableOf(fact) == IF fact = "estate" THEN "documents" ELSE "entities"
NoStatement == Statement("none", Object("none", "", {}), {})

-----------------------------------------------------------------------------
Running == mode # "idle"

Start(to) ==
    /\ ~Running
    /\ to # committed.version
    /\ command' = <<committed.version, to>>
    /\ pc' = 1 /\ mode' = "transaction" /\ refused' = NoStatement
    /\ UNCHANGED <<committed, work, locked, data>>

\* A statement of the transaction, which commits when autocommit_block begins.
Transact ==
    /\ mode = "transaction" /\ pc =< Len(Script) /\ ~Refused(Current, work.objects)
    /\ work' = After(Current)
    /\ IF Current.do = "enter"
       THEN committed' = work' /\ mode' = "autocommit" /\ locked' = {}
       ELSE locked' = locked \cup Locks(Current) /\ UNCHANGED <<committed, mode>>
    /\ pc' = pc + 1
    /\ UNCHANGED <<command, data, refused>>

\* A statement of the block commits at once.
Autocommitted ==
    /\ mode = "autocommit" /\ ~Refused(Current, work.objects)
    /\ work' = After(Current) /\ committed' = work'
    /\ mode' = IF Current.do = "leave" THEN "transaction" ELSE mode
    /\ pc' = pc + 1
    /\ UNCHANGED <<command, locked, data, refused>>

End == mode' = "idle" /\ pc' = 1 /\ locked' = {} /\ work' = committed' /\ UNCHANGED command

\* Rows go with their tables.
Finish ==
    /\ mode = "transaction" /\ pc > Len(Script)
    /\ committed' = work
    /\ data' = {f \in data : TableOf(f) \in Names(work.objects)}
    /\ UNCHANGED refused /\ End

Refuse ==
    /\ Running /\ pc =< Len(Script) /\ Refused(Current, work.objects)
    /\ refused' = Current
    /\ UNCHANGED <<committed, data>> /\ End

\* The process or its connection is lost: the open transaction is rolled back.
Crash == Running /\ UNCHANGED <<committed, data, refused>> /\ End

\* The application adds rows a statement minds, as far as the schema has them.
Writable(fact) == TableOf(fact) \in Names(committed.objects) \ locked
Allowed(fact) ==
    CASE fact = "individual" -> "INDIVIDUAL" \in Names(committed.objects)
      [] fact = "estate"     -> "WILL" \in Names(committed.objects)
      [] fact = "shared_ein" -> "ix_entities_ein" \notin Names(committed.objects)
Write(fact) ==
    /\ Writable(fact) /\ Allowed(fact)
    /\ data' = data \cup {fact}
    /\ UNCHANGED <<committed, work, command, pc, mode, locked, refused>>
Erase(fact) ==
    /\ Writable(fact)
    /\ data' = data \ {fact}
    /\ UNCHANGED <<committed, work, command, pc, mode, locked, refused>>

Init ==
    /\ committed = [objects |-> {}, version |-> 0] /\ work = committed
    /\ command = <<0, 0>> /\ pc = 1 /\ mode = "idle"
    /\ locked = {} /\ data = {} /\ refused = NoStatement

Facts == {"individual", "estate", "shared_ein"}
Next ==
    \/ \E to \in Versions : Start(to)
    \/ Transact \/ Autocommitted \/ Finish \/ Refuse \/ Crash
    \/ \E fact \in Facts : Write(fact) \/ Erase(fact)

Spec == Init /\ [][Next]_vars

-----------------------------------------------------------------------------
\* The objects a version stands for: what its upgrades make of an empty database.
Schema[v \in Versions] ==
    IF v = 0 THEN {}
    ELSE FoldLeft(LAMBDA objects, s : Effect(s, objects), Schema[v - 1], Ups[v])
Lasting(objects) == {o \in objects : o.kind \notin {"type", "label"}}

\* Whatever upgrades and downgrades ran, were refused or were cut off, the
\* committed tables, columns and indexes are those of the committed version row,
\* its types and labels are there (others may have stayed), and no row, however
\* late it was written, is left that this schema does not allow.
VersionMatchesSchema ==
    /\ Lasting(committed.objects) = Lasting(Schema[committed.version])
    /\ Schema[committed.version] \subseteq committed.objects
    /\ \A fact \in data : Allowed(fact)

\* An upgrade or downgrade can be taken up again from wherever one stopped: only
\* rows ever refuse a statement, or the types that the downgrade of the initial
\* migration leaves behind.
RefusalsAreAboutData ==
    \/ refused = NoStatement
    \/ refused.unless # {}
    \/ refused.do = "create" /\ refused.what.kind = "type"
=============================================================================
