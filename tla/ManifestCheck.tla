---------------------------- MODULE ManifestCheck ----------------------------
(***************************************************************************)
(* How a manifest is read, checked and reported before anything is         *)
(* imported (read_manifest and verify_sources of services/                 *)
(* document_import.py, main and _dry_run of cli/import_documents.py), as   *)
(* folds over the records, and what the verdicts should be.                *)
(*                                                                         *)
(* A record gives the text class of each cell, and line i is that of       *)
(* record i.  A document is its resolved path, as in DocumentImport.        *)
(***************************************************************************)
EXTENDS Naturals, Sequences, FiniteSets, SequencesExt

CONSTANTS
    Paths,  \* the source directory: for each file cell, the "place" it leads to, the
            \* resolved path ("key"), and the "kind" of file and the "bytes" there
    Texts   \* the manifests that may be given; one "breaks" where it can be opened, decoded
            \* or split into cells no further: before its header is read, or among its records

Blank == ""   \* the text of an empty cell

Record ==
    [extra : BOOLEAN, file : DOMAIN Paths, entity : {"key", "uuid", "text"},
     document_type : {"known", "unknown"}, category : {"Tax Returns", "Other", "unknown"},
     title : Nat, consent_on_file : {"true", "false", Blank, "text"},
     confidential : {"true", "false", Blank, "text"},
     document_date : {"date", Blank, "text"}, effective_date : {"date", Blank, "text"}]

ASSUME TextAssumption ==
    \A text \in Texts : /\ text.breaks \in {"nowhere", "header", "records"}
                        /\ text.header \in Seq(STRING) /\ text.records \in Seq(Record)

Required == <<"file", "entity", "document_type", "category", "title">>
Optional == <<"document_date", "effective_date", "confidential", "consent_on_file">>
Columns == ToSet(Required) \cup ToSet(Optional)

NoLine == 0
EmptyReport == [rows |-> <<>>, found |-> <<>>, lines |-> <<>>, unreadable |-> FALSE]
Add(report, line, about) == [report EXCEPT !.found = Append(@, [line |-> line, about |-> about])]

-----------------------------------------------------------------------------
(* read_manifest.                                                           *)

\* Required columns that are not there, and positions that are unknown or repeated.
Lacking(names) == ToSet(Required) \ ToSet(names)
Misplaced(names) == {i \in DOMAIN names :
    names[i] \notin Columns \/ \E j \in 1 .. i - 1 : names[j] = names[i]}

\* One problem of no line for each of them.
HeaderReport(names) ==
    LET problems == Cardinality(Lacking(names)) + Cardinality(Misplaced(names))
    IN [EmptyReport EXCEPT !.found = [i \in 1 .. problems |-> [line |-> NoLine, about |-> "header"]]]

FileRefused(p) ==
    \/ p.place # "inside"
    \/ p.kind \notin {"pdf", "png", "jpeg", "tiff", "txt"}

EntityRefused(r) == r.entity \notin {"key", "uuid"}
BoolRefused(text) == text \notin {"true", "false", Blank}
DateRefused(text) == text \notin {"date", Blank}
ConsentMisplaced(r) == r.consent_on_file = "true" /\ r.category # "Tax Returns"

\* The tests of _parse_row in their order, and those that fail.
Tests(r) == <<
    [column |-> "file", fails |-> FileRefused(Paths[r.file])],
    [column |-> "entity", fails |-> EntityRefused(r)],
    [column |-> "document_type", fails |-> r.document_type = "unknown"],
    [column |-> "category", fails |-> r.category = "unknown"],
    [column |-> "title", fails |-> r.title \notin 1 .. 255],
    [column |-> "consent_on_file", fails |-> BoolRefused(r.consent_on_file)],
    [column |-> "consent_on_file", fails |-> ConsentMisplaced(r)],
    [column |-> "document_date", fails |-> DateRefused(r.document_date)],
    [column |-> "effective_date", fails |-> DateRefused(r.effective_date)],
    [column |-> "confidential", fails |-> BoolRefused(r.confidential)]>>
Failures(r) == {i \in DOMAIN Tests(r) : Tests(r)[i].fails}

ParsedRow(r, line) == [line |-> line, file |-> r.file, doc |-> Paths[r.file].key]

\* Mutant of Repeated: the cell's text is compared, not the file it leads to.
RepeatedCell(row, rows) == \E i \in DOMAIN rows : rows[i].file = row.file

\* A valid row before it names the same document.
Repeated(row, rows) == \E i \in DOMAIN rows : rows[i].doc = row.doc

\* One record: too many cells, the first cell that fails, a repeated file, or a row.
ReadRecord(report, r) ==
    LET line == Len(report.lines) + 1
        read == [report EXCEPT !.lines = Append(@, line)]
        row == ParsedRow(r, line)
    IN IF r.extra THEN Add(read, line, "cells")
       ELSE IF Failures(r) # {} THEN Add(read, line, Tests(r)[Min(Failures(r))].column)
       ELSE IF Repeated(row, report.rows) THEN Add(read, line, "file")
       ELSE [read EXCEPT !.rows = Append(@, row)]

\* The reading meets what cannot be read; it goes no further than a bad header.
Unreadable(text) ==
    \/ text.breaks = "header"
    \/ text.breaks = "records" /\ HeaderReport(text.header).found = <<>>

\* No record is read under a bad header; partial results of a manifest that
\* cannot be read to its end are dropped; a manifest needs a row.
ReadManifest(text) ==
    LET header == HeaderReport(text.header)
        read == IF header.found = <<>> THEN FoldLeft(ReadRecord, header, text.records) ELSE header
    IN IF Unreadable(text) THEN Add([EmptyReport EXCEPT !.unreadable = TRUE], NoLine, "manifest")
       ELSE IF read.rows = <<>> /\ read.found = <<>> THEN Add(read, NoLine, "rows")
       ELSE read

-----------------------------------------------------------------------------
(* The dry run: every valid row's file is read and hashed.                  *)

Verify(acc, row) ==
    LET bytes == Paths[row.file].bytes
    IN IF bytes = "unreadable" \/ bytes \in acc.hashes
       THEN [acc EXCEPT !.report = Add(@, row.line, "file")]
       ELSE [acc EXCEPT !.hashes = @ \cup {bytes}]

VerifySources(report) ==
    FoldLeft(Verify, [report |-> report, hashes |-> {}], report.rows).report

\* The exit code of a dry run and of a refused import; "import" when it goes on.
DryReport(text) ==
    LET report == ReadManifest(text) IN IF report.unreadable THEN report ELSE VerifySources(report)
DryExit(text) ==
    LET report == DryReport(text)
    IN IF report.unreadable THEN "usage" ELSE IF report.found # <<>> THEN "invalid" ELSE "ok"
ImportExit(text) ==
    LET report == ReadManifest(text)
    IN IF report.unreadable THEN "usage" ELSE IF report.found # <<>> THEN "invalid" ELSE "import"

\* The row report: lines that are ok, and the number of errors, which are the lines
\* with a problem and the problems of no line.
BadLines(report) == {report.found[i].line : i \in DOMAIN report.found} \ {NoLine}
OkLines(report) == ToSet(report.lines) \ BadLines(report)
Errors(report) ==
    Cardinality(BadLines(report))
        + Cardinality({i \in DOMAIN report.found : report.found[i].line = NoLine})

-----------------------------------------------------------------------------
\* What the verdicts should be, record by record and without an order of tests.
GoodHeader(names) ==
    /\ ToSet(Required) \subseteq ToSet(names) /\ ToSet(names) \subseteq Columns
    /\ \A i, j \in DOMAIN names : names[i] = names[j] => i = j
GoodRecord(r) ==
    LET p == Paths[r.file] IN
    /\ ~r.extra
    /\ p.place = "inside" /\ p.kind \in {"pdf", "png", "jpeg", "tiff", "txt"}
    /\ r.entity # "text" /\ r.document_type # "unknown" /\ r.category # "unknown"
    /\ r.title > 0 /\ r.title < 256
    /\ {r.consent_on_file, r.confidential, r.document_date, r.effective_date} \cap {"text"} = {}
    /\ r.consent_on_file = "true" => r.category = "Tax Returns"
Doc(r) == Paths[r.file].key
BytesAt(r) == Paths[r.file].bytes
Accepted(rs) ==
    {i \in DOMAIN rs : GoodRecord(rs[i])
        /\ \A j \in 1 .. i - 1 : GoodRecord(rs[j]) => Doc(rs[j]) # Doc(rs[i])}
Verified(rs) ==
    {i \in Accepted(rs) : BytesAt(rs[i]) # "unreadable"
        /\ \A j \in Accepted(rs) : j < i => BytesAt(rs[j]) # BytesAt(rs[i])}

\* The verdicts on one text: the command imports exactly the manifests without a
\* fault, with a document for every record and none twice (what DocumentImport
\* assumes of a manifest); a dry run marks exactly the lines that would be stored as
\* documents of their own, and succeeds, and counts no error, only where the import
\* would go on; a bad header is told from a manifest that cannot be read.
Right(text) ==
    LET rs == text.records
        clean == text.breaks = "nowhere" /\ GoodHeader(text.header) /\ rs # <<>>
        report == ReadManifest(text)
    IN /\ (ImportExit(text) = "import") <=> (clean /\ Accepted(rs) = DOMAIN rs)
       /\ ImportExit(text) = "import" =>
             /\ [i \in DOMAIN report.rows |-> report.rows[i].doc] = [i \in DOMAIN rs |-> Doc(rs[i])]
             /\ \A i, j \in DOMAIN rs : Doc(rs[i]) = Doc(rs[j]) => i = j
       /\ (DryExit(text) = "ok") <=> (clean /\ Verified(rs) = DOMAIN rs)
       /\ DryExit(text) = "ok" => ImportExit(text) = "import"
       /\ clean => OkLines(DryReport(text)) = Verified(rs)
       /\ (Errors(DryReport(text)) = 0) <=> (DryExit(text) = "ok")
       /\ DryExit(text) = "usage" <=>
             text.breaks = "header" \/ (text.breaks = "records" /\ GoodHeader(text.header))
=============================================================================
