-------------------------- MODULE MCDocumentImport --------------------------
(***************************************************************************)
(* Small instances of DocumentImport for TLC: two documents, two file      *)
(* contents, two values of the other columns that name different entities, *)
(* and every accepted manifest over them; and, beside it, every text that  *)
(* ManifestCheck bounds for the check that accepts manifests.              *)
(***************************************************************************)
EXTENDS ImportCommand

CONSTANTS d1, d2, x, y, metaA, metaB, entA, entB

MCDocs     == {d1, d2}
MCBytes    == {x, y}
MCMetas    == {metaA, metaB}
MCEntities == {entA, entB}
MCEntityOf == [m \in MCMetas |-> IF m = metaA THEN entA ELSE entB]

MCRows == [doc : MCDocs, meta : MCMetas]

\* One or two rows that name distinct files.
MCManifests ==
    {<<r>> : r \in MCRows}
        \cup {m \in MCRows \X MCRows : m[1].doc # m[2].doc}

\* The manifests in which every row names the same entity.
MCPlainManifests == {m \in MCManifests : \A i \in 1..Len(m) : m[i].meta = metaA}

\* A file cell: where it leads, and what is there.
Path(place, key, kind, bytes) == [place |-> place, key |-> key, kind |-> kind, bytes |-> bytes]

MCPaths == [
    plain   |-> Path("inside", "a", "pdf", "x"),
    link    |-> Path("inside", "a", "pdf", "x"),
    copy    |-> Path("inside", "b", "png", "x"),
    other   |-> Path("inside", "c", "txt", "y"),
    locked  |-> Path("inside", "d", "pdf", "unreadable"),
    program |-> Path("inside", "e", "exe", "z"),
    gone    |-> Path("inside", "f", "none", "none"),
    parent  |-> Path("outside", "g", "pdf", "x"),
    loop    |-> Path("error", "h", "none", "none"),
    empty   |-> Path("empty", "i", "none", "none")]

\* Every path and every flaw of one cell in one or two records, every path in
\* three; and headers with each kind of mistake, of texts that break anywhere.
Sound == [extra |-> FALSE, file |-> "plain", entity |-> "key", document_type |-> "known",
          category |-> "Tax Returns", title |-> 255, consent_on_file |-> "true",
          confidential |-> Blank, document_date |-> "date", effective_date |-> Blank]
Leading == {[Sound EXCEPT !.file = p] : p \in DOMAIN MCPaths}
Records == Leading
        \cup {[Sound EXCEPT !.extra = TRUE], [Sound EXCEPT !.entity = "text"],
              [Sound EXCEPT !.document_type = "unknown"], [Sound EXCEPT !.category = "Other"],
              [Sound EXCEPT !.title = 0], [Sound EXCEPT !.title = 256],
              [Sound EXCEPT !.consent_on_file = "text"], [Sound EXCEPT !.effective_date = "text"]}
Full == Required \o Optional
Headers == {Full, Required, Reverse(Full), Tail(Full), Append(Full, "other"), Append(Full, "file")}
MCTexts ==
    [breaks : {"nowhere"}, header : {Full},
     records : UNION {[1 .. n -> Records] : n \in 0 .. 2} \cup [1 .. 3 -> Leading]]
        \cup [breaks : {"nowhere", "header", "records"}, header : Headers, records : {<<>>, <<Sound>>}]
=============================================================================
