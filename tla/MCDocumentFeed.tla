--------------------------- MODULE MCDocumentFeed ---------------------------
(***************************************************************************)
(* Small instances of DocumentFeed for TLC: three documents in pages of    *)
(* two, and an overlap as long as the longest import.                      *)
(***************************************************************************)
EXTENDS DocumentFeed

ThreeDocs == {1, 2, 3}
=============================================================================
