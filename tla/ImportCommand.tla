---------------------------- MODULE ImportCommand ----------------------------
(***************************************************************************)
(* The import command as a whole: a manifest is read and checked           *)
(* (ManifestCheck) before its import begins (DocumentImport), and nothing  *)
(* of the import is seen by the check.                                     *)
(***************************************************************************)
EXTENDS DocumentImport, ManifestCheck

\* Whatever is in the source directory, the check's verdicts on every manifest are
\* right, so that Manifests of DocumentImport is what the first run can start from.
VerdictsAreRight == run = 0 => \A text \in Texts : Right(text)
=============================================================================
