---------------------------- MODULE MCEntityStore ----------------------------
(***************************************************************************)
(* Small instances of EntityStore for TLC.  The bodies are the ones that   *)
(* tell the rules apart: companies with and without an EIN or Xero tenant, *)
(* active and not, a person, and updates of one field or of two.  An EIN   *)
(* may be the empty text.                                                  *)
(***************************************************************************)
EXTENDS EntityStore, TLC

CONSTANTS a, b, c, p1, p2, e1, e2, blank, x1

OneProc   == {p1}
TwoProcs  == {p1, p2}
TwoIds    == {a, b}
ThreeIds  == {a, b, c}
SymmetricIds == Permutations({a, b, c})

Company(ein, xero, active) ==
    [type |-> "llc", ein |-> ein, xero |-> xero, active |-> active,
     deleted |-> FALSE]
Person == [Company(None, None, TRUE) EXCEPT !.type = "individual"]

MCCreates ==
    {Person, Company(None, None, TRUE), Company(e1, None, TRUE),
     Company(e1, x1, FALSE), Company(blank, None, FALSE)}

Sends(fs, v) == [sent |-> fs, val |-> v]
MCPatches ==
    {Sends({"type"}, Person), Sends({"type"}, Company(None, None, TRUE)),
     Sends({"ein"}, Company(e1, None, TRUE)),
     Sends({"ein", "xero"}, Company(None, x1, TRUE)),
     Sends({"active"}, Company(None, None, FALSE)),
     Sends({"active"}, Company(None, None, TRUE)),
     Sends({"active"}, Company(None, None, None)),
     Sends({"ein"}, Company(blank, None, TRUE)),
     Sends({"type", "ein"}, Person)}

FormFields == {"type", "ein", "active"}
MCForms ==
    {Sends(FormFields, v) :
        v \in {Company(e1, None, TRUE), Company(None, None, TRUE)}}
=============================================================================
