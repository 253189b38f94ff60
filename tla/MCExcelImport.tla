---------------------------- MODULE MCExcelImport ----------------------------
(***************************************************************************)
(* Small instances of ExcelImport for TLC: workbooks with one or two       *)
(* entities and rows that meet every way a row can go.                     *)
(***************************************************************************)
EXTENDS ExcelImport, TLC

CONSTANTS n1, n2, e1, e2, k1, k2

\* No operator tells one id from another.
SymmetricIds == Permutations(Ids)

E(n, e, a, f)    == [name |-> n, ein |-> e, active |-> a, flaw |-> f]
C(s, n, k, p, f) == [sheet |-> s, name |-> n, key |-> k, share |-> p, flaw |-> f]
Wb(es, rows)     == [entities |-> es, rows |-> rows]

One == <<E(n1, e1, TRUE, "none")>>

\* Two entities with a row in a looked-up and in an upserted sheet.
Plain == Wb(<<E(n1, e1, TRUE, "none"), E(n2, e2, TRUE, "none")>>,
            <<C("Owners", n1, k1, 100000, "none"), C("StateRegistrations", n2, k1, 0, "none")>>)

\* Another division of the first entity; the second one is not active.
Halves == Wb(<<E(n1, e1, TRUE, "none"), E(n2, e2, FALSE, "none")>>,
             <<C("Owners", n1, k1, 50000, "none"), C("Owners", n1, k2, 50000, "none"),
               C("TaxFilings", n2, k1, 0, "none")>>)

\* The same owner and the same agent twice.
Double == Wb(One, <<C("Owners", n1, k2, 50000, "none"), C("Owners", n1, k2, 50000, "none"),
                    C("RegisteredAgents", n1, k1, 0, "none"), C("RegisteredAgents", n1, k1, 0, "none")>>)

\* Two shares that are both rounded up: 100 percent are stored as 100.01.
Rounded == Wb(One, <<C("Owners", n1, k1, 33335, "none"), C("Owners", n1, k2, 66665, "none")>>)

\* One half, which the validator warns of.
Half == Wb(One, <<C("Owners", n1, k2, 50000, "none")>>)

\* Rows that fail in the import: unreadable, or refused at once or at the flush.
Unreadable == Wb(One, <<C("Owners", n1, k1, 100000, "unreadable")>>)
RefusedAtOnce == Wb(One, <<C("StateRegistrations", n1, k1, 0, "refused")>>)
RefusedLate   == Wb(One, <<C("BankAccounts", n1, k1, 0, "refused")>>)
RefusedEntity == Wb(<<E(n1, e1, TRUE, "refused")>>, <<>>)

\* Workbooks that the validator rejects, and one that makes it raise.
Invalid == Wb(<<E(n1, e1, TRUE, "invalid")>>, <<>>)
Unknown == Wb(One, <<C("BankAccounts", n2, k1, 0, "none")>>)
Raising == Wb(One, <<C("TaxFilings", n1, k1, 0, "uncheckable")>>)

MCWorkbooks == {Plain, Halves, Double, Rounded, Half, Unreadable, RefusedAtOnce, RefusedLate,
                RefusedEntity, Invalid, Unknown, Raising}
=============================================================================
