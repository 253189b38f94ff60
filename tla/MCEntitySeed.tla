---------------------------- MODULE MCEntitySeed -----------------------------
(***************************************************************************)
(* Small instances of EntitySeed for TLC: two entities of the seed and one *)
(* that the API created, two EINs and one Xero tenant.                     *)
(***************************************************************************)
EXTENDS EntitySeed, TLC

CONSTANTS e1, e2, x1, p1, p2

\* Two entities of the seed around one with an id from the API.
MCIds == 1..3

\* A first seed; and one that swaps its EINs, moves its tenant and activates the
\* entity of the API, after which the first finds the tenant taken.
First2 == (1 :> [ein |-> e1]) @@ (3 :> [ein |-> e2, xero |-> x1])
Swap   == (1 :> [ein |-> e2, xero |-> x1]) @@ (2 :> [active |-> TRUE])
              @@ (3 :> [ein |-> e1, xero |-> None])

MCSeeds == {First2, Swap}

\* An empty table; and those that First2 leaves beside an inactive entity of the
\* API, which has no EIN or one that Swap gives to another row.
Row2(e, t, a) == [ein |-> e, xero |-> t, active |-> a, deleted |-> FALSE]
MCTables ==
    {[i \in MCIds |-> None]} \cup
    {[i \in MCIds |-> CASE i = 1 -> Row2(e1, None, TRUE)
                        [] i = 2 -> Row2(e, None, FALSE)
                        [] i = 3 -> Row2(e2, x1, TRUE)] : e \in {None, e2}}
=============================================================================
