---------------------------- MODULE DocumentStore ----------------------------
(***************************************************************************)
(* What the documents table and the documents root promise together,       *)
(* without saying how an import gets there.  A batch of claims is recorded *)
(* at one instant.  The bytes of a batch are then delivered, each under    *)
(* its final name, or the batch is abandoned; a final name never holds     *)
(* bytes that were not claimed when they were put there, and a deleted     *)
(* document stays deleted.                                                 *)
(***************************************************************************)
CONSTANTS Docs, Bytes, None, Missing

VARIABLES
    claimed,    \* the bytes each document's row claims
    deleted,    \* documents whose row is soft-deleted
    stored,     \* the bytes under each final name
    pending     \* documents of the current batch that are to be delivered

vars == <<claimed, deleted, stored, pending>>

Init ==
    /\ claimed = [d \in Docs |-> None]
    /\ deleted = {}
    /\ stored = [d \in Docs |-> Missing]
    /\ pending = {}

\* A batch of new or changed claims is recorded.  What changed is pending,
\* unless the batch is abandoned in the same instant.
Record ==
    /\ pending = {}
    /\ claimed' \in [Docs -> Bytes \cup {None}]
    /\ \A d \in Docs : claimed[d] # None => claimed'[d] # None
    /\ pending' \in SUBSET {d \in Docs : claimed'[d] # None}
    /\ pending' # {} =>
         {d \in Docs : claimed'[d] # claimed[d]} \subseteq pending'
    /\ UNCHANGED <<deleted, stored>>

Deliver(d) ==
    /\ d \in pending
    /\ stored' = [stored EXCEPT ![d] = claimed[d]]
    /\ pending' = pending \ {d}
    /\ UNCHANGED <<claimed, deleted>>

Abandon ==
    /\ pending' = {}
    /\ UNCHANGED <<claimed, deleted, stored>>

Lose(d) ==
    /\ stored' = [stored EXCEPT ![d] = Missing]
    /\ UNCHANGED <<claimed, deleted, pending>>

Delete(d) ==
    /\ claimed[d] # None
    /\ deleted' = deleted \cup {d}
    /\ UNCHANGED <<claimed, stored, pending>>

Next ==
    \/ Record \/ Abandon
    \/ \E d \in Docs : Deliver(d) \/ Lose(d) \/ Delete(d)

Spec == Init /\ [][Next]_vars
=============================================================================
