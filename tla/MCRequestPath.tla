---------------------------- MODULE MCRequestPath ----------------------------
(***************************************************************************)
(* A small instance of RequestPath for TLC: three slots over a pool of two *)
(* connections, and requests of every kind and every way to be refused.    *)
(***************************************************************************)
EXTENDS RequestPath

Site  == [scheme |-> "web", host |-> "public"]
Bad   == {[scheme |-> "blocked", host |-> "none"], [scheme |-> "web", host |-> "number"]}
Plain(kind) == [kind |-> kind, query |-> {}, body |-> {}, key |-> TRUE, preflight |-> FALSE]

MCInputs ==
    {Plain(k) : k \in Kinds \ Writing}
        \cup {[Plain("write") EXCEPT !.body = {Site}],
              [Plain("form") EXCEPT !.body = {Site} \cup Bad],
              [Plain("page") EXCEPT !.query = Bad],
              [Plain("file") EXCEPT !.key = FALSE],
              [Plain("write") EXCEPT !.preflight = TRUE]}
=============================================================================
