----------------------------- MODULE RequestPath -----------------------------
(***************************************************************************)
(* A request's way through the application (main.py): the middleware, the  *)
(* key check, a session with a pooled connection (db/session.py), the      *)
(* handler, the answer and the end of the session.                         *)
(*                                                                         *)
(* The session dependency ends after the answer is sent, and a streamed    *)
(* file is part of the answer.  The limiter's decision is RateLimiter's    *)
(* and arbitrary here; requests of one slot follow each other.             *)
(***************************************************************************)
EXTENDS Naturals, Sequences, FiniteSets, SequencesExt

CONSTANTS
    Slots,     \* requests in progress at one time
    PoolSize,  \* database_pool_size plus database_max_overflow
    Inputs     \* the requests that may arrive

(***************************************************************************)
(* What is told apart of a request: "live" stands for every answer without  *)
(* a session; "page" and "form" are the web pages and the edit form, which *)
(* need no key; "read", "file" and "write" are the API, "file" a download. *)
(***************************************************************************)
Kinds   == {"live", "ready", "page", "form", "read", "file", "write"}
Keyed   == {"read", "file", "write"}
Writing == {"form", "write"}
Schemes == {"web", "blocked"}
Hosts   == {"none", "public", "listed", "internal", "mapped", "number"}
Urls    == [scheme : Schemes, host : Hosts]

\* Where a URL may stand, and the key: right, or missing or wrong.
Requests == [kind : Kinds, query : SUBSET Urls, body : SUBSET Urls, key : BOOLEAN,
             preflight : BOOLEAN]

ASSUME PathAssumption ==
    /\ IsFiniteSet(Slots) /\ PoolSize \in Nat \ {0}
    /\ Inputs \subseteq Requests

VARIABLES
    pc,       \* the stage of a slot's request
    req,      \* the request in progress
    held,     \* slots that hold a connection
    saved,    \* what became of its changes: "none", "pending", "committed", "lost"
    answer    \* "none", "ok" or "error"

vars == <<pc, req, held, saved, answer>>

-----------------------------------------------------------------------------
(* SSRFPreventionMiddleware's test of a URL.                                *)

\* _is_private_ip, with the IPv4 address that an IPv6 one maps, and the
\* hosts listed by name.
BlockedHost(h) == h \in {"listed", "internal", "mapped"}

\* An internal address written as one number.
Obfuscated(h) == h = "number"

BlockedUrl(u) ==
    \/ u.scheme = "blocked"
    \/ u.host # "none" /\ (BlockedHost(u.host) \/ Obfuscated(u.host))

QueryBlocked(q) == \E u \in q.query : BlockedUrl(u)

\* A body is looked at when the method has one; one that is too long, no JSON
\* and no form is not.
Inspected(q) == q.kind \in Writing /\ ~q.preflight
BodyBlocked(q) == \E u \in q.body : BlockedUrl(u)

-----------------------------------------------------------------------------
Go(r, stage) == pc' = [pc EXCEPT ![r] = stage]
Answer(r, a) == answer' = [answer EXCEPT ![r] = a]

\* Between two requests a slot is as in a liveness probe.
First  == [kind |-> "live", query |-> {}, body |-> {}, key |-> TRUE, preflight |-> FALSE]
End(r) == Go(r, "idle") /\ req' = [req EXCEPT ![r] = First]

Refuse(r) == End(r) /\ Answer(r, "error") /\ UNCHANGED <<held, saved>>

\* The query is tested before anything else; then the body is awaited.
Arrive(r, q) ==
    /\ pc[r] = "idle"
    /\ saved' = [saved EXCEPT ![r] = "none"]
    /\ IF QueryBlocked(q) THEN End(r) /\ Answer(r, "error")
       ELSE /\ req' = [req EXCEPT ![r] = q]
            /\ Go(r, IF Inspected(q) THEN "body" ELSE "limit") /\ Answer(r, "none")
    /\ UNCHANGED held

\* The body is there, whenever its client has sent the last of it.
ReadBody(r) ==
    /\ pc[r] = "body"
    /\ \/ BodyBlocked(req[r]) /\ Refuse(r)
       \/ Go(r, "limit") /\ UNCHANGED <<req, held, saved, answer>>

\* The client disconnects before the end of the body.
ClientLeaves(r) == pc[r] = "body" /\ Refuse(r)

\* The limiter, then, inside the headers' and the correlation middleware which
\* keep no state between requests, the CORS middleware, the key and the route.
Unauthorized(q) == q.kind \in Keyed /\ ~q.key

Limited(r) == pc[r] = "limit" /\ Refuse(r)

\* A preflight request, and a probe or a page that needs no session.
Sessionless(q) == q.preflight \/ q.kind = "live"

Route(r) ==
    /\ pc[r] = "limit"
    /\ IF Sessionless(req[r])
       THEN End(r) /\ Answer(r, "ok") /\ UNCHANGED <<held, saved>>
       ELSE IF Unauthorized(req[r]) THEN Refuse(r)
       ELSE Go(r, "wait") /\ UNCHANGED <<req, held, saved, answer>>

\* The first statement takes a connection.
Free == Cardinality(held) < PoolSize
Checkout(r) ==
    /\ pc[r] = "wait" /\ Free
    /\ held' = held \cup {r}
    /\ Go(r, "work")
    /\ UNCHANGED <<req, saved, answer>>

\* Mutant of PoolTimeout: a request waits until a connection is free.
PoolTimeoutNever(r) == FALSE /\ UNCHANGED vars

\* pool_timeout has passed, or no connection can be made.
PoolTimeout(r) ==
    /\ pc[r] = "wait"
    /\ Go(r, "undo")
    /\ UNCHANGED <<req, held, saved, answer>>

\* The handler has its answer, and what it changed is saved[r] = s.
At(r, kind) == pc[r] = "work" /\ req[r].kind = kind
Reply(r, s) ==
    /\ Go(r, "answer")
    /\ saved' = [saved EXCEPT ![r] = s]
    /\ UNCHANGED <<req, held, answer>>

\* The readiness probe closes its own session before it answers.
Probe(r) ==
    /\ At(r, "ready")
    /\ End(r) /\ Answer(r, "ok") /\ held' = held \ {r}
    /\ UNCHANGED saved

ShowPage(r) == At(r, "page") /\ Reply(r, "none")
ShowData(r) == At(r, "read") /\ Reply(r, "none")
OpenFile(r) == At(r, "file") /\ Reply(r, "none")
Change(r)   == At(r, "write") /\ Reply(r, "pending")

\* The form shows its mistakes in an answer of its own, without an exception.
SaveForm(r) == At(r, "form") /\ \E s \in {"pending", "none"} : Reply(r, s)

Handle(r) == \/ Probe(r) \/ ShowPage(r) \/ ShowData(r) \/ OpenFile(r)
             \/ Change(r) \/ SaveForm(r)

\* The handler raises, before or after it changed something.
HandlerRaises(r) == \E s \in {"none"} \cup {t \in {"pending"} : req[r].kind \in Writing} :
    /\ pc[r] = "work"
    /\ Go(r, "undo")
    /\ saved' = [saved EXCEPT ![r] = s]
    /\ UNCHANGED <<req, held, answer>>

\* Mutant of Undo: the session commits on the way out.
UndoCommits(r) ==
    /\ pc[r] = "undo"
    /\ saved' = [saved EXCEPT ![r] = IF @ = "pending" THEN "committed" ELSE @]
    /\ held' = held \ {r}
    /\ End(r) /\ Answer(r, "error")

\* The exception rolls the session back and closes it, and is then answered.
Undo(r) ==
    /\ pc[r] = "undo"
    /\ saved' = [saved EXCEPT ![r] = "none"]
    /\ held' = held \ {r}
    /\ End(r) /\ Answer(r, "error")

\* The answer is sent; a file as fast as its reader takes it.
Outcome(r) == IF req[r].kind = "form" /\ saved[r] = "none" THEN "error" ELSE "ok"
Send(r) ==
    /\ pc[r] = "answer"
    /\ Go(r, "close") /\ Answer(r, Outcome(r))
    /\ UNCHANGED <<req, held, saved>>

\* Mutant of Released: a failed commit keeps the connection.
ReleasedOnSuccess(r, s) == IF s = "lost" THEN held ELSE held \ {r}

Released(r, s) == held \ {r}

\* get_async_session after the yield: commit, or rollback of a failed commit.
Close(r, s) ==
    /\ pc[r] = "close"
    /\ saved' = [saved EXCEPT ![r] = s]
    /\ held' = Released(r, s)
    /\ End(r)
    /\ UNCHANGED answer

Commit(r) == Close(r, IF saved[r] = "pending" THEN "committed" ELSE saved[r])
CommitFails(r) == Close(r, IF saved[r] = "pending" THEN "lost" ELSE saved[r])

-----------------------------------------------------------------------------
Init ==
    /\ pc = [r \in Slots |-> "idle"]
    /\ req = [r \in Slots |-> First]
    /\ held = {}
    /\ saved = [r \in Slots |-> "none"]
    /\ answer = [r \in Slots |-> "none"]

\* What the client decides on, and the application's own steps.
Client(r) == (\E q \in Inputs : Arrive(r, q)) \/ ReadBody(r) \/ ClientLeaves(r)
Ending(r) == \/ Limited(r) \/ Route(r) \/ Checkout(r) \/ PoolTimeout(r)
             \/ Handle(r) \/ HandlerRaises(r) \/ Undo(r)
             \/ Commit(r) \/ CommitFails(r)

Next == \E r \in Slots : Client(r) \/ Ending(r) \/ Send(r)

Spec == Init /\ [][Next]_vars

\* The application's stages go on, and every answer but a file's is sent at last.
\* Nothing bounds the wait for a body: a client may never send the rest of it.
SendsShort(r) == req[r].kind # "file" /\ Send(r)
FairSpec == Spec /\ \A r \in Slots : WF_vars(Ending(r)) /\ WF_vars(SendsShort(r))

-----------------------------------------------------------------------------
TypeOK ==
    /\ pc \in [Slots -> {"idle", "body", "limit", "wait", "work", "answer", "undo", "close"}]
    /\ req \in [Slots -> Requests]
    /\ held \subseteq Slots
    /\ saved \in [Slots -> {"none", "pending", "committed", "lost"}]
    /\ answer \in [Slots -> {"none", "ok", "error"}]

\* An error answer means that nothing was changed, and a change is committed
\* only if its success was answered.  An answered success may still be lost,
\* by a commit that fails after it, and in no other way.
AnswersMatchEffects ==
    \A r \in Slots : pc[r] = "idle" =>
        /\ answer[r] = "error" => saved[r] = "none"
        /\ saved[r] \in {"none", "committed", "lost"}
        /\ saved[r] # "none" => answer[r] = "ok"

\* A request that has ended or not yet begun its work holds no connection, and
\* all together never hold more than the pool has.
ConnectionsComeBack ==
    /\ \A r \in held : pc[r] \in {"work", "answer", "undo", "close"}
    /\ Cardinality(held) =< PoolSize

\* Every request whose body is there ends, even while other bodies never come and
\* files that nobody reads on hold all the connections; only such a file's request
\* may stay.
EveryRequestEnds ==
    \A r \in Slots :
        pc[r] \notin {"idle", "body"} ~>
            pc[r] = "idle" \/ (pc[r] = "answer" /\ req[r].kind = "file")
=============================================================================
