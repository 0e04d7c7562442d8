---------------------------- MODULE MCHealthCheck ----------------------------
(***************************************************************************)
(* HealthCheck on a small instance.                                        *)
(***************************************************************************)
EXTENDS HealthCheck, TLC

CONSTANTS r1, r2

\* A production service in the middle of an update, and one whose offline host
\* lost a model.
Updating ==
    [reachable |-> TRUE, production |-> TRUE, hardened |-> TRUE,
     mode |-> "multi_user", authMode |-> "users", secret |-> TRUE,
     database |-> TRUE, users |-> {{"admin", "editor"}, {"viewer"}},
     busy |-> TRUE, reads |-> <<"index", "other">>, offline |-> TRUE,
     embedding |-> "loaded", reranker |-> "cached", countable |-> TRUE,
     initialized |-> TRUE, listed |-> [documents |-> 1, chunks |-> 2],
     held |-> [documents |-> 2, chunks |-> 3]]

MCServices == {Updating, [Updating EXCEPT !.embedding = "absent"]}

Plain(route, outcome) ==
    [route |-> route, outcome |-> outcome, long |-> FALSE, slowModel |-> FALSE]

\* A failed request, a long one, a stream that only lasts, a stream whose model
\* is slow, a slow one broken off, and a scrape.
MCServed ==
    {Plain("request", "error"),
     [Plain("request", "ok") EXCEPT !.long = TRUE],
     [Plain("sse", "ok") EXCEPT !.long = TRUE],
     [Plain("sse", "ok") EXCEPT !.slowModel = TRUE],
     [Plain("request", "interrupted") EXCEPT !.long = TRUE],
     Plain("/metrics", "error")}

\* Request ids are only told apart.
Symmetry == Permutations({r1, r2})
=============================================================================
