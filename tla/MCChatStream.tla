---------------------------- MODULE MCChatStream ----------------------------
(***************************************************************************)
(* ChatStream on a small instance.                                         *)
(***************************************************************************)
EXTENDS ChatStream, TLC

CONSTANTS q1, q2, p1, p2, s1, s2, m1, m2

\* Requests, principals, sessions and message ids are interchangeable.
Symmetry == Permutations({q1, q2}) \cup Permutations({p1, p2})
            \cup Permutations({s1, s2}) \cup Permutations({m1, m2})

\* At most one of the two clients leaves: what a client that left changes, it
\* changes in its own stream.
OneLeaves == Cardinality(gone) <= 1
=============================================================================
