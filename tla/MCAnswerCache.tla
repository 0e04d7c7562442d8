---------------------------- MODULE MCAnswerCache ----------------------------
(***************************************************************************)
(* AnswerCache on a small instance: two streams, two questions, one        *)
(* document in two versions, one entry per level.                          *)
(***************************************************************************)
EXTENDS AnswerCache, TLC

CONSTANTS a, b, doc, q1, q2, v1, v2

\* Streams, questions and versions are interchangeable.
Symmetry == Permutations({a, b}) \cup Permutations({q1, q2}) \cup Permutations({v1, v2})
=============================================================================
