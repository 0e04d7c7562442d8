--------------------------- MODULE MCQualityStore ---------------------------
(***************************************************************************)
(* QualityStore on a small instance.                                       *)
(***************************************************************************)
EXTENDS QualityStore, TLC

CONSTANTS r1, r2, r3, m1, m2, p1, p2

\* Runs, messages and principals are interchangeable.
Symmetry == Permutations({r1, r2, r3}) \cup Permutations({m1, m2})
            \cup Permutations({p1, p2})
=============================================================================
