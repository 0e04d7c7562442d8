--------------------------- MODULE MCUploadPipeline ---------------------------
(***************************************************************************)
(* UploadPipeline on small instances: two uploads sharing one worker.      *)
(***************************************************************************)
EXTENDS UploadPipeline, TLC

CONSTANTS u1, u2

\* Uploads are interchangeable.
Symmetry == Permutations({u1, u2})

\* Which of an upload's files met which outcome makes no difference to any step
\* or property: how many are still to do and which outcomes there were does.
OutcomesMet(t) == {files[t][i] : i \in 1..FileCount}
LeftToDo(t) == Cardinality({i \in 1..FileCount : files[t][i] = "todo"})
View == <<dir, clock, status, older, futures, slots, queue, depth, destructive,
          req, run, active, cutoff, trouble, crashes,
          [t \in Tasks |-> <<OutcomesMet(t), LeftToDo(t)>>]>>
=============================================================================
