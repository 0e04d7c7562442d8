------------------------------ MODULE MCTaskWatch ------------------------------
(***************************************************************************)
(* TaskWatch on a small instance: two tasks, two people at one browser.    *)
(***************************************************************************)
EXTENDS TaskWatch

CONSTANTS t1, t2, ann, bob
=============================================================================
