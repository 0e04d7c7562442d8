------------------------- MODULE MCKnowledgeBaseLive -------------------------
(***************************************************************************)
(* KnowledgeBase for liveness: two threads contending for both locks over  *)
(* one source, with one restart.                                           *)
(***************************************************************************)
EXTENDS KnowledgeBase, TLC

CONSTANTS t1, t2, s1, c1, owner, private

MCPartsOf == c1 :> 1
MCAll == {<<owner, private>>}
=============================================================================
