--------------------------- MODULE MCKnowledgeBase ---------------------------
(***************************************************************************)
(* KnowledgeBase on a small instance: two threads, and two editors of one  *)
(* department under the rules of AccessRules.                              *)
(***************************************************************************)
EXTENDS KnowledgeBase, AccessRules, TLC

CONSTANTS t1, t2, s1, s2, c1, c2, ann, bob, law, hr

\* c1 fits one write batch, c2 needs two.
MCPartsOf == c1 :> 1 @@ c2 :> 2

Editor(p) == [id |-> p, roles |-> {"editor"}, department |-> law]
MCActors == {Editor(ann), Editor(bob)}

\* Ann keeps her documents to herself, Bob shares his with the department: she
\* reads his, and neither may touch what the other has put under a name.
\* Governance admits hers and has archived his; a sync may change a row from
\* either to the other.
Form(visibility) == [visibility |-> visibility, department |-> law, owner |-> ""]
Anns == Stamped(Editor(ann), Form("private"))
Bobs == Stamped(Editor(bob), Form("department"))
Meta(access, status) == [access |-> access, status |-> status]
MCMetas == {Meta(Anns, "active"), Meta(Bobs, "archived")}
MCRetrievable == {m \in MCMetas : m.status = "active"}

Lifted(relation) == {<<u, m>> \in MCActors \X MCMetas : <<u, m.access>> \in relation}
MCCanCreate == Lifted(Creating(MCActors, {Anns, Bobs}))
MCCanManage == Lifted(Managing(MCActors, {Anns, Bobs}))
MCCanRead == Lifted(Reading(MCActors, {Anns, Bobs}))

\* A thread that has come to the gate, is about to enter the vector lock for an
\* upload, or has its answer moves on at once: until it does, no other thread
\* can tell it from one that has not come this far, so that no order of steps
\* that matters is lost.
Prompt ==
    \A t \in Threads :
        pc[t] \in AtGate \cup {"addWait", "answered"} => pc'[t] # pc[t]

\* One restart or one sync, and of a source that is there: for the others the
\* sync moves the generation only (they happen in MCKnowledgeBaseLive).
OneEvent == crashes + syncs <= 1
SyncTells == syncs' = syncs \/ manifest' # manifest

\* Threads and sources are interchangeable.
Symmetry == Permutations({t1, t2}) \cup Permutations({s1, s2})
=============================================================================
