------------------------ MODULE DocumentMetadataProofs ------------------------
(***************************************************************************)
(* What DocumentMetadata promises, for any documents, readers, rules,      *)
(* governance files, proposals and legacy stores.                          *)
(***************************************************************************)
EXTENDS DocumentMetadata, TLAPS, SequenceTheorems, FiniteSetTheorems

-----------------------------------------------------------------------------
(***************************************************************************)
(* Visibility and the generation.                                          *)
(***************************************************************************)

\* The rows are a function on the sources, and the generation is a bit.
Shape ==
    /\ active = [s \in Sources |-> active[s]]
    /\ meta = [s \in Sources |-> meta[s]]
    /\ generation \in {0, 1}

\* The manifest is left as it is, or advances, or loses only the metadata of
\* sources that are not active.
Harmless ==
    /\ active' = active
    /\ \A s \in Sources : active[s] # 0 => meta'[s] = meta[s]

ManifestStep == UNCHANGED <<active, meta>> \/ generation' # generation \/ Harmless

\* set_source_metadata moves the generation whenever it changes the row.
LEMMA SetMetadataMoves ==
    ASSUME Shape, NEW s, NEW m, SetMetadata(s, m)
    PROVE  Shape' /\ ManifestStep
<1>1. CASE meta[s] = m
  <2>1. meta' = meta
    BY <1>1 DEF Shape, SetMetadata
  <2> QED
    BY <1>1, <2>1 DEF Shape, SetMetadata, ManifestStep
<1>2. CASE meta[s] # m
  <2>1. generation' = 1 - generation
    BY <1>2 DEF SetMetadata, Advanced
  <2> QED
    BY <2>1 DEF Shape, SetMetadata, ManifestStep
<1> QED
  BY <1>1, <1>2

\* commit_source always moves it.
LEMMA CommitSourceMoves ==
    ASSUME Shape, NEW s, NEW r, NEW m, CommitSource(s, r, m)
    PROVE  Shape' /\ ManifestStep
<1>1. generation' = 1 - generation
  BY DEF CommitSource, Advanced
<1>2. active' = [x \in Sources |-> active'[x]]
  BY DEF CommitSource, Shape
<1>3. meta' = [x \in Sources |-> meta'[x]]
  BY DEF CommitSource, Shape
<1> QED
  BY <1>1, <1>2, <1>3 DEF Shape, ManifestStep

\* delete_source and clear move it, unless no dropped source was active.
LEMMA DropSourcesMoves ==
    ASSUME Shape, NEW S \in SUBSET Sources, DropSources(S)
    PROVE  Shape' /\ ManifestStep
<1>1. active' = [x \in Sources |-> active'[x]] /\ meta' = [x \in Sources |-> meta'[x]]
  BY DEF DropSources
<1>2. CASE \E s \in S : Active(s)
  <2>1. generation' = 1 - generation
    BY <1>2 DEF DropSources, Advanced
  <2> QED
    BY <1>1, <2>1 DEF Shape, ManifestStep
<1>3. CASE ~\E s \in S : Active(s)
  <2>1. generation' = generation
    BY <1>3 DEF DropSources
  <2>2. \A s \in Sources : active'[s] = active[s]
    BY <1>3 DEF DropSources, Active
  <2>3. active' = active
    BY <1>1, <2>2 DEF Shape
  <2>4. \A s \in Sources : active[s] # 0 => meta'[s] = meta[s]
    BY <1>3 DEF DropSources, Active
  <2> QED
    BY <1>1, <2>1, <2>3, <2>4 DEF Shape, ManifestStep, Harmless
<1> QED
  BY <1>2, <1>3

\* Every step treats the manifest like this.
LEMMA StepMoves ==
    ASSUME Shape, [Next]_vars
    PROVE  Shape' /\ ManifestStep
<1> USE DEF ManifestStep
<1>0. ASSUME UNCHANGED <<active, meta, generation>>
      PROVE  Shape' /\ ManifestStep
  BY <1>0 DEF Shape
<1>1. CASE BeginMigration
  BY <1>0, <1>1 DEF BeginMigration
<1>2. CASE EndMigration
  BY <1>0, <1>2 DEF EndMigration
<1>3. ASSUME NEW s \in Sources, MigrateSource(s)
      PROVE  Shape' /\ ManifestStep
  <2>1. CASE UNCHANGED manifest
    BY <1>0, <2>1 DEF manifest
  <2>2. CASE CommitSource(s, CHOOSE r \in VersionsOf(s) : TRUE, NoMeta)
    BY <2>2, CommitSourceMoves
  <2> QED
    BY <1>3, <2>1, <2>2 DEF MigrateSource
<1>4. ASSUME NEW s \in Sources, NEW x \in Acls, StageUpload(s, x)
      PROVE  Shape' /\ ManifestStep
  BY <1>0, <1>4 DEF StageUpload, manifest
<1>5. CASE CommitUpload
  BY <1>5, CommitSourceMoves DEF CommitUpload
<1>6. CASE ActivateChunks \/ SweepOld \/ Discard \/ Restart
  BY <1>0, <1>6 DEF ActivateChunks, SweepOld, Discard, Restart, manifest
<1>7. ASSUME NEW S \in SUBSET Sources, Delete(S)
      PROVE  Shape' /\ ManifestStep
  BY <1>7, DropSourcesMoves DEF Delete
<1>8. CASE SyncStep
  <2>1. CASE WriteRow
    BY <2>1, SetMetadataMoves DEF WriteRow
  <2>2. CASE EndSync \/ \E k \in {"governance", "acl"} : StartSync(k)
    BY <1>0, <2>2 DEF EndSync, StartSync, manifest
  <2>3. CASE \E s \in Sources : UpdateChunks(s)
    BY <1>0, <2>3 DEF UpdateChunks, manifest
  <2> QED
    BY <1>8, <2>1, <2>2, <2>3 DEF SyncStep
<1>9. CASE Review
  BY <1>0, <1>9 DEF Review, CreateApplication, Approve, BuildCandidate, EditConfig, manifest
<1>10. CASE UNCHANGED vars
  BY <1>0, <1>10 DEF vars
<1>11. {} \cup Sources \in SUBSET Sources /\ \A s \in Sources : {s} \in SUBSET Sources
  OBVIOUS
<1> QED
  BY <1>1, <1>2, <1>3, <1>4, <1>5, <1>6, <1>7, <1>8, <1>9, <1>10, <1>11
  DEF Next, Service

\* What readers see depends on the metadata of active sources only.
LEMMA HarmlessUnseen ==
    ASSUME Harmless, config' = config
    PROVE  Views' = Views
<1>1. \A s \in Sources : Active(s)' = Active(s)
  BY DEF Harmless, Active
<1>2. \A s \in Sources : GovernanceOf(s)' = GovernanceOf(s)
  BY DEF GovernanceOf
<1>3. \A s \in Sources : Active(s) => meta'[s] = meta[s] /\ MetaOf(s)' = MetaOf(s)
  BY <1>2 DEF Harmless, Active, MetaOf
<1>4. Valid(config)' = Valid(config)
  OBVIOUS
<1>5. ASSUME NEW a \in Readers
      PROVE  Listed(a)' = Listed(a)
  <2>1. (\E s \in Sources : Active(s) /\ meta[s] = NoMeta)'
        <=> \E s \in Sources : Active(s) /\ meta[s] = NoMeta
    BY <1>1, <1>3 DEF NoMeta
  <2>2. {s \in Sources : Active(s) /\ Admits(MetaOf(s), a)}'
        = {s \in Sources : Active(s) /\ Admits(MetaOf(s), a)}
    BY <1>1, <1>3 DEF Admits, HasAcl
  <2> QED
    BY <1>4, <2>1, <2>2 DEF Listed
<1>6. ASSUME NEW a \in Readers
      PROVE  Retrievable(a)' = Retrievable(a)
  <2>1. Listed(a) \subseteq {s \in Sources : Active(s)}
    BY DEF Listed
  <2>2. {s \in Listed(a) : Allowed(MetaOf(s).gov, config.policy)}'
        = {s \in Listed(a) : Allowed(MetaOf(s).gov, config.policy)}
    BY <1>3, <1>5, <2>1 DEF Allowed
  <2> QED
    BY <1>4, <2>2 DEF Retrievable
<1> QED
  BY <1>5, <1>6 DEF Views

LEMMA ShapeHolds == Spec => []Shape
<1>1. Init => Shape
  BY DEF Init, Shape
<1>2. Shape /\ [Next]_vars => Shape'
  BY StepMoves
<1> QED
  BY <1>1, <1>2, PTL DEF Spec

\* Under one governance file no reader's view changes behind the generation.
THEOREM Visibility == Spec => VisibilityMovesGeneration
<1> DEFINE A == config' = config /\ generation' = generation =>
                   UNCHANGED <<active, meta>> \/ Views' = Views
<1>1. Shape /\ [Next]_vars => A
  BY StepMoves, HarmlessUnseen DEF ManifestStep
<1> QED
  BY <1>1, ShapeHolds, PTL DEF Spec, VisibilityMovesGeneration

-----------------------------------------------------------------------------
(***************************************************************************)
(* Deleted documents.                                                      *)
(***************************************************************************)

\* The migration is over before anything can be deleted, and does not begin
\* again: whatever commits or deletes first marks the schema as initialised.
MigratedFirst ==
    /\ job.step = "migrate" => deleted = {}
    /\ deleted # {} => initialized

LEMMA MigratedInit == Init => MigratedFirst
BY DEF Init, MigratedFirst, NoJob

LEMMA MigratedNext == MigratedFirst /\ [Next]_vars => MigratedFirst'
<1> SUFFICES ASSUME MigratedFirst, [Next]_vars
             PROVE  MigratedFirst'
  OBVIOUS
<1> USE DEF MigratedFirst
<1>1. CASE BeginMigration
  BY <1>1 DEF BeginMigration, Migrated
<1>2. CASE EndMigration
  BY <1>2 DEF EndMigration, NoJob
<1>3. ASSUME NEW s \in Sources, MigrateSource(s)
      PROVE  MigratedFirst'
  BY <1>3 DEF MigrateSource
<1>4. ASSUME NEW s \in Sources, NEW x \in Acls, StageUpload(s, x)
      PROVE  MigratedFirst'
  <2>1. job'.step = "commit"
    BY <1>4 DEF StageUpload, NoJob
  <2> QED
    BY <1>4, <2>1 DEF StageUpload, manifest
<1>5. CASE CommitUpload
  <2>1. deleted' = deleted /\ initialized' /\ job' = [job EXCEPT !.step = "activate"]
    BY <1>5 DEF CommitUpload, CommitSource
  <2>2. job'.step = "migrate" => job.step = "migrate"
    BY <1>5, <2>1 DEF CommitUpload
  <2> QED
    BY <2>1, <2>2
<1>6. CASE ActivateChunks \/ SweepOld \/ Discard \/ Restart
  <2>1. CASE ActivateChunks
    <3>1. job' = [f \in DOMAIN job |-> IF f = "staged" THEN NoMeta
                                      ELSE IF f = "step" THEN "sweep" ELSE job[f]]
      BY <2>1 DEF ActivateChunks
    <3>2. job'.step = "migrate" => job.step = "migrate"
      BY <2>1, <3>1 DEF ActivateChunks
    <3> QED
      BY <2>1, <3>2 DEF ActivateChunks, manifest
  <2>2. CASE SweepOld \/ Discard \/ Restart
    BY <2>2 DEF SweepOld, Discard, Restart, NoJob, manifest
  <2> QED
    BY <1>6, <2>1, <2>2
<1>7. ASSUME NEW S \in SUBSET Sources, Delete(S)
      PROVE  MigratedFirst'
  <2>1. job'.step = "discard"
    BY <1>7 DEF Delete, NoJob
  <2> QED
    BY <1>7, <2>1 DEF Delete, DropSources
<1>8. CASE SyncStep
  <2>1. CASE WriteRow
    BY <2>1 DEF WriteRow, SetMetadata
  <2>2. CASE EndSync \/ \E k \in {"governance", "acl"} : StartSync(k)
    BY <2>2 DEF EndSync, StartSync, manifest
  <2>3. CASE \E s \in Sources : UpdateChunks(s)
    BY <2>3 DEF UpdateChunks, manifest
  <2> QED
    BY <1>8, <2>1, <2>2, <2>3 DEF SyncStep
<1>9. CASE Review
  BY <1>9 DEF Review, CreateApplication, Approve, BuildCandidate, EditConfig, manifest
<1>10. CASE UNCHANGED vars
  BY <1>10 DEF vars
<1> QED
  BY <1>1, <1>2, <1>3, <1>4, <1>5, <1>6, <1>7, <1>8, <1>9, <1>10 DEF Next, Service

\* Only three kinds of step can make a source active or inactive.
LEMMA WhoChangesRows ==
    ASSUME [Next]_vars
    PROVE  \/ active' = active
           \/ CommitUpload
           \/ \E s \in Sources : MigrateSource(s)
           \/ \E S \in SUBSET Sources : Delete(S)
<1>1. SyncStep => active' = active
  BY DEF SyncStep, StartSync, UpdateChunks, WriteRow, SetMetadata, EndSync, manifest
<1>2. Review => active' = active
  BY DEF Review, CreateApplication, Approve, BuildCandidate, EditConfig, manifest
<1>3. UNCHANGED vars => active' = active
  BY DEF vars
<1>4. ASSUME NEW s \in Sources, NEW x \in Acls
      PROVE  StageUpload(s, x) => active' = active
  BY DEF StageUpload, manifest
<1>5. BeginMigration \/ EndMigration \/ ActivateChunks \/ SweepOld \/ Discard \/ Restart
        => active' = active
  BY DEF BeginMigration, EndMigration, ActivateChunks, SweepOld, Discard, Restart, manifest
<1>6. \A s \in Sources : {s} \in SUBSET Sources
  OBVIOUS
<1> QED
  BY <1>1, <1>2, <1>3, <1>4, <1>5, <1>6 DEF Next, Service

\* What was deleted comes back by an upload of it and by nothing else.
THEOREM Resurrection == Spec => NoResurrection
<1> DEFINE A == \A s \in Sources : s \in deleted /\ ~Active(s) /\ Active(s)' =>
                   job.step = "commit" /\ job.src = s
<1>1. ASSUME Shape, MigratedFirst, [Next]_vars
      PROVE  A
  <2> SUFFICES ASSUME NEW s \in Sources, s \in deleted, active[s] = 0, active'[s] # 0
               PROVE  job.step = "commit" /\ job.src = s
    BY DEF Active
  <2>1. CASE CommitUpload
    <3>1. PICK m : CommitSource(job.src, job.rev, m)
      BY <2>1 DEF CommitUpload
    <3>2. active' = [active EXCEPT ![job.src] = job.rev]
      BY <3>1 DEF CommitSource
    <3>3. job.src = s
      BY <1>1, <3>2 DEF Shape
    <3> QED
      BY <2>1, <3>3 DEF CommitUpload
  <2>2. ASSUME NEW x \in Sources, MigrateSource(x)
        PROVE  FALSE
    BY <1>1, <2>2 DEF MigrateSource, MigratedFirst
  <2>3. ASSUME NEW S \in SUBSET Sources, Delete(S)
        PROVE  FALSE
    BY <2>3 DEF Delete, DropSources
  <2> QED
    BY <1>1, <2>1, <2>2, <2>3, WhoChangesRows
<1>2. Spec => []MigratedFirst
  BY MigratedInit, MigratedNext, PTL DEF Spec
<1> QED
  BY <1>1, <1>2, ShapeHolds, PTL DEF Spec, NoResurrection

-----------------------------------------------------------------------------
(***************************************************************************)
(* The approval workflow.                                                  *)
(***************************************************************************)

\* The application that stands at a stage with these approvals.
Stands(stage, approvals) ==
    \E p \in Proposals :
        /\ p.target \notin p.replaced
        /\ application = [stage |-> stage, family |-> p.family, target |-> p.target,
                          replaced |-> p.replaced, approvals |-> approvals]

Hr(p) == [role |-> "hr", actor |-> p]
Legal(p) == [role |-> "legal", actor |-> p]

\* The file lists the replaced documents as superseded, archived ones, and
\* load_governance accepts it.
Decides(c, replaced) ==
    /\ c.policy = "authoritative"
    /\ Valid(c)
    /\ \A s \in replaced : c.docs[s].gov.authority = "superseded"

\* An application is at its first, second or last stage; only the last one has
\* a candidate.
WorkflowInv ==
    /\ application = None => candidate = None
    /\ \/ application = None
       \/ Stands("pending_hr", <<>>) /\ candidate = None
       \/ (\E p \in Approvers : Stands("pending_legal", <<Hr(p)>>)) /\ candidate = None
       \/ /\ \E p, q \in Approvers : p # q /\ Stands("approved", <<Hr(p), Legal(q)>>)
          /\ candidate # None => Decides(candidate, application.replaced)

LEMMA CandidateDecides ==
    ASSUME NEW p, p.target \notin p.replaced, NEW a,
           a.target = p.target, a.replaced = p.replaced,
           p.replaced \subseteq DOMAIN config.docs,
           Valid(CandidateOf(config, a))
    PROVE  Decides(CandidateOf(config, a), p.replaced)
<1> DEFINE c == CandidateOf(config, a)
<1>1. c.policy = "authoritative"
  BY DEF CandidateOf
<1>2. ASSUME NEW s \in p.replaced
      PROVE  c.docs[s].gov.authority = "superseded"
  <2>1. c.docs = [x \in DOMAIN config.docs |->
         CASE x = a.target -> [family |-> a.family, supersedes |-> a.replaced,
                  gov |-> [authority |-> "authoritative", status |-> "active"],
                  replaces |-> TRUE, evidence |-> TRUE]
           [] x \in a.replaced -> [config.docs[x] EXCEPT !.gov =
                  [authority |-> "superseded", status |-> "archived"]]
           [] OTHER -> config.docs[x]]
    BY DEF CandidateOf
  <2>2. c.docs[s] = [config.docs[s] EXCEPT !.gov =
                        [authority |-> "superseded", status |-> "archived"]]
    BY <1>2, <2>1
  <2> QED
    BY <2>2
<1> QED
  BY <1>1, <1>2 DEF Decides

LEMMA AppendToOne ==
    ASSUME NEW x, NEW y
    PROVE  Append(<<x>>, y) = <<x, y>>
<1> DEFINE S == {x, y}
<1>1. <<x>> \in Seq(S) /\ y \in S
  OBVIOUS
<1>2. <<x, y>> \in Seq(S)
  OBVIOUS
<1>3. Append(<<x>>, y) \in Seq(S)
  BY <1>1
<1>4. Len(Append(<<x>>, y)) = 2 /\ Append(<<x>>, y)[1] = x /\ Append(<<x>>, y)[2] = y
  BY <1>1
<1>5. Len(<<x, y>>) = 2 /\ <<x, y>>[1] = x /\ <<x, y>>[2] = y
  OBVIOUS
<1>6. \A i \in 1..2 : i = 1 \/ i = 2
  OBVIOUS
<1>7. \A i \in 1..2 : Append(<<x>>, y)[i] = <<x, y>>[i]
  BY <1>4, <1>5, <1>6
<1> HIDE DEF S
<1> QED
  BY <1>2, <1>3, <1>4, <1>5, <1>7, SeqEqual

LEMMA WorkflowNext == WorkflowInv /\ [Next]_vars => WorkflowInv'
<1> SUFFICES ASSUME WorkflowInv, [Next]_vars
             PROVE  WorkflowInv'
  OBVIOUS
<1>0. ASSUME UNCHANGED <<application, candidate>>
      PROVE  WorkflowInv'
  <2>1. \A stage, approvals : Stands(stage, approvals)' = Stands(stage, approvals)
    BY <1>0 DEF Stands
  <2>2. Valid(candidate)' = Valid(candidate)
    BY <1>0
  <2>3. (candidate # None => Decides(candidate, application.replaced))'
        = (candidate # None => Decides(candidate, application.replaced))
    BY <1>0, <2>2 DEF Decides
  <2> QED
    BY <1>0, <2>1, <2>3 DEF WorkflowInv
<1>1. ASSUME NEW p \in Proposals, CreateApplication(p)
      PROVE  WorkflowInv'
  <2>1. Stands("pending_hr", <<>>)'
    BY <1>1 DEF CreateApplication, Stands
  <2>2. candidate' = None
    BY <1>1 DEF CreateApplication, WorkflowInv
  <2> QED
    BY <2>1, <2>2 DEF WorkflowInv
<1>2. ASSUME NEW role \in {"hr", "legal"}, NEW q \in Approvers, Approve(role, q)
      PROVE  WorkflowInv'
  <2>1. /\ application # None
        /\ MayApprove(role, q)
        /\ candidate' = candidate
        /\ application' = [application EXCEPT
               !.approvals = Append(@, [role |-> role, actor |-> q]),
               !.stage = IF role = "hr" THEN "pending_legal" ELSE "approved"]
    BY <1>2 DEF Approve
  <2>2. CASE Stands("pending_hr", <<>>) /\ candidate = None
    <3>1. PICK p \in Proposals :
              /\ p.target \notin p.replaced
              /\ application = [stage |-> "pending_hr", family |-> p.family,
                      target |-> p.target, replaced |-> p.replaced, approvals |-> <<>>]
      BY <2>2 DEF Stands
    <3>2. role = "hr"
      BY <2>1, <3>1 DEF MayApprove
    <3>3. Append(<<>>, Hr(q)) = <<Hr(q)>>
      OBVIOUS
    <3>4. application' = [stage |-> "pending_legal", family |-> p.family,
                target |-> p.target, replaced |-> p.replaced, approvals |-> <<Hr(q)>>]
      BY <2>1, <3>1, <3>2, <3>3 DEF Hr
    <3> QED
      BY ZenonT(60), <2>1, <2>2, <3>1, <3>4 DEF WorkflowInv, Stands
  <2>3. CASE (\E a \in Approvers : Stands("pending_legal", <<Hr(a)>>)) /\ candidate = None
    <3>1. PICK a \in Approvers, p \in Proposals :
              /\ p.target \notin p.replaced
              /\ application = [stage |-> "pending_legal", family |-> p.family,
                      target |-> p.target, replaced |-> p.replaced,
                      approvals |-> <<Hr(a)>>]
      BY <2>3 DEF Stands
    <3>2. role = "legal"
      BY <2>1, <3>1 DEF MayApprove
    <3>3. <<Hr(a)>>[1] = Hr(a) /\ 1 \in DOMAIN <<Hr(a)>>
      OBVIOUS
    <3>4. a # q
      BY <2>1, <3>1, <3>3 DEF MayApprove, Hr
    <3>5. Append(<<Hr(a)>>, Legal(q)) = <<Hr(a), Legal(q)>>
      BY AppendToOne
    <3>6. application' = [stage |-> "approved", family |-> p.family, target |-> p.target,
                replaced |-> p.replaced, approvals |-> <<Hr(a), Legal(q)>>]
      BY <2>1, <3>1, <3>2, <3>5 DEF Legal
    <3>7. Stands("approved", <<Hr(a), Legal(q)>>)'
      BY <3>1, <3>6 DEF Stands
    <3> QED
      BY <2>1, <2>3, <3>4, <3>7 DEF WorkflowInv
  <2>4. ASSUME NEW a \in Approvers, NEW b \in Approvers,
               Stands("approved", <<Hr(a), Legal(b)>>)
        PROVE  FALSE
    BY <2>1, <2>4 DEF Stands, MayApprove
  <2> QED
    BY <2>1, <2>2, <2>3, <2>4 DEF WorkflowInv
<1>3. CASE BuildCandidate
  <2>1. /\ application # None /\ application.stage = "approved"
        /\ application' = application
        /\ application.replaced \cup {application.target} \subseteq DOMAIN config.docs
        /\ Valid(CandidateOf(config, application))
        /\ candidate' = CandidateOf(config, application)
    BY <1>3 DEF BuildCandidate
  <2>2. PICK a \in Approvers, b \in Approvers :
            a # b /\ Stands("approved", <<Hr(a), Legal(b)>>)
    BY <2>1 DEF WorkflowInv, Stands
  <2>3. PICK p \in Proposals :
            /\ p.target \notin p.replaced
            /\ application = [stage |-> "approved", family |-> p.family,
                    target |-> p.target, replaced |-> p.replaced,
                    approvals |-> <<Hr(a), Legal(b)>>]
    BY <2>2 DEF Stands
  <2>4. Decides(CandidateOf(config, application), p.replaced)
    BY <2>1, <2>3, CandidateDecides
  <2>5. Decides(candidate', application'.replaced)
    BY <2>1, <2>3, <2>4
  <2>6. Stands("approved", <<Hr(a), Legal(b)>>)'
    BY <2>1, <2>2 DEF Stands
  <2> QED
    BY <2>1, <2>2, <2>5, <2>6 DEF WorkflowInv, Decides
<1>4. CASE EditConfig
  BY <1>0, <1>4 DEF EditConfig, workflow
<1>5. CASE Service
  BY <1>0, <1>5 DEF Service, BeginMigration, MigrateSource, EndMigration, StageUpload,
     CommitUpload, ActivateChunks, SweepOld, Delete, Discard, Restart, workflow
<1>6. CASE SyncStep
  BY <1>0, <1>6 DEF SyncStep, StartSync, UpdateChunks, WriteRow, EndSync, workflow
<1>7. CASE UNCHANGED vars
  BY <1>0, <1>7 DEF vars, workflow
<1> QED
  BY <1>1, <1>2, <1>3, <1>4, <1>5, <1>6, <1>7 DEF Next, Review

\* A candidate has two people's approval, hides what it replaces, and leaves a
\* family at most one document that can be retrieved.
THEOREM Decision == Spec => []CandidateDecided
<1>1. WorkflowInv => CandidateDecided
  <2> SUFFICES ASSUME WorkflowInv, candidate # None
               PROVE  /\ \E p, q \in Approvers :
                            p # q /\ application.approvals = <<Hr(p), Legal(q)>>
                      /\ application.replaced \cap RetrievableUnder(candidate) = {}
                      /\ \A r, s \in RetrievableUnder(candidate) :
                            candidate.docs[r].family = candidate.docs[s].family => r = s
    BY DEF CandidateDecided, Hr, Legal
  <2>1. Decides(candidate, application.replaced)
    BY DEF WorkflowInv
  <2>2. \E p, q \in Approvers : p # q /\ application.approvals = <<Hr(p), Legal(q)>>
    BY DEF WorkflowInv, Stands
  <2>3. \A s \in RetrievableUnder(candidate) :
            s \in Authoritative(candidate) /\ candidate.docs[s].gov.authority = "authoritative"
    BY <2>1 DEF Decides, RetrievableUnder, Allowed, Authoritative
  <2> QED
    BY <2>1, <2>2, <2>3 DEF Decides, Valid
<1>2. Init => WorkflowInv
  BY DEF Init, WorkflowInv
<1> QED
  BY <1>1, <1>2, WorkflowNext, PTL DEF Spec

-----------------------------------------------------------------------------
(***************************************************************************)
(* A sync command that nothing disturbs makes governance file, rows and    *)
(* chunks agree, whatever it found.                                        *)
(***************************************************************************)

\* A record of the store, as far as the argument needs its type.
IsRecord(k) ==
    /\ k = [src |-> k.src, rev |-> k.rev, meta |-> k.meta]
    /\ k.rev \in Nat \ {0}

\* Revisions are handed out once, and every active one has its chunks: no sweep
\* and no discard takes them away.
StoreInv ==
    /\ nextRev \in Nat \ {0}
    /\ \A k \in store : IsRecord(k) /\ k.rev < nextRev
    /\ \A k, l \in store : k.rev = l.rev => k = l
    /\ \A s \in Sources : active[s] # 0 => \E k \in store : k.rev = active[s] /\ k.src = s

\* The locals of the call that holds the vector lock.
JobInv ==
    /\ job = [step |-> job.step, src |-> job.src, rev |-> job.rev,
              staged |-> job.staged, todo |-> job.todo]
    /\ job.step = "commit" => /\ job.rev # 0
                              /\ \E k \in store : k.rev = job.rev /\ k.src = job.src
    /\ job.step \in {"activate", "sweep"} =>
          /\ job.rev # 0
          /\ \A s \in Sources : s = job.src => active[s] = job.rev
    /\ job.step = "discard" => \A s \in Sources : s \in job.todo => active[s] = 0

\* The two sources of truth about s agree with the file.
ChunksAgree(s) ==
    \A k \in RecordsOf(active[s]) :
        /\ k.meta.gov = GovernanceOf(s)
        /\ sync.command = "acl" => k.meta = RowOf(s)

\* While a sync is alone, what it has not dealt with is as in its snapshot, and
\* what it has dealt with agrees, up to the row it is about to write.  No upload
\* still has metadata to write over its chunks.
QuietInv ==
    sync.at # "idle" /\ sync.quiet =>
        /\ ~Activating
        /\ \A s \in Sources : sync.snap[s] # 0 => active[s] = sync.snap[s]
        /\ sync.at = "row" => /\ sync.row = RowOf(sync.src)
                              /\ sync.src \in Sources /\ ChunksAgree(sync.src)
        /\ \A s \in ListedBy(sync.command) \cap Sources :
              active[s] # 0 /\ sync.snap[s] = 0 =>
                  /\ ChunksAgree(s)
                  /\ meta[s] = RowOf(s) \/ (sync.at = "row" /\ sync.src = s)

SyncShape ==
    /\ sync = [command |-> sync.command, at |-> sync.at, snap |-> sync.snap,
               src |-> sync.src, row |-> sync.row, quiet |-> sync.quiet]
    /\ sync.snap = [s \in Sources |-> sync.snap[s]]

\* Every governance file there is or may come speaks of sources only.
FilesInv ==
    /\ DOMAIN config.docs \subseteq Sources
    /\ candidate # None => DOMAIN candidate.docs \subseteq Sources

SyncInv == Shape /\ StoreInv /\ JobInv /\ SyncShape /\ QuietInv

LEMMA SyncInit == Init => SyncInv
<1> SUFFICES ASSUME Init
             PROVE  SyncInv
  OBVIOUS
<1>1. Shape
  BY DEF Init, Shape
<1>2. StoreInv
  <2>1. IsFiniteSet(store) /\ store \subseteq Record
    BY LegacyConstants DEF Init
  <2>2. Cardinality(store) \in Nat
    BY <2>1, FS_CardinalityType
  <2>3. \A k \in store : IsRecord(k) /\ k.rev < nextRev
    BY <2>1, <2>2, LegacyConstants, MetadataConstants DEF Init, Record, IsRecord
  <2> QED
    BY <2>2, <2>3, LegacyConstants DEF Init, StoreInv
<1>3. JobInv
  BY DEF Init, JobInv, NoJob
<1>4. SyncShape /\ QuietInv
  BY DEF Init, SyncShape, QuietInv, NoSync, NothingLeft
<1> QED
  BY <1>1, <1>2, <1>3, <1>4 DEF SyncInv

\* A step that disturbs the sync owes it nothing any more.
LEMMA Disturbing ==
    ASSUME SyncShape, sync' = Disturbed
    PROVE  SyncShape' /\ QuietInv'
<1>1. /\ sync'.quiet = FALSE
      /\ sync' = [command |-> sync.command, at |-> sync.at, snap |-> sync.snap,
                  src |-> sync.src, row |-> sync.row, quiet |-> FALSE]
  BY DEF SyncShape, Disturbed
<1>2. QuietInv'
  BY <1>1 DEF QuietInv
<1> QED
  BY <1>1, <1>2 DEF SyncShape

\* A step that changes nothing the sync looks at.
LEMMA Ignored ==
    ASSUME SyncShape, QuietInv, UNCHANGED <<store, active, meta, sync, config>>,
           Activating' => Activating
    PROVE  SyncShape' /\ QuietInv'
<1>1. \A s : /\ RowOf(s)' = RowOf(s)
             /\ ChunksAgree(s)' = ChunksAgree(s)
             /\ ListedBy(s)' = ListedBy(s)
  BY DEF RowOf, ChunksAgree, ListedBy, GovernanceOf, RecordsOf
<1> QED
  BY <1>1 DEF SyncShape, QuietInv

LEMMA StoreUnchanged ==
    ASSUME StoreInv, UNCHANGED <<store, active, nextRev>>
    PROVE  StoreInv'
BY DEF StoreInv, IsRecord

LEMMA MigrationStep ==
    ASSUME SyncInv, BeginMigration \/ EndMigration \/ \E s \in Sources : MigrateSource(s)
    PROVE  SyncInv'
<1>1. Shape'
  BY StepMoves DEF SyncInv, Next, Service
<1>2. CASE BeginMigration
  <2>1. /\ UNCHANGED <<store, active, meta, sync, config, nextRev>>
        /\ \/ job' = job
           \/ job' = [NoJob EXCEPT !.step = "migrate", !.todo = {k.src : k \in store}]
    BY <1>2 DEF BeginMigration
  <2>2. JobInv' /\ (Activating' => Activating)
    BY <2>1 DEF SyncInv, JobInv, NoJob, Activating
  <2> QED
    BY <1>1, <2>1, <2>2, Ignored, StoreUnchanged DEF SyncInv
<1>3. CASE EndMigration
  <2>1. UNCHANGED <<store, active, meta, sync, config, nextRev>> /\ job' = NoJob
    BY <1>3 DEF EndMigration
  <2>2. JobInv' /\ ~Activating'
    BY <2>1 DEF JobInv, NoJob, Activating
  <2> QED
    BY <1>1, <2>1, <2>2, Ignored, StoreUnchanged DEF SyncInv
<1>4. ASSUME NEW s \in Sources, MigrateSource(s)
      PROVE  SyncInv'
  <2>1. /\ job.step = "migrate"
        /\ job' = [job EXCEPT !.todo = @ \ {s}]
        /\ sync' = Disturbed
        /\ UNCHANGED <<store, nextRev, config>>
    BY <1>4 DEF MigrateSource
  <2>2. JobInv'
    BY <2>1 DEF SyncInv, JobInv
  <2>3. SyncShape' /\ QuietInv'
    BY <2>1, Disturbing DEF SyncInv
  <2>4. CASE UNCHANGED manifest
    BY <1>1, <2>1, <2>2, <2>3, <2>4, StoreUnchanged DEF SyncInv, manifest
  <2>5. CASE Cardinality(VersionsOf(s)) = 1
             /\ CommitSource(s, CHOOSE r \in VersionsOf(s) : TRUE, NoMeta)
    <3>1. VersionsOf(s) # {}
      BY <2>5, FS_EmptySet
    <3>2. PICK r \in VersionsOf(s) : active' = [active EXCEPT ![s] = r]
      BY <2>5, <3>1 DEF CommitSource
    <3>3. \E k \in store : k.rev = r /\ k.src = s
      BY DEF VersionsOf
    <3>4. StoreInv'
      BY <2>1, <3>2, <3>3 DEF SyncInv, StoreInv, Shape, IsRecord
    <3> QED
      BY <1>1, <2>2, <2>3, <3>4 DEF SyncInv
  <2> QED
    BY <1>4, <2>4, <2>5 DEF MigrateSource
<1> QED
  BY <1>2, <1>3, <1>4

LEMMA UploadStep ==
    ASSUME SyncInv,
           \/ \E s \in Sources, x \in Acls : StageUpload(s, x)
           \/ CommitUpload \/ ActivateChunks \/ SweepOld
    PROVE  SyncInv'
<1>1. Shape'
  BY StepMoves DEF SyncInv, Next, Service
<1>2. sync' = Disturbed
  BY DEF StageUpload, CommitUpload, ActivateChunks, SweepOld
<1>3. SyncShape' /\ QuietInv'
  BY <1>2, Disturbing DEF SyncInv
<1>4. ASSUME NEW s \in Sources, NEW x \in Acls, StageUpload(s, x)
      PROVE  StoreInv' /\ JobInv'
  <2> DEFINE m == [gov |-> GovernanceOf(s), acl |-> x]
             k == [src |-> s, rev |-> nextRev, meta |-> m]
  <2>1. /\ store' = store \cup {k} /\ nextRev' = nextRev + 1
        /\ job' = [step |-> "commit", src |-> s, rev |-> nextRev, staged |-> m,
                    todo |-> {}]
        /\ UNCHANGED active
    BY <1>4 DEF StageUpload, NoJob, manifest
  <2>2. k.rev = nextRev /\ k.src = s /\ k = [src |-> k.src, rev |-> k.rev, meta |-> k.meta]
    OBVIOUS
  <2> HIDE DEF k, m
  <2>3. nextRev \in Nat \ {0}
    BY DEF SyncInv, StoreInv
  <2>4. StoreInv'
    BY <2>1, <2>2, <2>3 DEF SyncInv, StoreInv, IsRecord
  <2>5. JobInv'
    BY <2>1, <2>2, <2>3 DEF JobInv
  <2> QED
    BY <2>4, <2>5
<1>5. CASE CommitUpload
  <2>1. /\ job.step = "commit"
        /\ CommitSource(job.src, job.rev, job.staged)
        /\ job' = [job EXCEPT !.step = "activate"]
        /\ UNCHANGED <<store, nextRev>>
    BY <1>5 DEF CommitUpload
  <2>2. active' = [active EXCEPT ![job.src] = job.rev]
    BY <2>1 DEF CommitSource
  <2>3. \E k \in store : k.rev = job.rev /\ k.src = job.src
    BY <2>1 DEF SyncInv, JobInv
  <2>4. StoreInv'
    BY <2>1, <2>2, <2>3 DEF SyncInv, StoreInv, IsRecord, Shape
  <2>5. job'.step = "activate" /\ job'.src = job.src /\ job'.rev = job.rev /\ job.rev # 0
    BY <2>1 DEF SyncInv, JobInv
  <2>6. JobInv'
    BY <2>1, <2>2, <2>5 DEF SyncInv, JobInv, Shape
  <2> QED
    BY <1>1, <1>3, <2>4, <2>6 DEF SyncInv
<1>6. CASE ActivateChunks
  <2> DEFINE ours == RecordsOf(job.rev)
             Written(k) == [k EXCEPT !.meta = job.staged]
  <2>1. /\ job.step = "activate"
        /\ store' = store \/ store' = (store \ ours) \cup {Written(k) : k \in ours}
        /\ job' = [job EXCEPT !.step = "sweep", !.staged = NoMeta]
        /\ UNCHANGED <<active, nextRev>>
    BY <1>6 DEF ActivateChunks, manifest
  <2>2. \A k \in ours : /\ k \in store
                        /\ Written(k) = [src |-> k.src, rev |-> k.rev, meta |-> job.staged]
    BY DEF SyncInv, StoreInv, IsRecord, RecordsOf
  <2> HIDE DEF ours, Written
  <2>3. \A k \in store' : \E l \in store :
            /\ l.src = k.src /\ l.rev = k.rev
            /\ k = IF store' # store /\ l \in ours THEN Written(l) ELSE l
    BY <2>1, <2>2
  <2>4. \A l \in store : \E k \in store' : l.src = k.src /\ l.rev = k.rev
    BY <2>1, <2>2
  <2>5. StoreInv'
    <3>1. \A k \in store' : IsRecord(k) /\ k.rev < nextRev
      BY <2>2, <2>3 DEF SyncInv, StoreInv, IsRecord
    <3>2. \A k, l \in store' : k.rev = l.rev => k = l
      BY <2>3 DEF SyncInv, StoreInv
    <3>3. \A x \in Sources : active[x] # 0 => \E k \in store' : k.rev = active[x] /\ k.src = x
      BY <2>4 DEF SyncInv, StoreInv
    <3> QED
      BY <2>1, <3>1, <3>2, <3>3 DEF SyncInv, StoreInv
  <2>6. JobInv'
    BY <2>1 DEF SyncInv, JobInv
  <2> QED
    BY <1>1, <1>3, <2>5, <2>6 DEF SyncInv
<1>7. CASE SweepOld
  <2>1. /\ job.step = "sweep"
        /\ store' \in {store, {k \in store : k.src = job.src => k.rev = job.rev}}
        /\ job' = NoJob
        /\ UNCHANGED <<active, nextRev>>
    BY <1>7 DEF SweepOld, manifest
  <2>2. ASSUME NEW s \in Sources, active[s] # 0
        PROVE  \E k \in store' : k.rev = active[s] /\ k.src = s
    BY <2>1, <2>2 DEF SyncInv, StoreInv, JobInv
  <2>3. StoreInv'
    BY <2>1, <2>2 DEF SyncInv, StoreInv, IsRecord
  <2>4. JobInv'
    BY <2>1 DEF JobInv, NoJob
  <2> QED
    BY <1>1, <1>3, <2>3, <2>4 DEF SyncInv
<1> QED
  BY <1>1, <1>3, <1>4, <1>5, <1>6, <1>7 DEF SyncInv

LEMMA DeleteStep ==
    ASSUME SyncInv,
           (\E S \in SUBSET Sources : Delete(S)) \/ Discard \/ Restart
    PROVE  SyncInv'
<1>1. Shape'
  BY StepMoves, DropSourcesMoves DEF SyncInv, Delete, Next, Service
<1>2. ASSUME NEW S \in SUBSET Sources, Delete(S)
      PROVE  SyncInv'
  <2>1. /\ active' = [s \in Sources |-> IF s \in S THEN 0 ELSE active[s]]
        /\ job' = [step |-> "discard", src |-> None, rev |-> 0, staged |-> NoMeta, todo |-> S]
        /\ sync' = Disturbed
        /\ UNCHANGED <<store, nextRev>>
    BY <1>2 DEF Delete, DropSources, NoJob
  <2>2. StoreInv'
    BY <2>1 DEF SyncInv, StoreInv, IsRecord
  <2>3. JobInv'
    BY <2>1 DEF JobInv
  <2> QED
    BY <1>1, <2>1, <2>2, <2>3, Disturbing DEF SyncInv
<1>3. CASE Discard
  <2>1. /\ job.step = "discard"
        /\ store' \in {store, {k \in store : k.src \notin job.todo}}
        /\ job' = NoJob
        /\ sync' = Disturbed
        /\ UNCHANGED <<active, nextRev>>
    BY <1>3 DEF Discard, manifest
  <2>2. ASSUME NEW s \in Sources, active[s] # 0
        PROVE  \E k \in store' : k.rev = active[s] /\ k.src = s
    BY <2>1, <2>2 DEF SyncInv, StoreInv, JobInv
  <2>3. StoreInv'
    BY <2>1, <2>2 DEF SyncInv, StoreInv, IsRecord
  <2>4. JobInv'
    BY <2>1 DEF JobInv, NoJob
  <2> QED
    BY <1>1, <2>1, <2>3, <2>4, Disturbing DEF SyncInv
<1>4. CASE Restart
  <2>1. UNCHANGED <<store, active, meta, sync, config, nextRev>> /\ job' = NoJob
    BY <1>4 DEF Restart, manifest
  <2>2. JobInv' /\ ~Activating'
    BY <2>1 DEF JobInv, NoJob, Activating
  <2> QED
    BY <1>1, <2>1, <2>2, Ignored, StoreUnchanged DEF SyncInv
<1> QED
  BY <1>2, <1>3, <1>4

LEMMA ReviewStep ==
    ASSUME SyncInv, Review
    PROVE  SyncInv'
<1>1. Shape' /\ UNCHANGED <<store, active, meta, nextRev, job>>
  BY DEF SyncInv, Shape, Review, CreateApplication, Approve, BuildCandidate, EditConfig,
     manifest
<1>2. StoreInv' /\ JobInv'
  BY <1>1, StoreUnchanged DEF SyncInv, JobInv
<1>3. sync' = Disturbed \/ UNCHANGED <<sync, config>>
  BY DEF Review, CreateApplication, Approve, BuildCandidate, EditConfig
<1>4. Activating' = Activating
  BY <1>1 DEF Activating
<1> QED
  BY <1>1, <1>2, <1>3, <1>4, Disturbing, Ignored DEF SyncInv

LEMMA StartStep ==
    ASSUME SyncInv, NEW k \in {"governance", "acl"}, StartSync(k)
    PROVE  SyncInv'
<1>1. /\ sync' = [command |-> k, at |-> "next", src |-> None, row |-> NoMeta,
               quiet |-> ~Activating,
                  snap |-> [s \in Sources |-> IF s \in ListedBy(k) THEN active[s] ELSE 0]]
      /\ UNCHANGED <<store, active, meta, generation, nextRev, job, config>>
  BY DEF StartSync, NoSync, manifest
<1>2. Shape' /\ StoreInv' /\ JobInv'
  BY <1>1, StoreUnchanged DEF SyncInv, Shape, JobInv
<1>3. sync'.command = k /\ sync'.at = "next" /\ ListedBy(k)' = ListedBy(k)
      /\ \A s \in Sources : sync'.snap[s] = IF s \in ListedBy(k) THEN active[s] ELSE 0
  BY <1>1 DEF ListedBy
<1>4. SyncShape'
  BY <1>1 DEF SyncShape
<1>5. QuietInv'
  BY <1>1, <1>3 DEF QuietInv, Activating
<1> QED
  BY <1>2, <1>4, <1>5 DEF SyncInv

LEMMA EndStep ==
    ASSUME SyncInv, EndSync
    PROVE  SyncInv'
<1>1. /\ sync' = NoSync
      /\ UNCHANGED <<store, active, meta, generation, nextRev, job>>
  BY DEF EndSync, manifest
<1>2. Shape' /\ StoreInv' /\ JobInv'
  BY <1>1, StoreUnchanged DEF SyncInv, Shape, JobInv
<1>3. SyncShape' /\ QuietInv'
  BY <1>1 DEF SyncShape, QuietInv, NoSync, NothingLeft
<1> QED
  BY <1>2, <1>3 DEF SyncInv

LEMMA UpdateStep ==
    ASSUME SyncInv, NEW s \in Sources, UpdateChunks(s)
    PROVE  SyncInv'
<1> DEFINE ours == RecordsOf(sync.snap[s])
           Updated(k) == [k EXCEPT !.meta = Merged(k.meta, s)]
           New(k) == [src |-> k.src, rev |-> k.rev, meta |-> Merged(k.meta, s)]
<1>1. /\ sync.at = "next" /\ sync.snap[s] # 0
      /\ store' = (store \ ours) \cup {Updated(k) : k \in ours}
      /\ sync' = [sync EXCEPT !.snap[s] = 0,
                              !.at = IF ours = {} THEN "next" ELSE "row",
                              !.src = IF ours = {} THEN None ELSE s,
                              !.row = IF ours = {} THEN NoMeta ELSE RowOf(s)]
      /\ UNCHANGED <<active, meta, generation, nextRev, job, config>>
  BY DEF UpdateChunks, Pending, manifest
<1>2. \A k \in ours : Updated(k) = New(k)
  BY DEF SyncInv, StoreInv, IsRecord, RecordsOf
<1>3. store' = (store \ ours) \cup {New(k) : k \in ours}
  <2> HIDE DEF ours, Updated, New
  <2> QED
    BY <1>1, <1>2
<1>4. \A k \in ours : k \in store /\ k.rev = sync.snap[s]
  BY DEF RecordsOf
<1>5. \A k : New(k).src = k.src /\ New(k).rev = k.rev /\ New(k).meta = Merged(k.meta, s)
  OBVIOUS
<1>6. Shape'
  BY <1>1 DEF SyncInv, Shape
<1> HIDE DEF ours
<1>7. \A k \in store' : \E l \in store :
          /\ l.src = k.src /\ l.rev = k.rev
          /\ k = IF l \in ours THEN New(l) ELSE l
  BY <1>3, <1>4
<1>8. \A l \in store : \E k \in store' : l.src = k.src /\ l.rev = k.rev
  BY <1>3, <1>4, <1>5
<1>9. StoreInv'
  <2>1. \A k \in store' : IsRecord(k) /\ k.rev < nextRev
    BY <1>5, <1>7 DEF SyncInv, StoreInv, IsRecord
  <2>2. \A k, l \in store' : k.rev = l.rev => k = l
    BY <1>7 DEF SyncInv, StoreInv
  <2>3. \A x \in Sources : active[x] # 0 => \E k \in store' : k.rev = active[x] /\ k.src = x
    BY <1>8 DEF SyncInv, StoreInv
  <2> QED
    BY <1>1, <2>1, <2>2, <2>3 DEF SyncInv, StoreInv
<1>10. JobInv'
  BY ZenonT(60), <1>1, <1>8 DEF SyncInv, JobInv
<1> DEFINE none == ours = {}
<1>11. /\ sync'.command = sync.command /\ sync'.quiet = sync.quiet
       /\ sync'.snap = [sync.snap EXCEPT ![s] = 0]
       /\ sync'.at = IF none THEN "next" ELSE "row"
       /\ sync'.src = IF none THEN None ELSE s
       /\ sync'.row = IF none THEN NoMeta ELSE RowOf(s)
  BY <1>1 DEF SyncInv, SyncShape
<1>12. SyncShape'
  <2>1. sync' = [command |-> sync'.command, at |-> sync'.at, snap |-> sync'.snap,
                 src |-> sync'.src, row |-> sync'.row, quiet |-> sync'.quiet]
    BY <1>1 DEF SyncInv, SyncShape
  <2>2. sync'.snap = [x \in Sources |-> sync'.snap[x]]
    BY <1>11 DEF SyncInv, SyncShape
  <2> QED
    BY <2>1, <2>2 DEF SyncShape
<1>13. QuietInv'
  <2> SUFFICES ASSUME sync.quiet
               PROVE  QuietInv'
    BY <1>11 DEF QuietInv
  <2>1. active[s] = sync.snap[s] /\ active[s] # 0
    BY <1>1 DEF SyncInv, QuietInv
  <2>2. ~none
    BY <2>1 DEF SyncInv, StoreInv, ours, RecordsOf
  <2>3. \A x : RowOf(x)' = RowOf(x) /\ GovernanceOf(x)' = GovernanceOf(x)
             /\ ListedBy(x)' = ListedBy(x)
    BY <1>1, <1>11 DEF RowOf, GovernanceOf, ListedBy
  <2>4. ChunksAgree(s)'
    <3> SUFFICES ASSUME NEW k \in store', k.rev = active[s]
                 PROVE  /\ k.meta.gov = GovernanceOf(s)
                        /\ sync.command = "acl" => k.meta = RowOf(s)
      BY <1>1, <1>11, <2>3 DEF ChunksAgree, RecordsOf
    <3>1. PICK l \in store : l.rev = k.rev /\ k = IF l \in ours THEN New(l) ELSE l
      BY <1>7
    <3>2. l \in ours
      BY <2>1, <3>1 DEF ours, RecordsOf
    <3>3. k.meta = Merged(l.meta, s)
      BY <3>1, <3>2
    <3> QED
      BY <3>3 DEF Merged, RowOf
  <2>5. ASSUME NEW x \in Sources, x # s, active[x] # 0, ChunksAgree(x)
        PROVE  ChunksAgree(x)'
    <3> SUFFICES ASSUME NEW k \in store', k.rev = active[x]
                 PROVE  /\ k.meta.gov = GovernanceOf(x)
                        /\ sync.command = "acl" => k.meta = RowOf(x)
      BY <1>1, <1>11, <2>3 DEF ChunksAgree, RecordsOf
    <3>1. PICK l \in store : l.rev = k.rev /\ k = IF l \in ours THEN New(l) ELSE l
      BY <1>7
    <3>2. active[x] # active[s]
      BY <2>1, <2>5 DEF SyncInv, StoreInv
    <3>3. l \notin ours
      BY <1>4, <2>1, <3>1, <3>2
    <3> QED
      BY <2>5, <3>1, <3>3 DEF ChunksAgree, RecordsOf
  <2>6. \A x \in Sources : sync'.snap[x] # 0 => x # s /\ active'[x] = sync'.snap[x]
    BY <1>1, <1>11 DEF SyncInv, SyncShape, QuietInv
  <2>7. sync'.at = "row" /\ sync'.src = s /\ sync'.row = RowOf(s)
    BY <1>11, <2>2
  <2>8. ASSUME NEW x \in ListedBy(sync.command) \cap Sources,
               active[x] # 0, sync'.snap[x] = 0
        PROVE  ChunksAgree(x)' /\ (meta[x] = RowOf(x) \/ x = s)
    <3>1. CASE x = s
      BY <2>4, <3>1
    <3>2. CASE x # s
      <4>1. sync.snap[x] = 0
        BY <1>11, <2>8, <3>2 DEF SyncInv, SyncShape
      <4>2. ChunksAgree(x) /\ meta[x] = RowOf(x)
        BY <1>1, <2>8, <4>1 DEF SyncInv, QuietInv
      <4> QED
        BY <2>5, <2>8, <3>2, <4>2
    <3> QED
      BY <3>1, <3>2
  <2> QED
    BY <1>1, <1>11, <2>3, <2>4, <2>6, <2>7, <2>8 DEF SyncInv, QuietInv, Activating
<1> QED
  BY <1>6, <1>9, <1>10, <1>12, <1>13 DEF SyncInv

LEMMA RowStep ==
    ASSUME SyncInv, WriteRow
    PROVE  SyncInv'
<1>1. /\ sync.at = "row"
      /\ meta' = [meta EXCEPT ![sync.src] = sync.row]
      /\ sync' = [sync EXCEPT !.at = "next", !.src = None, !.row = NoMeta]
      /\ UNCHANGED <<active, store, nextRev, job, config>>
  BY DEF WriteRow, SetMetadata
<1>2. Shape'
  BY SetMetadataMoves DEF SyncInv, WriteRow
<1>3. StoreInv' /\ JobInv'
  BY <1>1, StoreUnchanged DEF SyncInv, JobInv
<1>4. /\ sync'.command = sync.command /\ sync'.quiet = sync.quiet
      /\ sync'.snap = sync.snap /\ sync'.at = "next"
      /\ sync' = [command |-> sync'.command, at |-> sync'.at, snap |-> sync'.snap,
                  src |-> sync'.src, row |-> sync'.row, quiet |-> sync'.quiet]
  BY <1>1 DEF SyncInv, SyncShape
<1>5. \A x : /\ RowOf(x)' = RowOf(x)
             /\ ChunksAgree(x)' = ChunksAgree(x)
             /\ ListedBy(x)' = ListedBy(x)
  BY <1>1, <1>4 DEF RowOf, ChunksAgree, ListedBy, GovernanceOf, RecordsOf
<1>6. QuietInv'
  <2> SUFFICES ASSUME sync.quiet
               PROVE  QuietInv'
    BY <1>4 DEF QuietInv
  <2>1. sync.src \in Sources /\ sync.row = RowOf(sync.src)
    BY <1>1 DEF SyncInv, QuietInv
  <2>2. \A x \in Sources : meta'[x] = IF x = sync.src THEN RowOf(x) ELSE meta[x]
    BY <1>1, <2>1 DEF SyncInv, Shape
  <2> QED
    BY <1>1, <1>4, <1>5, <2>1, <2>2 DEF SyncInv, QuietInv, Activating
<1> QED
  BY <1>2, <1>3, <1>4, <1>6 DEF SyncInv, SyncShape

LEMMA SyncNext == SyncInv /\ [Next]_vars => SyncInv'
<1> SUFFICES ASSUME SyncInv, [Next]_vars
             PROVE  SyncInv'
  OBVIOUS
<1>1. CASE Service
  <2>1. \A s \in Sources : {s} \in SUBSET Sources
    OBVIOUS
  <2> QED
    BY <1>1, <2>1, MigrationStep, UploadStep, DeleteStep DEF Service
<1>2. CASE SyncStep
  BY <1>2, StartStep, UpdateStep, RowStep, EndStep DEF SyncStep
<1>3. CASE Review
  BY <1>3, ReviewStep
<1>4. CASE UNCHANGED vars
  <2>1. UNCHANGED <<store, active, meta, generation, nextRev, job, sync, config>>
    BY <1>4 DEF vars
  <2>2. Activating' = Activating
    BY <2>1 DEF Activating
  <2> QED
    BY <2>1, <2>2, Ignored, StoreUnchanged DEF SyncInv, Shape, JobInv
<1> QED
  BY <1>1, <1>2, <1>3, <1>4 DEF Next

LEMMA FilesNext == FilesInv /\ [Next]_vars => FilesInv'
<1> SUFFICES ASSUME FilesInv, [Next]_vars
             PROVE  FilesInv'
  OBVIOUS
<1>1. ASSUME UNCHANGED <<config, candidate>>
      PROVE  FilesInv'
  BY <1>1 DEF FilesInv
<1>2. CASE Service
  BY <1>1, <1>2 DEF Service, BeginMigration, MigrateSource, EndMigration, StageUpload,
     CommitUpload, ActivateChunks, SweepOld, Delete, Discard, Restart, workflow
<1>3. CASE SyncStep
  BY <1>1, <1>3 DEF SyncStep, StartSync, UpdateChunks, WriteRow, EndSync, workflow
<1>4. CASE BuildCandidate
  <2>1. DOMAIN CandidateOf(config, application).docs = DOMAIN config.docs
    BY DEF CandidateOf
  <2> QED
    BY <1>4, <2>1 DEF BuildCandidate, FilesInv
<1>5. CASE EditConfig
  BY <1>5, MetadataConstants DEF EditConfig, FilesInv, workflow
<1>6. CASE (\E p \in Proposals : CreateApplication(p))
           \/ \E role \in {"hr", "legal"}, q \in Approvers : Approve(role, q)
  BY <1>1, <1>6 DEF CreateApplication, Approve
<1>7. CASE UNCHANGED vars
  BY <1>1, <1>7 DEF vars
<1> QED
  BY <1>2, <1>3, <1>4, <1>5, <1>6, <1>7 DEF Next, Review

\* At the end of a sync that ran alone, row and chunks of every active source it
\* lists carry the governance of the file, and with the ACL sync they are equal.
THEOREM Agreement == Spec => []QuietSyncAgrees
<1>1. SyncInv /\ FilesInv => QuietSyncAgrees
  <2> SUFFICES ASSUME SyncInv, FilesInv, sync.at = "next", sync.snap = NothingLeft, sync.quiet,
                      NEW s \in ListedBy(sync.command), Active(s)
               PROVE  /\ meta[s] = RowOf(s)
                      /\ \A k \in RecordsOf(active[s]) :
                            /\ k.meta.gov = GovernanceOf(s)
                            /\ sync.command = "acl" => k.meta = meta[s]
    BY DEF QuietSyncAgrees, SyncInv, QuietInv
  <2>1. s \in Sources
    BY MetadataConstants DEF FilesInv, ListedBy
  <2>2. sync.snap[s] = 0
    BY <2>1 DEF NothingLeft
  <2> QED
    BY <2>1, <2>2 DEF SyncInv, QuietInv, ChunksAgree, Active
<1>2. Init => FilesInv
  BY MetadataConstants DEF Init, FilesInv
<1> QED
  BY <1>1, <1>2, SyncInit, SyncNext, FilesNext, PTL DEF Spec
=============================================================================
