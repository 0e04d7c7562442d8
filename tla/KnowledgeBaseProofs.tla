------------------------- MODULE KnowledgeBaseProofs -------------------------
(***************************************************************************)
(* Theorems about KnowledgeBase, for any number of threads, sources,       *)
(* actors, revisions, syncs and restarts: its types; the inductive         *)
(* invariant and what follows from it (exclusion at the gate, completeness *)
(* of what is visible, freshness of the keyword index); and what its steps *)
(* promise (authorisation, readability, refinement of Corpus).             *)
(*                                                                         *)
(* The type invariant is proved in four groups, one SMT-friendly part each *)
(* (the provers mix Boolean-valued variables badly with the rest).         *)
(***************************************************************************)
EXTENDS KnowledgeBase, TLAPS, FiniteSetTheorems

USE KBConstants
-----------------------------------------------------------------------------
(***************************************************************************)
(* Types.                                                                  *)
(***************************************************************************)

TypeFlags ==
    /\ dirty \in BOOLEAN
    /\ batchMutated \in BOOLEAN
    /\ destructive \in BOOLEAN

TypeStore ==
    /\ chunks \subseteq Chunk
    /\ bm25 \subseteq Chunk
    /\ manifest \in [Sources -> Row]
    /\ generation \in Nat
    /\ since \in 0..generation
    /\ nextRev \in 1..(MaxRev + 1)
    /\ lost \subseteq RevIds
    /\ unindexed \subseteq RevIds

TypeControl ==
    /\ depth \in Nat
    /\ mutex \in Threads \cup {None}
    /\ vlock \in Threads \cup {None}
    /\ pc \in [Threads -> Labels]
    /\ batch \in [Threads -> {"out", "clean", "mutated"}]
    /\ crashes \in 0..MaxCrashes
    /\ syncs \in 0..MaxSyncs

TypeLocals ==
    /\ job \in [Threads -> Job]
    /\ answers \in [Threads -> Answer]

\* What a thread inside add_document_to_kb or a deletion works on.
Adding == AddSteps \cup {"addWait"}
Deleting == {"deleteWait", "deleteCheck", "deleteCommit", "deletePhysical"}
Revised == {"staging", "commit", "sweep", "addDone", "rollback"}

JobInv ==
    \A t \in Threads :
        /\ pc[t] \in Adding =>
              /\ job[t].actor \in Actors
              /\ job[t].src \in Sources
              /\ job[t].content \in Contents
              /\ job[t].meta \in Metas
        /\ pc[t] \in Deleting => job[t].actor \in Actors /\ job[t].src \in Sources
        /\ pc[t] \in Revised => job[t].rev \in 1..(nextRev - 1)
        /\ pc[t] \in SearchSteps \cup {"searchWait"} => job[t].actor \in Actors

LEMMA TypeGroups == TypeOK <=> TypeFlags /\ TypeStore /\ TypeControl /\ TypeLocals
<1>1. TypeOK => TypeFlags
  BY DEF TypeOK, TypeFlags
<1>2. TypeOK => TypeStore /\ TypeControl /\ TypeLocals
  BY DEF TypeOK, TypeStore, TypeControl, TypeLocals
<1>3. TypeFlags /\ TypeStore /\ TypeControl /\ TypeLocals => TypeOK
  BY Zenon DEF TypeOK, TypeFlags, TypeStore, TypeControl, TypeLocals
<1>4. QED
  BY <1>1, <1>2, <1>3

LEMMA NoRowType == NoRow \in Row
  BY DEF NoRow, Row

LEMMA NoRowsType == NoRows \in [Sources -> Row]
  BY NoRowType DEF NoRows

LEMMA NoJobType == NoJob \in Job
  BY NoRowsType DEF NoJob, NewJob, Job

LEMMA NoAnswerType == NoAnswer \in Answer
  BY DEF NoAnswer, Answer

LEMMA InitType == Init => TypeFlags /\ TypeStore /\ TypeControl /\ TypeLocals /\ JobInv
<1> SUFFICES ASSUME Init
             PROVE  TypeFlags /\ TypeStore /\ TypeControl /\ TypeLocals /\ JobInv
  OBVIOUS
<1>1. TypeFlags
  BY DEF Init, TypeFlags
<1>2. TypeStore
  BY NoRowsType DEF Init, TypeStore
<1>3. TypeControl
  BY DEF Init, TypeControl, Labels
<1>4. TypeLocals
  BY NoJobType, NoAnswerType DEF Init, TypeLocals
<1>5. JobInv
  BY DEF Init, JobInv, Adding, AddSteps, Deleting, Revised, SearchSteps
<1>6. QED
  BY <1>1, <1>2, <1>3, <1>4, <1>5
-----------------------------------------------------------------------------
\* The flags stay Boolean.
LEMMA FlagsStep == TypeFlags /\ [Next]_vars => TypeFlags'
<1> SUFFICES ASSUME TypeFlags, [Next]_vars PROVE TypeFlags'
  OBVIOUS
<1> USE DEF TypeFlags, index, gate
<1>1. CASE UNCHANGED vars
  BY <1>1 DEF vars
<1>2. CASE Restart
  BY <1>2 DEF Restart
<1>3. ASSUME NEW t \in Threads, Call(t) PROVE TypeFlags'
  BY <1>3 DEF Call, Request, AddDocument
<1>4. ASSUME NEW t \in Threads, AddStep(t) PROVE TypeFlags'
  BY <1>4 DEF AddStep, AddNothing, StartRevision, StagePart, VerifyStaged,
     CommitSource, SweepObsolete, AddDone, RollbackAdd, LeaveAdd, Advance, RefreshIndex,
     Reindex
<1>5. ASSUME NEW t \in Threads, DestroyStep(t) PROVE TypeFlags'
  BY <1>5 DEF DestroyStep, DeleteRefused, DeleteCheck, DeleteCommit, DeletePhysical,
     ClearCommit, ClearPhysical, RefreshAfterDestroy, RebuildDrop, RebuildClear,
     RebuildOpen, EndDestructive, LeaveDestroy, Advance, RefreshIndex, Reindex
<1>6. ASSUME NEW t \in Threads, SearchStep(t) PROVE TypeFlags'
  BY <1>6 DEF SearchStep, Snapshot, Filter, EnsureIndex, SearchFails, Query, DropAnswer,
     LeaveSearch, Advance, IndexActive, Reindex
<1>7. ASSUME NEW t \in Threads, EnterVector(t) \/ FinalizeRefresh(t) \/ FinalizeBatch(t)
      PROVE  TypeFlags'
  BY <1>7 DEF EnterVector, FinalizeRefresh, FinalizeBatch, RefreshIndex, Reindex
<1>8. ASSUME NEW t \in Threads, PassGate(t) PROVE TypeFlags'
  BY <1>8 DEF PassGate, BeginBatch, BeginDestructive, BeginSearch, Refuse
<1>9. ASSUME NEW s \in Sources, MetadataSynced(s) PROVE TypeFlags'
  BY <1>9 DEF MetadataSynced
<1>10. QED
  BY <1>1, <1>2, <1>3, <1>4, <1>5, <1>6, <1>7, <1>8, <1>9 DEF Next, Proceed
-----------------------------------------------------------------------------
(***************************************************************************)
(* The store: what the collection, the manifest and the index hold.        *)
(***************************************************************************)

LEMMA StoredType == TypeStore => \A R : StoredOf(R) \subseteq Chunk
  BY DEF TypeStore, StoredOf

LEMMA RevsType == TypeStore => \A S \in SUBSET Sources : RevsOf(S) \subseteq RevIds
<1> SUFFICES ASSUME TypeStore, NEW S \in SUBSET Sources, NEW r \in RevsOf(S)
             PROVE  r \in RevIds
  OBVIOUS
<1>1. PICK s \in Sources : s \in S /\ manifest[s].rev # 0 /\ r = manifest[s].rev
  BY DEF RevsOf, Active
<1>2. QED
  BY <1>1 DEF TypeStore, Row, RevIds

LEMMA ReindexType ==
  ASSUME TypeStore, Reindex
  PROVE  bm25' \subseteq Chunk /\ unindexed' \subseteq RevIds
BY StoredType, RevsType DEF Reindex, ActiveRevs

LEMMA RefreshType ==
  ASSUME TypeStore, RefreshIndex
  PROVE  bm25' \subseteq Chunk /\ unindexed' \subseteq RevIds
BY ReindexType DEF RefreshIndex, TypeStore

\* What every change of the rows does to their type.
LEMMA PublishType ==
  ASSUME TypeStore, NEW rows \in [Sources -> Row], Publish(rows)
  PROVE  /\ manifest' \in [Sources -> Row]
         /\ generation' \in Nat
         /\ since' \in 0..generation'
BY DEF Publish, TypeStore

LEMMA ClearType ==
  ASSUME TypeStore, ClearManifest
  PROVE  /\ manifest' \in [Sources -> Row]
         /\ generation' \in Nat
         /\ since' \in 0..generation'
BY PublishType, NoRowsType DEF ClearManifest, TypeStore

\* One more written chunk is a chunk.
LEMMA NextChunkType ==
  ASSUME NEW t \in Threads, TypeStore, TypeControl, TypeLocals, JobInv,
         pc[t] = "staging", NextPart(job[t]) <= PartsOf[job[t].content]
  PROVE  NextChunk(job[t]) \in Chunk
<1> DEFINE j == job[t]
<1>1. j.src \in Sources /\ j.content \in Contents /\ j.rev \in 1..(nextRev - 1)
  BY DEF JobInv, Adding, AddSteps, Revised
<1>2. nextRev \in 1..(MaxRev + 1)
  BY DEF TypeStore
<1>3. j.rev \in RevIds
  BY <1>1, <1>2 DEF RevIds
<1>4. j.acked \in Nat
  BY DEF TypeLocals, Job
<1>5. PartsOf[j.content] \in Nat
  BY <1>1
<1>6. NextPart(j) \in PartNumbers
  BY <1>1, <1>4, <1>5 DEF PartNumbers, NextPart
<1>7. QED
  BY <1>1, <1>3, <1>6 DEF NextChunk, Chunk

LEMMA StoreStep ==
  ASSUME TypeStore, TypeControl, TypeLocals, JobInv, [Next]_vars
  PROVE  TypeStore'
<1> USE DEF TypeStore, durable, index, gate
<1>1. CASE UNCHANGED vars
  BY <1>1 DEF vars
<1>2. CASE Restart
  BY <1>2 DEF Restart
<1>3. ASSUME NEW t \in Threads, Call(t) PROVE TypeStore'
  BY <1>3 DEF Call, Request, AddDocument
<1>4. ASSUME NEW t \in Threads, AddStep(t) PROVE TypeStore'
  <2>1. CASE AddNothing(t)
    BY <2>1 DEF AddNothing
  <2>2. CASE StartRevision(t)
    BY <2>2 DEF StartRevision
  <2>3. CASE StagePart(t)
    <3>1. NextChunk(job[t]) \in Chunk
      BY <2>3, NextChunkType DEF StagePart
    <3>2. QED
      BY <2>3, <3>1 DEF StagePart
  <2>4. CASE VerifyStaged(t)
    BY <2>4 DEF VerifyStaged
  <2>5. CASE CommitSource(t)
    <3> DEFINE row == [rev |-> job[t].rev, content |-> job[t].content, meta |-> job[t].meta]
               rows == [manifest EXCEPT ![job[t].src] = row]
    <3>1. job[t].rev \in 0..MaxRev /\ job[t].content \in Contents /\ job[t].meta \in Metas
      BY <2>5 DEF CommitSource, JobInv, Adding, AddSteps, TypeLocals, Job
    <3>2. row \in Row
      BY <3>1 DEF Row
    <3>3. rows \in [Sources -> Row]
      BY <3>2
    <3>4. /\ manifest' \in [Sources -> Row]
          /\ generation' \in Nat
          /\ since' \in 0..generation'
      <4>1. Publish(rows) \/ UNCHANGED <<manifest, generation, since>>
        BY <2>5 DEF CommitSource
      <4> HIDE DEF row, rows
      <4>2. QED
        BY <3>3, <4>1, PublishType
    <3>5. QED
      BY <2>5, <3>4 DEF CommitSource
  <2>6. CASE SweepObsolete(t)
    BY <2>6 DEF SweepObsolete, Obsolete
  <2>7. CASE AddDone(t)
    <3>1. bm25' \subseteq Chunk /\ unindexed' \subseteq RevIds
      BY <2>7, RefreshType DEF AddDone
    <3>2. QED
      BY <2>7, <3>1 DEF AddDone
  <2>8. CASE RollbackAdd(t)
    <3>1. ActiveRevs \subseteq RevIds
      BY RevsType DEF ActiveRevs
    <3>2. QED
      BY <2>8, <3>1 DEF RollbackAdd, AddedChunks
  <2>9. QED
    BY <1>4, <2>1, <2>2, <2>3, <2>4, <2>5, <2>6, <2>7, <2>8 DEF AddStep
<1>5. ASSUME NEW t \in Threads, DestroyStep(t) PROVE TypeStore'
  <2>1. CASE DeleteRefused(t) \/ DeleteCheck(t) \/ EndDestructive(t)
    BY <2>1 DEF DeleteRefused, DeleteCheck, EndDestructive
  <2>2. CASE DeleteCommit(t)
    <3> DEFINE rows == [manifest EXCEPT ![job[t].src] = NoRow]
    <3>1. rows \in [Sources -> Row]
      BY NoRowType
    <3>2. Publish(rows) \/ UNCHANGED <<manifest, generation, since>>
      BY <2>2 DEF DeleteCommit
    <3> HIDE DEF rows
    <3>3. /\ manifest' \in [Sources -> Row]
          /\ generation' \in Nat
          /\ since' \in 0..generation'
      BY <3>1, <3>2, PublishType
    <3>4. QED
      BY <2>2, <3>3 DEF DeleteCommit
  <2>3. CASE DeletePhysical(t) \/ ClearPhysical(t)
    BY <2>3 DEF DeletePhysical, ClearPhysical
  <2>4. CASE ClearCommit(t)
    <3>1. /\ manifest' \in [Sources -> Row]
          /\ generation' \in Nat
          /\ since' \in 0..generation'
      BY <2>4, ClearType DEF ClearCommit
    <3>2. QED
      BY <2>4, <3>1 DEF ClearCommit
  <2>5. CASE RebuildClear(t)
    <3>1. /\ manifest' \in [Sources -> Row]
          /\ generation' \in Nat
          /\ since' \in 0..generation'
      BY <2>5, ClearType DEF RebuildClear
    <3>2. QED
      BY <2>5, <3>1 DEF RebuildClear
  <2>6. CASE RefreshAfterDestroy(t)
    <3>1. bm25' \subseteq Chunk /\ unindexed' \subseteq RevIds
      BY <2>6, RefreshType DEF RefreshAfterDestroy
    <3>2. QED
      BY <2>6, <3>1 DEF RefreshAfterDestroy
  <2>7. CASE RebuildDrop(t)
    <3>1. ActiveRevs \subseteq RevIds
      BY RevsType DEF ActiveRevs
    <3>2. QED
      BY <2>7, <3>1 DEF RebuildDrop
  <2>8. CASE RebuildOpen(t)
    BY <2>8 DEF RebuildOpen
  <2>9. QED
    BY <1>5, <2>1, <2>2, <2>3, <2>4, <2>5, <2>6, <2>7, <2>8 DEF DestroyStep
<1>6. ASSUME NEW t \in Threads, SearchStep(t) PROVE TypeStore'
  <2>1. CASE EnsureIndex(t)
    <3>1. bm25' \subseteq Chunk /\ unindexed' \subseteq RevIds
      BY <2>1, ReindexType DEF EnsureIndex, IndexActive
    <3>2. QED
      BY <2>1, <3>1 DEF EnsureIndex
  <2>2. CASE ~EnsureIndex(t)
    BY <1>6, <2>2 DEF SearchStep, Snapshot, Filter, SearchFails, Query, DropAnswer,
       LeaveSearch
  <2>3. QED
    BY <2>1, <2>2
<1>7. ASSUME NEW t \in Threads, FinalizeRefresh(t) PROVE TypeStore'
  <2>1. bm25' \subseteq Chunk /\ unindexed' \subseteq RevIds
    BY <1>7, RefreshType DEF FinalizeRefresh
  <2>2. QED
    BY <1>7, <2>1 DEF FinalizeRefresh
<1>8. ASSUME NEW t \in Threads, EnterVector(t) \/ FinalizeBatch(t) PROVE TypeStore'
  BY <1>8 DEF EnterVector, FinalizeBatch
<1>9. ASSUME NEW t \in Threads, PassGate(t) PROVE TypeStore'
  BY <1>9 DEF PassGate, BeginBatch, BeginDestructive, BeginSearch, Refuse
<1>10. ASSUME NEW s \in Sources, MetadataSynced(s) PROVE TypeStore'
  <2>1. manifest' \in [Sources -> Row]
    BY <1>10 DEF MetadataSynced, Row
  <2>2. QED
    BY <1>10, <2>1 DEF MetadataSynced
<1>11. QED
  BY <1>1, <1>2, <1>3, <1>4, <1>5, <1>6, <1>7, <1>8, <1>9, <1>10 DEF Next, Proceed
-----------------------------------------------------------------------------
(***************************************************************************)
(* Control: locks, counters, where each thread stands.                     *)
(***************************************************************************)

\* A destructive call starts at one of its three entrances.
LEMMA DestructiveEntry ==
  ASSUME NEW t \in Threads, BeginDestructive(t)
  PROVE  \E l \in {"deleteWait", "clearWait", "rebuildWait"} :
            pc' = [pc EXCEPT ![t] = l]
<1>1. CASE Goto(t, "deleteWait")
  BY <1>1 DEF Goto
<1>2. CASE pc' \in {[pc EXCEPT ![t] = l] : l \in {"clearWait", "rebuildWait"}}
  BY <1>2
<1>3. QED
  BY <1>1, <1>2 DEF BeginDestructive

LEMMA ControlStep ==
  ASSUME TypeStore, TypeControl, [Next]_vars
  PROVE  TypeControl'
<1> USE DEF TypeControl, gate, Goto, Labels, Waiting, VectorSteps, AddSteps,
            DestroySteps, SearchSteps, AtGate
<1>1. CASE UNCHANGED vars
  BY <1>1 DEF vars
<1>2. CASE Restart
  BY <1>2 DEF Restart, durable
<1>3. ASSUME NEW t \in Threads, Call(t) PROVE TypeControl'
  <2>1. CASE Request(t)
    BY <2>1 DEF Request, AtGate, durable
  <2>2. CASE AddDocument(t)
    BY <2>2 DEF AddDocument, durable
  <2>3. QED
    BY <1>3, <2>1, <2>2 DEF Call
<1>4. ASSUME NEW t \in Threads, AddStep(t) PROVE TypeControl'
  <2>1. CASE AddNothing(t)
    BY <2>1 DEF AddNothing, LeaveAdd, durable
  <2>2. CASE StartRevision(t) \/ StagePart(t) \/ VerifyStaged(t)
    BY <2>2 DEF StartRevision, StagePart, VerifyStaged, Advance, durable
  <2>3. CASE CommitSource(t) \/ SweepObsolete(t)
    BY <2>3 DEF CommitSource, SweepObsolete, Advance
  <2>4. CASE AddDone(t) \/ RollbackAdd(t)
    BY <2>4 DEF AddDone, RollbackAdd, LeaveAdd, durable
  <2>5. QED
    BY <1>4, <2>1, <2>2, <2>3, <2>4 DEF AddStep
<1>5. ASSUME NEW t \in Threads, DestroyStep(t) PROVE TypeControl'
  BY <1>5 DEF DestroyStep, DeleteRefused, DeleteCheck, DeleteCommit, DeletePhysical,
     ClearCommit, ClearPhysical, RefreshAfterDestroy, RebuildDrop, RebuildClear,
     RebuildOpen, EndDestructive, LeaveDestroy, Advance, durable
<1>6. ASSUME NEW t \in Threads, SearchStep(t) PROVE TypeControl'
  BY <1>6 DEF SearchStep, Snapshot, Filter, EnsureIndex, SearchFails, Query, DropAnswer,
     LeaveSearch, Advance, durable
<1>7. ASSUME NEW t \in Threads, EnterVector(t) PROVE TypeControl'
  BY <1>7 DEF EnterVector, Inside, durable
<1>8. ASSUME NEW t \in Threads, FinalizeRefresh(t) PROVE TypeControl'
  BY <1>8 DEF FinalizeRefresh, durable
<1>9. ASSUME NEW t \in Threads, FinalizeBatch(t) PROVE TypeControl'
  BY <1>9 DEF FinalizeBatch, durable
<1>10. ASSUME NEW t \in Threads, PassGate(t) PROVE TypeControl'
  <2>1. CASE BeginBatch(t)
    BY <2>1 DEF BeginBatch, durable
  <2>2. CASE BeginSearch(t) \/ Refuse(t)
    BY <2>2 DEF BeginSearch, Refuse, durable
  <2>3. CASE BeginDestructive(t)
    <3>1. pc' \in [Threads -> Labels]
      BY <2>3, DestructiveEntry
    <3>2. UNCHANGED <<depth, mutex, vlock, batch, crashes, syncs>>
      BY <2>3 DEF BeginDestructive, durable
    <3>3. QED
      BY <3>1, <3>2
  <2>4. QED
    BY <1>10, <2>1, <2>2, <2>3 DEF PassGate
<1>11. ASSUME NEW s \in Sources, MetadataSynced(s) PROVE TypeControl'
  BY <1>11 DEF MetadataSynced
<1>12. QED
  BY <1>1, <1>2, <1>3, <1>4, <1>5, <1>6, <1>7, <1>8, <1>9, <1>10, <1>11 DEF Next, Proceed
-----------------------------------------------------------------------------
(***************************************************************************)
(* Locals: what each call works on.                                        *)
(***************************************************************************)

LEMMA RowOfType ==
  ASSUME TypeStore, NEW s \in Sources
  PROVE  RowOf(s) \in [Sources -> Row]
BY NoRowsType DEF RowOf, TypeStore

LEMMA LocalsStep ==
  ASSUME TypeStore, TypeControl, TypeLocals, JobInv, [Next]_vars
  PROVE  TypeLocals'
<1> USE NoJobType, NoAnswerType DEF TypeLocals
<1>1. CASE UNCHANGED vars
  BY <1>1 DEF vars
<1>2. CASE Restart
  BY <1>2 DEF Restart
<1>3. ASSUME NEW t \in Threads, Call(t) PROVE TypeLocals'
  <2>1. CASE Request(t)
    BY <2>1 DEF Request
  <2>2. CASE AddDocument(t)
    BY <2>2, NoRowsType DEF AddDocument, NewJob, Job, InBatch
  <2>3. QED
    BY <1>3, <2>1, <2>2 DEF Call
<1>4. ASSUME NEW t \in Threads, AddStep(t) PROVE TypeLocals'
  <2>1. CASE AddNothing(t) \/ AddDone(t) \/ RollbackAdd(t)
    BY <2>1 DEF AddNothing, AddDone, RollbackAdd, LeaveAdd
  <2>2. CASE StartRevision(t)
    <3>1. nextRev \in 0..MaxRev
      BY <2>2 DEF StartRevision, TypeStore
    <3>2. job' = [job EXCEPT ![t].rev = nextRev, ![t].seen = RowOf(job[t].src)]
      BY <2>2 DEF StartRevision
    <3>3. UNCHANGED answers
      BY <2>2 DEF StartRevision, Advance
    <3>4. RowOf(job[t].src) \in [Sources -> Row]
      BY <2>2, RowOfType DEF StartRevision, JobInv, Adding, AddSteps
    <3>5. QED
      BY ZenonT(60), <3>1, <3>2, <3>3, <3>4 DEF Job
  <2>3. CASE StagePart(t)
    <3>1. \/ job' = [job EXCEPT ![t].acked = NextPart(job[t])]
          \/ UNCHANGED job
      BY <2>3 DEF StagePart
    <3>2. UNCHANGED answers
      BY <2>3 DEF StagePart, Advance
    <3>3. job[t].acked \in Nat
      BY DEF Job
    <3>4. NextPart(job[t]) \in Nat
      BY <3>3 DEF NextPart
    <3>5. [job[t] EXCEPT !.acked = NextPart(job[t])] \in Job
      BY <3>4 DEF Job
    <3>6. QED
      BY <3>1, <3>2, <3>5
  <2>4. CASE VerifyStaged(t) \/ CommitSource(t) \/ SweepObsolete(t)
    BY <2>4 DEF VerifyStaged, CommitSource, SweepObsolete, Advance
  <2>5. QED
    BY <1>4, <2>1, <2>2, <2>3, <2>4 DEF AddStep
<1>5. ASSUME NEW t \in Threads, DestroyStep(t) PROVE TypeLocals'
  <2>1. CASE DeleteCheck(t)
    <3>1. manifest[job[t].src].rev \in 0..MaxRev
      BY <2>1 DEF DeleteCheck, JobInv, Deleting, TypeStore, Row
    <3>2. RowOf(job[t].src) \in [Sources -> Row]
      BY <2>1, RowOfType DEF DeleteCheck, JobInv, Deleting
    <3>3. QED
      BY ZenonT(60), <2>1, <3>1, <3>2 DEF DeleteCheck, Advance, Job
  <2>2. CASE ClearCommit(t)
    <3>1. CASE job' = [job EXCEPT ![t].refresh = AnyActive] /\ Advance(t, "clearPhysical")
      BY ZenonT(60), <3>1 DEF Advance, Job, AnyActive
    <3>2. CASE LeaveDestroy(t)
      BY <3>2 DEF LeaveDestroy
    <3>3. QED
      BY <2>2, <3>1, <3>2 DEF ClearCommit
  <2>3. CASE DeleteRefused(t) \/ DeleteCommit(t) \/ DeletePhysical(t) \/ ClearPhysical(t)
             \/ RefreshAfterDestroy(t) \/ RebuildDrop(t) \/ RebuildClear(t)
    BY <2>3 DEF DeleteRefused, DeleteCommit, DeletePhysical, ClearPhysical,
       RefreshAfterDestroy, RebuildDrop, RebuildClear, LeaveDestroy, Advance
  <2>4. CASE RebuildOpen(t) \/ EndDestructive(t)
    BY <2>4 DEF RebuildOpen, EndDestructive
  <2>5. QED
    BY <1>5, <2>1, <2>2, <2>3, <2>4 DEF DestroyStep
<1>6. ASSUME NEW t \in Threads, SearchStep(t) PROVE TypeLocals'
  <2>1. CASE Filter(t)
    <3> DEFINE revs == VisibleTo(job[t].actor)
    <3>1. revs \subseteq RevIds
      BY RevsType DEF VisibleTo, RetrievableSources
    <3>2. manifest \in [Sources -> Row]
      BY DEF TypeStore
    <3>3. CASE revs = {}
      <4>1. answers' = [answers EXCEPT ![t] = [gen |-> job[t].gen, hits |-> {}]]
        BY <2>1, <3>3 DEF Filter, LeaveSearch
      <4>2. job' = [job EXCEPT ![t] = NoJob]
        BY <2>1, <3>3 DEF Filter, LeaveSearch
      <4>3. job[t].gen \in Nat
        BY DEF Job
      <4>4. QED
        BY <4>1, <4>2, <4>3 DEF Answer
    <3>4. CASE revs # {}
      <4>1. job' = [job EXCEPT ![t].revs = revs, ![t].seen = manifest]
        BY <2>1, <3>4 DEF Filter
      <4>2. UNCHANGED answers
        BY <2>1, <3>4 DEF Filter, Advance
      <4>3. QED
        BY ZenonT(60), <3>1, <3>2, <4>1, <4>2 DEF Job
    <3>5. QED
      BY <3>3, <3>4
  <2>2. CASE Query(t)
    <3>1. \A k \in StoredOf(job[t].revs) \cup KeywordHits(job[t]) :
             <<k.src, k.content>> \in Sources \X Contents
      BY DEF StoredOf, KeywordHits, TypeStore, Chunk
    <3>2. job[t].gen \in Nat
      BY DEF Job
    <3>3. QED
      BY <2>2, <3>1, <3>2 DEF Query, VectorHits, LeaveSearch, Answer
  <2>3. CASE EnsureIndex(t) \/ SearchFails(t) \/ DropAnswer(t)
    BY <2>3 DEF EnsureIndex, SearchFails, DropAnswer, LeaveSearch, Advance
  <2>4. CASE Snapshot(t)
    <3>1. generation \in Nat
      BY DEF TypeStore
    <3>2. QED
      BY <2>4, <3>1 DEF Snapshot, Advance, Job
  <2>5. QED
    BY <1>6, <2>1, <2>2, <2>3, <2>4 DEF SearchStep
<1>7. ASSUME NEW t \in Threads, EnterVector(t) \/ FinalizeRefresh(t) \/ FinalizeBatch(t)
      PROVE  TypeLocals'
  BY <1>7 DEF EnterVector, FinalizeRefresh, FinalizeBatch
<1>8. ASSUME NEW t \in Threads, PassGate(t) PROVE TypeLocals'
  <2>1. CASE BeginBatch(t) \/ Refuse(t)
    BY <2>1 DEF BeginBatch, Refuse
  <2>2. CASE BeginSearch(t)
    BY <2>2, NoRowsType DEF BeginSearch, NewJob, Job
  <2>3. CASE BeginDestructive(t)
    <3>1. CASE UNCHANGED job
      BY <2>3, <3>1 DEF BeginDestructive
    <3>2. CASE \E a \in Actors, s \in Sources :
                  job' = [job EXCEPT ![t] = NewJob(a, s, None, None, FALSE)]
      <4>1. job' \in [Threads -> Job]
        BY <3>2, NoRowsType DEF NewJob, Job
      <4>2. QED
        BY <2>3, <4>1 DEF BeginDestructive
    <3>3. QED
      BY <2>3, <3>1, <3>2 DEF BeginDestructive
  <2>4. QED
    BY <1>8, <2>1, <2>2, <2>3 DEF PassGate
<1>9. ASSUME NEW s \in Sources, MetadataSynced(s) PROVE TypeLocals'
  BY <1>9 DEF MetadataSynced
<1>10. QED
  BY <1>1, <1>2, <1>3, <1>4, <1>5, <1>6, <1>7, <1>8, <1>9 DEF Next, Proceed
-----------------------------------------------------------------------------
\* A thread that leaves its call cannot disturb the others.
LEMMA JobElsewhere ==
  ASSUME JobInv, TypeControl, TypeLocals, NEW t \in Threads, NEW l,
         l \notin Adding \cup Deleting \cup SearchSteps \cup {"searchWait"},
         pc' = [pc EXCEPT ![t] = l],
         job' = [job EXCEPT ![t] = NoJob] \/ UNCHANGED job,
         nextRev' = nextRev
  PROVE  JobInv'
<1>1. \A u \in Threads : u # t => pc'[u] = pc[u] /\ job'[u] = job[u]
  BY DEF TypeControl, TypeLocals
<1>2. pc'[t] = l
  BY DEF TypeControl
<1>3. Revised \subseteq Adding
  BY DEF Revised, Adding, AddSteps
<1>4. QED
  BY <1>1, <1>2, <1>3 DEF JobInv

\* add_document_to_kb hands control back to its batch or to its caller.
LEMMA AddExit ==
  ASSUME NEW t \in Threads, AddNothing(t) \/ AddDone(t) \/ RollbackAdd(t)
  PROVE  /\ \E l \in {"idle", "batch"} : pc' = [pc EXCEPT ![t] = l]
         /\ job' = [job EXCEPT ![t] = NoJob]
         /\ nextRev' = nextRev
<1>1. \E changed \in BOOLEAN : LeaveAdd(t, changed)
  BY DEF AddNothing, AddDone, RollbackAdd
<1>2. PICK changed \in BOOLEAN : LeaveAdd(t, changed)
  BY <1>1
<1>3. pc' = [pc EXCEPT ![t] = IF InBatch(t) THEN "batch" ELSE "idle"]
  BY <1>2 DEF LeaveAdd, Goto
<1>4. \E l \in {"idle", "batch"} : pc' = [pc EXCEPT ![t] = l]
  BY <1>3
<1>5. job' = [job EXCEPT ![t] = NoJob]
  BY <1>2 DEF LeaveAdd
<1>6. nextRev' = nextRev
  BY DEF AddNothing, AddDone, RollbackAdd, durable
<1>7. QED
  BY <1>4, <1>5, <1>6

\* The lock is entered at the step its waiter asked for.
LEMMA InsideLabel ==
  ASSUME NEW l \in Waiting
  PROVE  /\ Inside(l) \in Labels \ Waiting
         /\ Inside(l) \in Adding => l = "addWait" /\ Inside(l) = "addCheck"
         /\ Inside(l) \in Deleting => l = "deleteWait"
         /\ Inside(l) \in SearchSteps <=> l = "searchWait"
<1> USE DEF Inside, Labels, VectorSteps, Adding, Deleting, AddSteps, DestroySteps, SearchSteps
<1>1. l \in {"addWait", "deleteWait", "clearWait", "rebuildWait", "finalizeWait", "searchWait"}
  BY DEF Waiting
<1>2. CASE l = "addWait"
  BY <1>2 DEF Waiting
<1>3. CASE l = "deleteWait"
  BY <1>3 DEF Waiting
<1>4. CASE l = "clearWait"
  BY <1>4 DEF Waiting
<1>5. CASE l = "rebuildWait"
  BY <1>5 DEF Waiting
<1>6. CASE l = "finalizeWait"
  BY <1>6 DEF Waiting
<1>7. CASE l = "searchWait"
  BY <1>7 DEF Waiting
<1>8. QED
  BY <1>1, <1>2, <1>3, <1>4, <1>5, <1>6, <1>7

\* Every call keeps working on what it was called for, and a revision id that
\* was handed out lies below the next one.
LEMMA JobStep ==
  ASSUME TypeStore, TypeControl, TypeLocals, JobInv, [Next]_vars
  PROVE  JobInv'
<1> USE DEF JobInv, TypeControl, Goto, Adding, Deleting, Revised, AddSteps, SearchSteps
<1>1. CASE UNCHANGED vars
  BY <1>1 DEF vars
<1>2. CASE Restart
  BY <1>2 DEF Restart
<1>3. ASSUME NEW t \in Threads, Call(t) PROVE JobInv'
  <2>1. CASE Request(t)
    BY <2>1 DEF Request, AtGate, durable
  <2>2. CASE AddDocument(t)
    BY <2>2 DEF AddDocument, NewJob, TypeLocals, durable
  <2>3. QED
    BY <1>3, <2>1, <2>2 DEF Call
<1>4. ASSUME NEW t \in Threads, AddStep(t) PROVE JobInv'
  <2>1. CASE AddNothing(t) \/ AddDone(t) \/ RollbackAdd(t)
    <3>1. PICK l \in {"idle", "batch"} : pc' = [pc EXCEPT ![t] = l]
      BY <2>1, AddExit
    <3>2. job' = [job EXCEPT ![t] = NoJob] /\ nextRev' = nextRev
      BY <2>1, AddExit
    <3>3. l \notin Adding \cup Deleting \cup SearchSteps \cup {"searchWait"}
      OBVIOUS
    <3> HIDE DEF JobInv, TypeControl, Adding, Deleting, SearchSteps
    <3>4. QED
      BY <3>1, <3>2, <3>3, JobElsewhere
  <2>2. CASE StartRevision(t)
    <3>1. /\ pc[t] = "addCheck" /\ pc' = [pc EXCEPT ![t] = "staging"]
          /\ job' = [job EXCEPT ![t].rev = nextRev, ![t].seen = RowOf(job[t].src)]
          /\ nextRev' = nextRev + 1
      BY <2>2 DEF StartRevision, Advance
    <3>2. nextRev \in 1..(MaxRev + 1)
      BY DEF TypeStore
    <3>3. QED
      BY <3>1, <3>2 DEF TypeLocals, Job
  <2>3. CASE StagePart(t)
    <3>1. \/ job' = [job EXCEPT ![t].acked = NextPart(job[t])]
          \/ UNCHANGED job
      BY <2>3 DEF StagePart
    <3>2. /\ pc[t] = "staging"
          /\ \E l \in {"staging", "rollback"} : pc' = [pc EXCEPT ![t] = l]
          /\ nextRev' = nextRev
      BY <2>3 DEF StagePart, Advance
    <3>3. CASE UNCHANGED job
      BY <3>2, <3>3
    <3>4. CASE job' = [job EXCEPT ![t].acked = NextPart(job[t])]
      <4>1. \A u \in Threads : u # t => job'[u] = job[u]
        BY <3>4 DEF TypeLocals
      <4>2. job'[t] = [job[t] EXCEPT !.acked = NextPart(job[t])]
        BY <3>4 DEF TypeLocals
      <4>3. job[t] \in Job
        BY DEF TypeLocals
      <4>4. /\ job'[t].actor = job[t].actor
            /\ job'[t].src = job[t].src
            /\ job'[t].content = job[t].content
            /\ job'[t].meta = job[t].meta
            /\ job'[t].rev = job[t].rev
        BY <4>2, <4>3 DEF Job
      <4>5. QED
        BY <3>2, <4>1, <4>4
    <3>5. QED
      BY <3>1, <3>3, <3>4
  <2>4. CASE VerifyStaged(t) \/ CommitSource(t) \/ SweepObsolete(t)
    BY <2>4 DEF VerifyStaged, CommitSource, SweepObsolete, Advance, durable
  <2>5. QED
    BY <1>4, <2>1, <2>2, <2>3, <2>4 DEF AddStep
<1>5. ASSUME NEW t \in Threads, DestroyStep(t) PROVE JobInv'
  <2>1. CASE DeleteCheck(t)
    BY <2>1 DEF DeleteCheck, Advance, TypeLocals, Job, durable
  <2>2. CASE ClearCommit(t)
    BY <2>2 DEF ClearCommit, LeaveDestroy, Advance, TypeLocals, Job
  <2>3. CASE DeleteRefused(t) \/ DeleteCommit(t) \/ DeletePhysical(t) \/ ClearPhysical(t)
             \/ RefreshAfterDestroy(t) \/ RebuildDrop(t) \/ RebuildClear(t)
    <3>1. nextRev' = nextRev
      BY <2>3 DEF DeleteRefused, DeleteCommit, DeletePhysical, ClearPhysical,
         RefreshAfterDestroy, RebuildDrop, RebuildClear, durable
    <3>2. CASE LeaveDestroy(t)
      <4>1. pc' = [pc EXCEPT ![t] = "endGate"] /\ job' = [job EXCEPT ![t] = NoJob]
        BY <3>2 DEF LeaveDestroy
      <4>2. "endGate" \notin Adding \cup Deleting \cup SearchSteps \cup {"searchWait"}
        OBVIOUS
      <4> HIDE DEF JobInv, TypeControl, Adding, Deleting, SearchSteps
      <4>3. QED
        BY <3>1, <4>1, <4>2, JobElsewhere
    <3>3. CASE ~LeaveDestroy(t)
      BY <2>3, <3>1, <3>3 DEF DeleteRefused, DeleteCommit, DeletePhysical, ClearPhysical,
         RefreshAfterDestroy, RebuildDrop, RebuildClear, Advance
    <3>4. QED
      BY <3>2, <3>3
  <2>4. CASE RebuildOpen(t)
    <3>1. pc' = [pc EXCEPT ![t] = "endGate"] /\ UNCHANGED <<job, nextRev>>
      BY <2>4 DEF RebuildOpen, durable
    <3>2. "endGate" \notin Adding \cup Deleting \cup SearchSteps \cup {"searchWait"}
      OBVIOUS
    <3> HIDE DEF JobInv, TypeControl, Adding, Deleting, SearchSteps
    <3>3. QED
      BY <3>1, <3>2, JobElsewhere
  <2>5. CASE EndDestructive(t)
    <3>1. /\ pc' = [pc EXCEPT ![t] = "idle"]
          /\ job' = [job EXCEPT ![t] = NoJob] \/ UNCHANGED job
          /\ nextRev' = nextRev
      BY <2>5 DEF EndDestructive, durable
    <3>2. "idle" \notin Adding \cup Deleting \cup SearchSteps \cup {"searchWait"}
      OBVIOUS
    <3> HIDE DEF JobInv, TypeControl, Adding, Deleting, SearchSteps
    <3>3. QED
      BY <3>1, <3>2, JobElsewhere
  <2>6. QED
    BY <1>5, <2>1, <2>2, <2>3, <2>4, <2>5 DEF DestroyStep
<1>6. ASSUME NEW t \in Threads, SearchStep(t) PROVE JobInv'
  <2>1. CASE Filter(t)
    <3>1. CASE VisibleTo(job[t].actor) = {}
      <4>1. /\ pc' \in {[pc EXCEPT ![t] = "idle"], [pc EXCEPT ![t] = "answered"]}
            /\ job' = [job EXCEPT ![t] = NoJob]
            /\ nextRev' = nextRev
        BY <2>1, <3>1 DEF Filter, LeaveSearch, durable
      <4>2. {"idle", "answered"} \cap (Adding \cup Deleting \cup SearchSteps \cup {"searchWait"}) = {}
        OBVIOUS
      <4> HIDE DEF JobInv, TypeControl, Adding, Deleting, SearchSteps
      <4>3. QED
        BY <4>1, <4>2, JobElsewhere
    <3>2. CASE VisibleTo(job[t].actor) # {}
      <4>1. PICK revs : job' = [job EXCEPT ![t].revs = revs, ![t].seen = manifest]
        BY <2>1, <3>2 DEF Filter
      <4>2. /\ pc[t] = "filter" /\ pc' = [pc EXCEPT ![t] = "ensure"]
            /\ nextRev' = nextRev
        BY <2>1, <3>2 DEF Filter, Advance, durable
      <4>3. \A u \in Threads : /\ job'[u].actor = job[u].actor
                               /\ u # t => job'[u] = job[u]
        BY <4>1 DEF TypeLocals, Job
      <4>4. QED
        BY <4>2, <4>3
    <3>3. QED
      BY <3>1, <3>2
  <2>2. CASE EnsureIndex(t)
    BY <2>2 DEF EnsureIndex, Advance, durable
  <2>3. CASE SearchFails(t)
    <3>1. /\ pc' = [pc EXCEPT ![t] = "idle"]
          /\ job' = [job EXCEPT ![t] = NoJob]
          /\ nextRev' = nextRev
      BY <2>3 DEF SearchFails, LeaveSearch, durable
    <3>2. "idle" \notin Adding \cup Deleting \cup SearchSteps \cup {"searchWait"}
      OBVIOUS
    <3> HIDE DEF JobInv, TypeControl, Adding, Deleting, SearchSteps
    <3>3. QED
      BY <3>1, <3>2, JobElsewhere
  <2>4. CASE DropAnswer(t)
    <3>1. /\ pc' = [pc EXCEPT ![t] = "idle"]
          /\ job' = [job EXCEPT ![t] = NoJob] \/ UNCHANGED job
          /\ nextRev' = nextRev
      BY <2>4 DEF DropAnswer, durable
    <3>2. "idle" \notin Adding \cup Deleting \cup SearchSteps \cup {"searchWait"}
      OBVIOUS
    <3> HIDE DEF JobInv, TypeControl, Adding, Deleting, SearchSteps
    <3>3. QED
      BY <3>1, <3>2, JobElsewhere
  <2>5. CASE Query(t)
    BY <2>5 DEF Query, LeaveSearch, durable
  <2>6. CASE Snapshot(t)
    BY <2>6 DEF Snapshot, Advance, TypeLocals, Job, durable
  <2>7. QED
    BY <1>6, <2>1, <2>2, <2>3, <2>4, <2>5, <2>6 DEF SearchStep
<1>7. ASSUME NEW t \in Threads, EnterVector(t) PROVE JobInv'
  <2>1. pc' = [pc EXCEPT ![t] = Inside(pc[t])] /\ UNCHANGED <<job, nextRev>>
    BY <1>7 DEF EnterVector, durable
  <2>2. pc[t] \in Waiting
    BY <1>7 DEF EnterVector
  <2>3. Inside(pc[t]) \notin Revised
    BY <2>2, InsideLabel
  <2>4. /\ pc'[t] \in Adding => pc[t] = "addWait"
        /\ pc'[t] \in Deleting => pc[t] = "deleteWait"
        /\ pc'[t] \in SearchSteps \cup {"searchWait"} => pc[t] = "searchWait"
    BY <2>1, <2>2, InsideLabel DEF Waiting
  <2>5. \A u \in Threads : u # t => pc'[u] = pc[u]
    BY <2>1
  <2>6. pc'[t] \notin Revised
    BY <2>1, <2>3
  <2>7. QED
    BY <2>1, <2>4, <2>5, <2>6
<1>8. ASSUME NEW t \in Threads, FinalizeRefresh(t) \/ FinalizeBatch(t) PROVE JobInv'
  BY <1>8 DEF FinalizeRefresh, FinalizeBatch, durable
<1>9. ASSUME NEW t \in Threads, PassGate(t) PROVE JobInv'
  <2>1. CASE BeginBatch(t) \/ Refuse(t)
    BY <2>1 DEF BeginBatch, Refuse, durable
  <2>2. CASE BeginSearch(t)
    BY <2>2 DEF BeginSearch, NewJob, TypeLocals, durable
  <2>3. CASE BeginDestructive(t)
    BY <2>3 DEF BeginDestructive, NewJob, TypeLocals, durable
  <2>4. QED
    BY <1>9, <2>1, <2>2, <2>3 DEF PassGate
<1>10. ASSUME NEW s \in Sources, MetadataSynced(s) PROVE JobInv'
  BY <1>10 DEF MetadataSynced
<1>11. QED
  BY <1>1, <1>2, <1>3, <1>4, <1>5, <1>6, <1>7, <1>8, <1>9, <1>10 DEF Next, Proceed

\* TypeOK holds in every reachable state: no interleaving, failure or restart
\* stores a chunk, a row or an answer of the wrong shape, or under a revision
\* id that was never handed out (vector_store.py:429-510).
THEOREM TypeCorrect == Spec => []TypeOK
<1> DEFINE Typed == TypeFlags /\ TypeStore /\ TypeControl /\ TypeLocals /\ JobInv
<1>1. Init => Typed
  BY InitType
<1>2. Typed /\ [Next]_vars => Typed'
  BY FlagsStep, StoreStep, ControlStep, LocalsStep, JobStep
<1>3. Typed => TypeOK
  BY TypeGroups
<1>4. QED
  BY <1>1, <1>2, <1>3, PTL DEF Spec
-----------------------------------------------------------------------------
Typed == TypeFlags /\ TypeStore /\ TypeControl /\ TypeLocals /\ JobInv
-----------------------------------------------------------------------------
(***************************************************************************)
(* The inductive invariant, part by part.                                  *)
(***************************************************************************)

\* Who holds which lock, and who has a batch open.
LockInv ==
    \A t \in Threads :
        /\ pc[t] \in VectorSteps => vlock = t
        /\ pc[t] \in MutexSteps => mutex = t
        /\ pc[t] = "batch" => InBatch(t)
        /\ InBatch(t) => pc[t] \in Adding \cup {"batch"}

SearchCall == SearchSteps \cup {"searchWait"}

\* The gate counts the open batches and knows of the destructive call.
Open == {t \in Threads : InBatch(t)}

GateInv ==
    /\ depth = Cardinality(Open)
    /\ destructive => Open = {}
    /\ \A t \in Threads : pc[t] \in DestroyCall => destructive
    /\ \A t, u \in Threads : pc[t] \in DestroyCall /\ pc[u] \in DestroyCall => t = u
    /\ \A t \in Threads :
          pc[t] \in SearchCall => ~destructive /\ Open = {}

\* Revision ids are handed out once, and an active one belongs to one source.
RevInv ==
    /\ \A k \in chunks : k.rev < nextRev
    /\ \A s \in Sources : manifest[s].rev < nextRev
    /\ \A s, u \in Sources : Active(s) /\ manifest[s].rev = manifest[u].rev => s = u

\* Chunks say what their revision says.
ChunkInv ==
    \A k \in chunks : \A s \in Sources :
        manifest[s].rev = k.rev => k.src = s /\ k.content = manifest[s].content

\* What a call found or made so under the vector lock, it still finds so.
Complete(r, s, c) == PartsOf[c] > 0 /\ ChunksOf(r, s, c) \subseteq chunks

AddOK(t) ==
    LET j == job[t]
    IN  /\ pc[t] \in {"staging", "commit"} =>
              /\ \A s \in Sources : manifest[s].rev # j.rev
              /\ j.seen[j.src].rev = manifest[j.src].rev
              /\ j.seen[j.src].rev # 0 => <<j.actor, j.seen[j.src].meta>> \in CanManage
        /\ pc[t] = "commit" => Complete(j.rev, j.src, j.content)
        /\ pc[t] \in {"sweep", "addDone"} => manifest[j.src].rev = j.rev
        /\ pc[t] \in Revised =>
              /\ \A s \in Sources : manifest[s].rev = j.rev => s = j.src
              /\ \A k \in chunks : k.rev = j.rev => k.src = j.src /\ k.content = j.content

DestroyOK(t) ==
    LET j == job[t]
    IN  /\ pc[t] = "deleteCommit" =>
              /\ Active(j.src) /\ manifest[j.src].rev = j.rev
              /\ j.seen[j.src].rev = j.rev
              /\ <<j.actor, j.seen[j.src].meta>> \in CanManage
        /\ pc[t] = "deletePhysical" => \A s \in Sources : Active(s) => manifest[s].rev # j.rev
        /\ pc[t] = "clearPhysical" => \A s \in Sources : ~Active(s)

\* A search's filter names active revisions, readable when it was computed.
Admitted(j) == {s \in Sources : /\ j.seen[s].rev # 0
                                /\ j.seen[s].meta \in Retrievable
                                /\ <<j.actor, j.seen[s].meta>> \in CanRead}

SearchOK(t) ==
    LET j == job[t]
    IN  /\ pc[t] \in {"filter", "ensure", "query"} => since <= j.gen /\ j.gen <= generation
        /\ pc[t] \in {"ensure", "query"} =>
              /\ \A s \in Sources : /\ j.seen[s].rev = manifest[s].rev
                                    /\ j.seen[s].content = manifest[s].content
              /\ \A r \in j.revs : \E s \in Admitted(j) : j.seen[s].rev = r
        /\ pc[t] = "query" => StoredOf(j.revs \ unindexed) \subseteq bm25

CallOK(t) == AddOK(t) /\ DestroyOK(t) /\ SearchOK(t)

CallInv == \A t \in Threads : CallOK(t)

\* When the index is not marked stale, it lacks at most the revisions it was
\* built without and the one whose add has yet to mark it.
Marking == {"sweep", "addDone", "rollback"}
Unmarked == {job[t].rev : t \in {u \in Threads : pc[u] \in Marking}}

FreshInv ==
    ~dirty => \A k \in chunks :
                 k.rev \in ActiveRevs \ (Unmarked \cup unindexed) => k \in bm25

StoreInv == RevInv /\ ChunkInv /\ VisibleIsComplete /\ CallInv /\ FreshInv

IInv == LockInv /\ GateInv /\ StoreInv
-----------------------------------------------------------------------------
(***************************************************************************)
(* Locks.                                                                  *)
(***************************************************************************)

LEMMA LockStep ==
  ASSUME TypeControl, LockInv, [Next]_vars
  PROVE  LockInv'
<1> USE DEF TypeControl, LockInv, InBatch, gate, Goto, VectorSteps, MutexSteps,
            AddSteps, DestroySteps, SearchSteps, Adding
<1>1. CASE UNCHANGED vars
  BY <1>1 DEF vars
<1>2. CASE Restart
  BY <1>2 DEF Restart
<1>3. ASSUME NEW t \in Threads, Call(t) PROVE LockInv'
  <2>1. CASE Request(t)
    <3>1. PICK l \in AtGate : pc' = [pc EXCEPT ![t] = l]
      BY <2>1 DEF Request
    <3>2. pc[t] = "idle" /\ UNCHANGED <<mutex, vlock, batch>>
      BY <2>1 DEF Request
    <3>3. l \in {"batchGate", "destroyGate", "searchGate"}
      BY DEF AtGate
    <3>4. QED
      BY <3>1, <3>2, <3>3
  <2>2. CASE AddDocument(t)
    <3>1. pc[t] \in {"idle", "batch"} /\ pc' = [pc EXCEPT ![t] = "addWait"]
      BY <2>2 DEF AddDocument
    <3>2. UNCHANGED <<mutex, vlock, batch>>
      BY <2>2 DEF AddDocument
    <3>3. QED
      BY <3>1, <3>2
  <2>3. QED
    BY <1>3, <2>1, <2>2 DEF Call
<1>4. ASSUME NEW t \in Threads, AddStep(t) PROVE LockInv'
  <2>1. CASE AddNothing(t) \/ AddDone(t) \/ RollbackAdd(t)
    <3>1. PICK changed \in BOOLEAN : LeaveAdd(t, changed)
      BY <2>1 DEF AddNothing, AddDone, RollbackAdd
    <3>2. pc[t] \in AddSteps
      BY <2>1 DEF AddNothing, AddDone, RollbackAdd
    <3>3. CASE InBatch(t)
      BY <3>1, <3>2, <3>3 DEF LeaveAdd
    <3>4. CASE ~InBatch(t)
      BY <3>1, <3>2, <3>4 DEF LeaveAdd
    <3>5. QED
      BY <3>3, <3>4
  <2>2. CASE StartRevision(t) \/ StagePart(t) \/ VerifyStaged(t)
    BY <2>2 DEF StartRevision, StagePart, VerifyStaged, Advance
  <2>3. CASE CommitSource(t) \/ SweepObsolete(t)
    BY <2>3 DEF CommitSource, SweepObsolete, Advance
  <2>4. QED
    BY <1>4, <2>1, <2>2, <2>3 DEF AddStep
<1>5. ASSUME NEW t \in Threads, DestroyStep(t) PROVE LockInv'
  <2>1. CASE DeleteRefused(t) \/ DeleteCheck(t) \/ DeleteCommit(t) \/ DeletePhysical(t)
             \/ RefreshAfterDestroy(t)
    BY <2>1 DEF DeleteRefused, DeleteCheck, DeleteCommit, DeletePhysical,
       RefreshAfterDestroy, LeaveDestroy, Advance
  <2>2. CASE ClearCommit(t) \/ ClearPhysical(t)
    BY <2>2 DEF ClearCommit, ClearPhysical, LeaveDestroy, Advance
  <2>3. CASE RebuildDrop(t) \/ RebuildClear(t)
    BY <2>3 DEF RebuildDrop, RebuildClear, LeaveDestroy, Advance
  <2>4. CASE RebuildOpen(t)
    BY <2>4 DEF RebuildOpen
  <2>5. CASE EndDestructive(t)
    BY <2>5 DEF EndDestructive
  <2>6. QED
    BY <1>5, <2>1, <2>2, <2>3, <2>4, <2>5 DEF DestroyStep
<1>6. ASSUME NEW t \in Threads, SearchStep(t) PROVE LockInv'
  <2>1. CASE Snapshot(t) \/ Filter(t)
    BY <2>1 DEF Snapshot, Filter, LeaveSearch, Advance
  <2>2. CASE Query(t) \/ SearchFails(t)
    BY <2>2 DEF Query, SearchFails, LeaveSearch
  <2>3. CASE EnsureIndex(t) \/ DropAnswer(t)
    BY <2>3 DEF EnsureIndex, DropAnswer, Advance
  <2>4. QED
    BY <1>6, <2>1, <2>2, <2>3 DEF SearchStep
<1>7. ASSUME NEW t \in Threads, EnterVector(t) PROVE LockInv'
  <2>1. /\ pc[t] \in Waiting /\ vlock = None /\ vlock' = t
        /\ pc' = [pc EXCEPT ![t] = Inside(pc[t])]
        /\ UNCHANGED <<mutex, batch>>
    BY <1>7 DEF EnterVector
  <2>2. Inside(pc[t]) \in VectorSteps
    BY <2>1 DEF Waiting, Inside
  <2>3. pc[t] \in MutexSteps <=> Inside(pc[t]) \in MutexSteps
    BY <2>1 DEF Waiting, Inside
  <2>4. pc[t] \in Adding <=> Inside(pc[t]) \in Adding
    BY <2>1 DEF Waiting, Inside
  <2>5. Inside(pc[t]) # "batch" /\ pc[t] # "batch"
    BY <2>1 DEF Waiting, Inside
  <2>6. pc'[t] = Inside(pc[t]) /\ vlock' = t /\ UNCHANGED <<mutex, batch>>
    BY <2>1
  <2>7. \A u \in Threads : u # t => pc'[u] = pc[u] /\ pc[u] \notin VectorSteps
    <3>1. ASSUME NEW u \in Threads, pc[u] \in VectorSteps PROVE FALSE
      <4>1. vlock = u
        BY <3>1
      <4>2. QED
        BY <2>1, <4>1
    <3>2. QED
      BY <2>1, <3>1
  <2>8. pc'[t] \in MutexSteps => mutex = t
    BY <2>3, <2>6
  <2>9. batch[t] # "out" => pc'[t] \in Adding
    BY <2>4, <2>5, <2>6
  <2> HIDE DEF VectorSteps, MutexSteps, Adding
  <2>10. ASSUME NEW u \in Threads
         PROVE  /\ pc'[u] \in VectorSteps => vlock' = u
                /\ pc'[u] \in MutexSteps => mutex' = u
                /\ pc'[u] = "batch" => batch'[u] # "out"
                /\ batch'[u] # "out" => pc'[u] \in Adding \cup {"batch"}
    <3>1. CASE u = t
      BY <2>5, <2>6, <2>8, <2>9, <3>1
    <3>2. CASE u # t
      BY <2>6, <2>7, <3>2
    <3>3. QED
      BY <3>1, <3>2
  <2>11. QED
    BY <2>10
<1>8. ASSUME NEW t \in Threads, FinalizeRefresh(t) PROVE LockInv'
  BY <1>8 DEF FinalizeRefresh
<1>9. ASSUME NEW t \in Threads, FinalizeBatch(t) PROVE LockInv'
  <2>1. /\ pc[t] = "batch" /\ mutex = None /\ UNCHANGED vlock
        /\ batch' = [batch EXCEPT ![t] = "out"]
    BY <1>9 DEF FinalizeBatch
  <2>2. \/ mutex' = t /\ pc' = [pc EXCEPT ![t] = "finalizeWait"]
        \/ mutex' = None /\ pc' = [pc EXCEPT ![t] = "idle"]
    BY <1>9 DEF FinalizeBatch
  <2>3. \A u \in Threads : pc[u] \notin MutexSteps
    <3>1. ASSUME NEW u \in Threads, pc[u] \in MutexSteps PROVE FALSE
      <4>1. mutex = u
        BY <3>1
      <4>2. QED
        BY <2>1, <4>1
    <3>2. QED
      BY <3>1
  <2>4. QED
    BY <2>1, <2>2, <2>3
<1>10. ASSUME NEW t \in Threads, PassGate(t) PROVE LockInv'
  <2>1. CASE BeginBatch(t)
    BY <2>1 DEF BeginBatch
  <2>2. CASE BeginSearch(t)
    <3>1. pc[t] = "searchGate" /\ pc' = [pc EXCEPT ![t] = "searchWait"]
      BY <2>2 DEF BeginSearch
    <3>2. mutex = None /\ mutex' = t /\ UNCHANGED <<vlock, batch>>
      BY <2>2 DEF BeginSearch
    <3>3. QED
      BY <3>1, <3>2
  <2>3. CASE BeginDestructive(t)
    <3>1. PICK l \in {"deleteWait", "clearWait", "rebuildWait"} : pc' = [pc EXCEPT ![t] = l]
      BY <2>3, DestructiveEntry
    <3>2. pc[t] = "destroyGate" /\ UNCHANGED <<mutex, vlock, batch>>
      BY <2>3 DEF BeginDestructive
    <3>3. QED
      BY <3>1, <3>2
  <2>4. CASE Refuse(t)
    BY <2>4 DEF Refuse
  <2>5. QED
    BY <1>10, <2>1, <2>2, <2>3, <2>4 DEF PassGate
<1>11. ASSUME NEW s \in Sources, MetadataSynced(s) PROVE LockInv'
  BY <1>11 DEF MetadataSynced
<1>12. QED
  BY <1>1, <1>2, <1>3, <1>4, <1>5, <1>6, <1>7, <1>8, <1>9, <1>10, <1>11 DEF Next, Proceed
-----------------------------------------------------------------------------
(***************************************************************************)
(* The gate.                                                               *)
(***************************************************************************)

LEMMA OpenFinite == IsFiniteSet(Open) /\ Cardinality(Open) \in Nat
  BY FS_Subset, FS_CardinalityType DEF Open

\* A step that neither opens nor ends a batch, a destructive call or a search
\* leaves the gate as it is.
LEMMA GateFrame ==
  ASSUME TypeControl, GateInv, NEW t \in Threads, NEW l,
         pc' = [pc EXCEPT ![t] = l],
         l \in DestroyCall => pc[t] \in DestroyCall,
         l \in SearchCall => pc[t] \in SearchCall,
         depth' = depth, destructive' = destructive, Open' = Open
  PROVE  GateInv'
<1>1. \A u \in Threads : /\ pc'[u] \in DestroyCall => pc[u] \in DestroyCall
                         /\ pc'[u] \in SearchCall => pc[u] \in SearchCall
  BY DEF TypeControl
<1>2. QED
  BY <1>1 DEF GateInv

LEMMA OpenKept ==
  ASSUME TypeControl, NEW t \in Threads, NEW changed, LeaveAdd(t, changed)
  PROVE  Open' = Open
<1>1. CASE InBatch(t) /\ changed
  <2>1. batch' = [batch EXCEPT ![t] = "mutated"]
    BY <1>1 DEF LeaveAdd
  <2>2. \A u \in Threads : batch'[u] # "out" <=> batch[u] # "out"
    BY <1>1, <2>1 DEF TypeControl, InBatch
  <2>3. QED
    BY <2>2 DEF Open, InBatch
<1>2. CASE ~(InBatch(t) /\ changed)
  BY <1>2 DEF LeaveAdd, Open, InBatch
<1>3. QED
  BY <1>1, <1>2

\* No one waits in a destructive call or a search while the gate is open or a
\* batch is.
LEMMA GateStep ==
  ASSUME TypeControl, LockInv, GateInv, [Next]_vars
  PROVE  GateInv'
<1> USE DEF gate, Goto, DestroyCall, DestroySteps, SearchCall, SearchSteps
<1>1. CASE UNCHANGED vars
  BY <1>1 DEF vars, GateInv, Open, InBatch
<1>2. CASE Restart
  <2>1. Open' = {} /\ depth' = 0 /\ destructive' = FALSE /\ pc' = [t \in Threads |-> "idle"]
    BY <1>2 DEF Restart, Open, InBatch
  <2>2. QED
    BY <2>1, FS_EmptySet DEF GateInv
<1>3. ASSUME NEW t \in Threads, Call(t) PROVE GateInv'
  <2>1. CASE Request(t)
    <3>1. PICK l \in AtGate : pc' = [pc EXCEPT ![t] = l]
      BY <2>1 DEF Request
    <3>2. Open' = Open /\ depth' = depth /\ destructive' = destructive
      BY <2>1 DEF Request, Open, InBatch
    <3>3. l \notin DestroyCall \cup SearchCall
      BY DEF AtGate
    <3> HIDE DEF DestroyCall, SearchCall
    <3>4. QED
      BY <3>1, <3>2, <3>3, GateFrame
  <2>2. CASE AddDocument(t)
    <3>1. pc' = [pc EXCEPT ![t] = "addWait"]
      BY <2>2 DEF AddDocument
    <3>2. Open' = Open /\ depth' = depth /\ destructive' = destructive
      BY <2>2 DEF AddDocument, Open, InBatch
    <3>3. QED
      BY <3>1, <3>2, GateFrame
  <2>3. QED
    BY <1>3, <2>1, <2>2 DEF Call
<1>4. ASSUME NEW t \in Threads, AddStep(t) PROVE GateInv'
  <2>1. CASE AddNothing(t) \/ AddDone(t) \/ RollbackAdd(t)
    <3>1. PICK l \in {"idle", "batch"} : pc' = [pc EXCEPT ![t] = l]
      BY <2>1, AddExit
    <3>2. PICK changed \in BOOLEAN : LeaveAdd(t, changed)
      BY <2>1 DEF AddNothing, AddDone, RollbackAdd
    <3>3. Open' = Open
      BY <3>2, OpenKept
    <3>4. depth' = depth /\ destructive' = destructive
      BY <3>2 DEF LeaveAdd
    <3>5. l \notin DestroyCall \cup SearchCall
      OBVIOUS
    <3> HIDE DEF DestroyCall, SearchCall
    <3>6. QED
      BY <3>1, <3>3, <3>4, <3>5, GateFrame
  <2>2. CASE ~(AddNothing(t) \/ AddDone(t) \/ RollbackAdd(t))
    <3>1. PICK l \in {"staging", "commit", "sweep", "addDone", "rollback"} : Advance(t, l)
      BY <1>4, <2>2 DEF AddStep, StartRevision, StagePart, VerifyStaged, CommitSource,
         SweepObsolete
    <3>2. pc' = [pc EXCEPT ![t] = l]
      BY <3>1 DEF Advance
    <3>3. Open' = Open /\ depth' = depth /\ destructive' = destructive
      BY <3>1 DEF Advance, Open, InBatch
    <3>4. l \notin DestroyCall \cup SearchCall
      OBVIOUS
    <3> HIDE DEF DestroyCall, SearchCall
    <3>5. QED
      BY <3>2, <3>3, <3>4, GateFrame
  <2>3. QED
    BY <2>1, <2>2
<1>5. ASSUME NEW t \in Threads, DestroyStep(t) PROVE GateInv'
  <2>1. CASE EndDestructive(t)
    <3>1. /\ pc[t] = "endGate" /\ destructive' = FALSE
          /\ pc' = [pc EXCEPT ![t] = "idle"] /\ UNCHANGED <<depth, batch>>
      BY <2>1 DEF EndDestructive
    <3>2. Open' = Open
      BY <3>1 DEF Open, InBatch
    <3>3. \A u \in Threads : u # t => pc[u] \notin DestroyCall
      BY <3>1 DEF GateInv
    <3>4. \A u \in Threads : pc[u] \notin SearchCall
      BY <3>1 DEF GateInv
    <3>5. \A u \in Threads : pc'[u] \notin DestroyCall \cup SearchCall
      BY <3>1, <3>3, <3>4 DEF TypeControl
    <3> HIDE DEF DestroyCall, SearchCall
    <3>6. QED
      BY <3>1, <3>2, <3>5 DEF GateInv
  <2>2. CASE ~EndDestructive(t)
    <3>1. /\ pc[t] \in DestroyCall
          /\ \E l \in DestroyCall : pc' = [pc EXCEPT ![t] = l]
          /\ UNCHANGED <<depth, destructive, batch>>
      <4>1. CASE DeleteRefused(t) \/ DeleteCheck(t) \/ DeleteCommit(t) \/ DeletePhysical(t)
                 \/ RefreshAfterDestroy(t)
        BY <4>1 DEF DeleteRefused, DeleteCheck, DeleteCommit, DeletePhysical,
           RefreshAfterDestroy, LeaveDestroy, Advance
      <4>2. CASE ClearCommit(t) \/ ClearPhysical(t) \/ RebuildDrop(t) \/ RebuildClear(t)
        BY <4>2 DEF ClearCommit, ClearPhysical, RebuildDrop, RebuildClear, LeaveDestroy, Advance
      <4>3. CASE RebuildOpen(t)
        BY <4>3 DEF RebuildOpen
      <4>4. QED
        BY <1>5, <2>2, <4>1, <4>2, <4>3 DEF DestroyStep
    <3>2. Open' = Open
      BY <3>1 DEF Open, InBatch
    <3>3. DestroyCall \cap SearchCall = {}
      OBVIOUS
    <3> HIDE DEF DestroyCall, SearchCall
    <3>4. QED
      BY <3>1, <3>2, <3>3, GateFrame
  <2>3. QED
    BY <2>1, <2>2
<1>6. ASSUME NEW t \in Threads, SearchStep(t) PROVE GateInv'
  <2>1. /\ \E l \in SearchCall \cup {"idle", "answered"} : pc' = [pc EXCEPT ![t] = l]
        /\ pc' = [pc EXCEPT ![t] = "idle"] \/ pc[t] \in SearchCall
        /\ UNCHANGED <<depth, destructive, batch>>
    <3>1. CASE Snapshot(t) \/ Filter(t)
      BY <3>1 DEF Snapshot, Filter, LeaveSearch, Advance
    <3>2. CASE Query(t) \/ SearchFails(t)
      BY <3>2 DEF Query, SearchFails, LeaveSearch
    <3>3. CASE EnsureIndex(t) \/ DropAnswer(t)
      BY <3>3 DEF EnsureIndex, DropAnswer, Advance
    <3>4. QED
      BY <1>6, <3>1, <3>2, <3>3 DEF SearchStep
  <2>2. Open' = Open
    BY <2>1 DEF Open, InBatch
  <2>3. (SearchCall \cup {"idle", "answered"}) \cap DestroyCall = {} /\ "idle" \notin SearchCall
    OBVIOUS
  <2> HIDE DEF DestroyCall, SearchCall
  <2>4. QED
    BY <2>1, <2>2, <2>3, GateFrame
<1>7. ASSUME NEW t \in Threads, EnterVector(t) PROVE GateInv'
  <2>1. pc[t] \in Waiting /\ pc' = [pc EXCEPT ![t] = Inside(pc[t])]
    BY <1>7 DEF EnterVector
  <2>2. Open' = Open /\ depth' = depth /\ destructive' = destructive
    BY <1>7 DEF EnterVector, Open, InBatch
  <2>3. /\ Inside(pc[t]) \in DestroyCall => pc[t] \in DestroyCall
        /\ Inside(pc[t]) \in SearchCall => pc[t] \in SearchCall
    BY <2>1 DEF Waiting, Inside
  <2> HIDE DEF DestroyCall, SearchCall
  <2>4. QED
    BY <2>1, <2>2, <2>3, GateFrame
<1>8. ASSUME NEW t \in Threads, FinalizeRefresh(t) PROVE GateInv'
  <2>1. pc' = [pc EXCEPT ![t] = "idle"]
    BY <1>8 DEF FinalizeRefresh
  <2>2. Open' = Open /\ depth' = depth /\ destructive' = destructive
    BY <1>8 DEF FinalizeRefresh, Open, InBatch
  <2>3. QED
    BY <2>1, <2>2, GateFrame
<1>9. ASSUME NEW t \in Threads, FinalizeBatch(t) PROVE GateInv'
  <2>1. /\ pc[t] = "batch" /\ batch' = [batch EXCEPT ![t] = "out"]
        /\ depth' = (IF depth > 0 THEN depth - 1 ELSE depth) /\ destructive' = destructive
    BY <1>9 DEF FinalizeBatch
  <2>2. \E l \in {"finalizeWait", "idle"} : pc' = [pc EXCEPT ![t] = l]
    BY <1>9 DEF FinalizeBatch
  <2>3. t \in Open
    BY <2>1 DEF LockInv, Open
  <2>4. Open' = Open \ {t}
    BY <2>1 DEF TypeControl, Open, InBatch
  <2>5. Cardinality(Open') = Cardinality(Open) - 1 /\ Cardinality(Open) > 0
    BY SMTT(30), <2>3, <2>4, OpenFinite, FS_RemoveElement, FS_EmptySet
  <2>6. depth' = Cardinality(Open')
    BY <2>1, <2>5, OpenFinite DEF GateInv
  <2>7. \A u \in Threads : pc[u] \notin DestroyCall \cup SearchCall
    BY <2>3 DEF GateInv
  <2>8. \A u \in Threads : pc'[u] \notin DestroyCall \cup SearchCall
    BY <2>2, <2>7 DEF TypeControl
  <2>9. ~destructive
    BY <2>3 DEF GateInv
  <2> HIDE DEF DestroyCall, SearchCall
  <2>10. QED
    BY <2>1, <2>6, <2>8, <2>9 DEF GateInv
<1>10. ASSUME NEW t \in Threads, PassGate(t) PROVE GateInv'
  <2>1. CASE BeginBatch(t)
    <3>1. /\ pc[t] = "batchGate" /\ mutex = None /\ ~destructive
          /\ depth' = depth + 1 /\ batch' = [batch EXCEPT ![t] = "clean"]
          /\ pc' = [pc EXCEPT ![t] = "batch"] /\ destructive' = destructive
      BY <2>1 DEF BeginBatch, BatchMayOpen
    <3>2. t \notin Open
      BY <3>1 DEF LockInv, Open, Adding, AddSteps
    <3>3. Open' = Open \cup {t}
      BY <3>1 DEF TypeControl, Open, InBatch
    <3>4. Cardinality(Open') = Cardinality(Open) + 1
      BY <3>2, <3>3, OpenFinite, FS_AddElement
    <3>5. \A u \in Threads : pc[u] \notin SearchCall
      <4>1. ASSUME NEW u \in Threads, pc[u] \in SearchCall PROVE FALSE
        <5>1. mutex = u
          BY <4>1 DEF LockInv, MutexSteps
        <5>2. QED
          BY <3>1, <5>1
      <4>2. QED
        BY <4>1
    <3>6. \A u \in Threads : pc[u] \notin DestroyCall
      BY <3>1 DEF GateInv
    <3>7. \A u \in Threads : pc'[u] \notin SearchCall \cup DestroyCall
      BY <3>1, <3>5, <3>6 DEF TypeControl
    <3>8. depth' = Cardinality(Open')
      BY <3>1, <3>4 DEF GateInv
    <3> HIDE DEF DestroyCall, SearchCall
    <3>9. QED
      BY <3>1, <3>7, <3>8 DEF GateInv
  <2>2. CASE BeginSearch(t)
    <3>1. /\ ~destructive /\ depth = 0
          /\ pc' = [pc EXCEPT ![t] = "searchWait"]
          /\ UNCHANGED <<depth, destructive, batch>>
      BY <2>2 DEF BeginSearch, GateOpen
    <3>2. Open' = Open
      BY <3>1 DEF Open, InBatch
    <3>3. Open = {}
      BY <3>1, OpenFinite, FS_EmptySet DEF GateInv
    <3>4. \A u \in Threads : pc'[u] \notin DestroyCall
      BY <3>1 DEF GateInv, TypeControl
    <3> HIDE DEF DestroyCall, SearchCall
    <3>5. QED
      BY <3>1, <3>2, <3>3, <3>4 DEF GateInv
  <2>3. CASE BeginDestructive(t)
    <3>1. PICK l \in {"deleteWait", "clearWait", "rebuildWait"} : pc' = [pc EXCEPT ![t] = l]
      BY <2>3, DestructiveEntry
    <3>2. /\ ~destructive /\ depth = 0 /\ destructive' = TRUE /\ mutex = None
          /\ UNCHANGED <<depth, batch>>
      BY <2>3 DEF BeginDestructive, GateOpen
    <3>3. Open' = Open
      BY <3>2 DEF Open, InBatch
    <3>4. Open = {}
      BY <3>2, OpenFinite, FS_EmptySet DEF GateInv
    <3>5. \A u \in Threads : pc[u] \notin DestroyCall
      BY <3>2 DEF GateInv
    <3>6. \A u \in Threads : pc[u] \notin SearchCall
      <4>1. ASSUME NEW u \in Threads, pc[u] \in SearchCall PROVE FALSE
        <5>1. mutex = u
          BY <4>1 DEF LockInv, MutexSteps
        <5>2. QED
          BY <3>2, <5>1
      <4>2. QED
        BY <4>1
    <3>7. l \notin SearchCall
      OBVIOUS
    <3>8. \A u \in Threads : /\ pc'[u] \in DestroyCall => u = t
                             /\ pc'[u] \notin SearchCall
      BY <3>1, <3>5, <3>6, <3>7 DEF TypeControl
    <3> HIDE DEF DestroyCall, SearchCall
    <3>9. QED
      BY <3>2, <3>3, <3>4, <3>8 DEF GateInv
  <2>4. CASE Refuse(t)
    <3>1. pc' = [pc EXCEPT ![t] = "idle"]
      BY <2>4 DEF Refuse
    <3>2. Open' = Open /\ depth' = depth /\ destructive' = destructive
      BY <2>4 DEF Refuse, Open, InBatch
    <3>3. QED
      BY <3>1, <3>2, GateFrame
  <2>5. QED
    BY <1>10, <2>1, <2>2, <2>3, <2>4 DEF PassGate
<1>11. ASSUME NEW s \in Sources, MetadataSynced(s) PROVE GateInv'
  <2>1. Open' = Open /\ UNCHANGED <<pc, depth, destructive>>
    BY <1>11 DEF MetadataSynced, Open, InBatch
  <2>2. QED
    BY <2>1 DEF GateInv
<1>12. QED
  BY <1>1, <1>2, <1>3, <1>4, <1>5, <1>6, <1>7, <1>8, <1>9, <1>10, <1>11 DEF Next, Proceed
-----------------------------------------------------------------------------
(***************************************************************************)
(* What a step that holds the vector lock can disturb.                     *)
(***************************************************************************)

\* The steps at which a call relies on what it found earlier.
Relying == Revised \cup {"deleteCommit", "deletePhysical", "clearPhysical", "filter",
                        "ensure", "query"}

LEMMA RelyingLocked == Relying \subseteq VectorSteps /\ Marking \subseteq Relying
  BY DEF Relying, Revised, Marking, VectorSteps, AddSteps, DestroySteps, SearchSteps

LEMMA CallVacuous ==
  ASSUME NEW t \in Threads, pc'[t] \notin Relying
  PROVE  CallOK(t)'
BY DEF CallOK, AddOK, DestroyOK, SearchOK, Relying, Revised

\* Rows may get other metadata: what is stored and shown is the same.
SameRows == \A s \in Sources : /\ manifest'[s].rev = manifest[s].rev
                               /\ manifest'[s].content = manifest[s].content

LEMMA CallKept ==
  ASSUME TypeStore, TypeLocals, SameRows, NEW t \in Threads, CallOK(t),
         pc'[t] = pc[t], job'[t] = job[t],
         generation' \in {generation, generation + 1},
         pc[t] \in Adding \cup Deleting => job[t].src \in Sources,
         UNCHANGED <<chunks, since, bm25, unindexed>>
  PROVE  CallOK(t)'
<1> USE DEF SameRows
<1>1. AddOK(t)'
  <2>1. pc[t] \in Revised => job[t].src \in Sources
    BY DEF Revised, Adding, AddSteps
  <2>2. QED
    BY <2>1 DEF CallOK, AddOK, Complete, ChunksOf, Revised
<1>2. DestroyOK(t)'
  <2>1. pc[t] = "deleteCommit" => job[t].src \in Sources
    BY DEF Deleting
  <2>2. QED
    BY <2>1 DEF CallOK, DestroyOK, Active
<1>3. SearchOK(t)'
  <2>1. Admitted(job[t])' = Admitted(job[t])
    BY DEF Admitted
  <2>2. job[t].gen \in Nat /\ generation \in Nat /\ since \in Nat
    BY DEF TypeStore, TypeLocals, Job
  <2>3. QED
    BY <2>1, <2>2 DEF CallOK, SearchOK, StoredOf
<1>4. QED
  BY <1>1, <1>2, <1>3 DEF CallOK

\* The vector lock has one holder, so only its own reliance is at stake.
LEMMA Alone ==
  ASSUME LockInv, NEW t \in Threads, pc[t] \in VectorSteps, NEW u \in Threads, u # t
  PROVE  pc[u] \notin VectorSteps
BY DEF LockInv

LEMMA OthersFree ==
  ASSUME TypeControl, LockInv, NEW t \in Threads, pc[t] \in VectorSteps, NEW l,
         pc' = [pc EXCEPT ![t] = l], CallOK(t)'
  PROVE  CallInv'
<1>1. ASSUME NEW u \in Threads, u # t PROVE CallOK(u)'
  <2>1. pc'[u] = pc[u]
    BY <1>1 DEF TypeControl
  <2>2. pc[u] \notin VectorSteps
    BY <1>1, Alone
  <2>3. QED
    BY <2>1, <2>2, RelyingLocked, CallVacuous
<1>2. QED
  BY <1>1 DEF CallInv

LEMMA UnmarkedAlone ==
  ASSUME LockInv, NEW t \in Threads, pc[t] \in VectorSteps
  PROVE  Unmarked = IF pc[t] \in Marking THEN {job[t].rev} ELSE {}
<1>1. \A u \in Threads : pc[u] \in Marking => u = t
  BY Alone, RelyingLocked
<1>2. QED
  BY <1>1 DEF Unmarked

LEMMA UnmarkedAloneNext ==
  ASSUME TypeControl, LockInv, NEW t \in Threads, pc[t] \in VectorSteps, NEW l,
         pc' = [pc EXCEPT ![t] = l]
  PROVE  Unmarked' = IF l \in Marking THEN {job'[t].rev} ELSE {}
<1>1. \A u \in Threads : u # t => pc'[u] \notin Marking
  <2>1. ASSUME NEW u \in Threads, u # t PROVE pc'[u] \notin Marking
    <3>1. pc[u] \notin VectorSteps
      BY <2>1, Alone
    <3>2. QED
      BY <2>1, <3>1, RelyingLocked DEF TypeControl
  <2>2. QED
    BY <2>1
<1>2. pc'[t] = l
  BY DEF TypeControl
<1>3. QED
  BY <1>1, <1>2 DEF Unmarked

LEMMA ActiveRevsDef ==
  \A r : r \in ActiveRevs <=> \E s \in Sources : Active(s) /\ manifest[s].rev = r
BY DEF ActiveRevs, RevsOf

LEMMA SameActive == SameRows => ActiveRevs' = ActiveRevs
BY DEF SameRows, ActiveRevs, RevsOf, Active

LEMMA DurableKept ==
  ASSUME RevInv, ChunkInv, VisibleIsComplete, SameRows, UNCHANGED <<chunks, nextRev, lost>>
  PROVE  RevInv' /\ ChunkInv' /\ VisibleIsComplete'
<1> USE DEF SameRows, Active
<1>1. RevInv'
  BY DEF RevInv
<1>2. ChunkInv'
  BY DEF ChunkInv
<1>3. VisibleIsComplete'
  BY DEF VisibleIsComplete, ChunksOf
<1>4. QED
  BY <1>1, <1>2, <1>3

LEMMA DurableSame == UNCHANGED durable => SameRows /\ UNCHANGED <<chunks, nextRev, lost>>
BY DEF durable, SameRows

\* The index may lack what it lacked; it may not lose a reason for it.
LEMMA FreshKept ==
  ASSUME FreshInv, SameRows, UNCHANGED <<chunks, bm25, unindexed>>, ~dirty' => ~dirty,
         Unmarked \subseteq Unmarked'
  PROVE  FreshInv'
<1>1. ActiveRevs' = ActiveRevs
  BY SameActive
<1>2. QED
  BY <1>1 DEF FreshInv

\* A rebuilt index lacks only what it leaves out.
LEMMA RebuiltIndex ==
  ASSUME Reindex
  PROVE  \A k \in chunks : k.rev \in ActiveRevs \ unindexed' => k \in bm25'
BY DEF Reindex, StoredOf

LEMMA FreshRebuilt ==
  ASSUME Reindex, SameRows, UNCHANGED chunks
  PROVE  FreshInv'
<1>1. ActiveRevs' = ActiveRevs
  BY SameActive
<1>2. QED
  BY <1>1, RebuiltIndex DEF FreshInv

\* A step to a place where the call relies on nothing, that touches neither the
\* store nor the index except to mark it stale.
LEMMA QuietStep ==
  ASSUME Typed, StoreInv, NEW t \in Threads, NEW l,
         l \notin Relying, pc[t] \notin Marking,
         pc' = [pc EXCEPT ![t] = l],
         \A u \in Threads : u # t => job'[u] = job[u],
         UNCHANGED <<durable, bm25, unindexed>>, ~dirty' => ~dirty
  PROVE  StoreInv'
<1> USE DEF Typed
<1>1. RevInv' /\ ChunkInv' /\ VisibleIsComplete'
  BY DurableKept, DurableSame DEF StoreInv
<1>2. CallInv'
  <2>1. ASSUME NEW u \in Threads, u # t PROVE CallOK(u)'
    <3>1. pc'[u] = pc[u] /\ job'[u] = job[u]
      BY <2>1 DEF TypeControl
    <3>2. SameRows /\ UNCHANGED <<chunks, generation, since, bm25, unindexed>>
      BY DurableSame DEF durable
    <3>3. CallOK(u)
      BY DEF StoreInv, CallInv
    <3>4. pc[u] \in Adding \cup Deleting => job[u].src \in Sources
      BY DEF JobInv
    <3>5. QED
      BY <3>1, <3>2, <3>3, <3>4, CallKept
  <2>2. CallOK(t)'
    <3>1. pc'[t] = l
      BY DEF TypeControl
    <3>2. QED
      BY <3>1, CallVacuous
  <2>3. QED
    BY <2>1, <2>2 DEF CallInv
<1>3. FreshInv'
  <2>1. \A u \in Threads : pc[u] \in Marking => pc'[u] = pc[u] /\ job'[u] = job[u]
    BY DEF TypeControl
  <2>2. Unmarked \subseteq Unmarked'
    BY <2>1 DEF Unmarked
  <2>3. SameRows /\ UNCHANGED <<chunks, bm25, unindexed>>
    BY DurableSame DEF durable
  <2>4. QED
    BY <2>2, <2>3, FreshKept DEF StoreInv
<1>4. QED
  BY <1>1, <1>2, <1>3 DEF StoreInv

\* A sync of another process disturbs no call, whatever it is at.
LEMMA MetadataSyncedSafe ==
  ASSUME Typed, StoreInv, NEW s \in Sources, MetadataSynced(s)
  PROVE  StoreInv'
<1> USE DEF Typed
<1>1. SameRows
  <2>1. CASE UNCHANGED manifest
    BY <2>1 DEF SameRows
  <2>2. ASSUME NEW m \in Metas, manifest' = [manifest EXCEPT ![s].meta = m]
        PROVE  SameRows
    BY <2>2 DEF SameRows, TypeStore, Row
  <2>3. QED
    BY <2>1, <2>2 DEF MetadataSynced
<1>2. UNCHANGED <<chunks, since, nextRev, lost, bm25, unindexed, dirty, pc, job>>
  BY DEF MetadataSynced, index
<1>3. RevInv' /\ ChunkInv' /\ VisibleIsComplete'
  BY <1>1, <1>2, DurableKept DEF StoreInv
<1>4. CallInv'
  <2>1. ASSUME NEW u \in Threads PROVE CallOK(u)'
    <3>1. CallOK(u) /\ (pc[u] \in Adding \cup Deleting => job[u].src \in Sources)
      BY DEF StoreInv, CallInv, JobInv
    <3>2. generation' = generation + 1
      BY DEF MetadataSynced
    <3>3. QED
      BY <1>1, <1>2, <3>1, <3>2, CallKept
  <2>2. QED
    BY <2>1 DEF CallInv
<1>5. FreshInv'
  <2>1. Unmarked' = Unmarked
    BY <1>2 DEF Unmarked
  <2>2. QED
    BY <1>1, <1>2, <2>1, FreshKept DEF StoreInv
<1>6. QED
  BY <1>3, <1>4, <1>5 DEF StoreInv
-----------------------------------------------------------------------------
(***************************************************************************)
(* add_document_to_kb.                                                     *)
(***************************************************************************)

\* A new revision id is above everything stored.
LEMMA StartRevisionSafe ==
  ASSUME Typed, LockInv, StoreInv, NEW t \in Threads, StartRevision(t)
  PROVE  StoreInv'
<1> USE DEF Typed, StoreInv
<1>1. /\ pc[t] \in VectorSteps /\ pc[t] \notin Marking
      /\ pc' = [pc EXCEPT ![t] = "staging"]
      /\ job' = [job EXCEPT ![t].rev = nextRev, ![t].seen = RowOf(job[t].src)]
      /\ nextRev' = nextRev + 1
      /\ UNCHANGED <<chunks, manifest, generation, since, lost, bm25, unindexed, dirty>>
  BY DEF StartRevision, Advance, Goto, VectorSteps, AddSteps, Marking, index
<1>2. /\ job'[t].rev = nextRev
      /\ job'[t].src = job[t].src /\ job'[t].src \in Sources
      /\ job'[t].actor = job[t].actor /\ job'[t].content = job[t].content
      /\ job'[t].seen = RowOf(job[t].src)
  BY <1>1 DEF TypeLocals, Job, JobInv, Adding, AddSteps, StartRevision
<1>3. nextRev \in Nat /\ (\A s \in Sources : manifest[s].rev \in Nat) /\ (\A k \in chunks : k.rev \in Nat)
  BY DEF TypeStore, Row, Chunk, RevIds
<1>4. RevInv'
  BY <1>1, <1>3 DEF RevInv, Active
<1>5. ChunkInv'
  BY <1>1 DEF ChunkInv
<1>6. VisibleIsComplete'
  BY <1>1 DEF VisibleIsComplete, Active, ChunksOf
<1>7. CallOK(t)'
  <2>1. pc'[t] = "staging"
    BY <1>1 DEF TypeControl
  <2>2. \A s \in Sources : manifest'[s].rev # job'[t].rev
    BY <1>1, <1>2, <1>3 DEF RevInv
  <2>3. \A k \in chunks' : k.rev # job'[t].rev
    BY <1>1, <1>2, <1>3 DEF RevInv
  <2>4. /\ job'[t].seen[job'[t].src].rev = manifest'[job'[t].src].rev
        /\ job'[t].seen[job'[t].src].rev # 0 =>
              <<job'[t].actor, job'[t].seen[job'[t].src].meta>> \in CanManage
    <3>1. job'[t].seen[job'[t].src] = manifest[job[t].src]
      BY <1>2 DEF RowOf, NoRows
    <3>2. manifest[job[t].src].rev # 0 => <<job[t].actor, manifest[job[t].src].meta>> \in CanManage
      BY DEF StartRevision, MayAdd, Active
    <3>3. QED
      BY <1>1, <1>2, <3>1, <3>2
  <2>5. AddOK(t)'
    BY <1>2, <2>1, <2>2, <2>3, <2>4 DEF AddOK
  <2>6. DestroyOK(t)' /\ SearchOK(t)'
    BY <2>1 DEF DestroyOK, SearchOK
  <2>7. QED
    BY <2>5, <2>6 DEF CallOK
<1>8. CallInv'
  BY <1>1, <1>7, OthersFree
<1>9. FreshInv'
  BY <1>1, FreshKept, UnmarkedAlone DEF SameRows
<1>10. QED
  BY <1>4, <1>5, <1>6, <1>8, <1>9

\* A written chunk belongs to a revision no row points to.
LEMMA StagePartSafe ==
  ASSUME Typed, LockInv, StoreInv, NEW t \in Threads, StagePart(t)
  PROVE  StoreInv'
<1> USE DEF Typed, StoreInv
<1> DEFINE k0 == NextChunk(job[t])
<1>1. /\ pc[t] = "staging" /\ chunks' \in {chunks, chunks \cup {k0}}
      /\ UNCHANGED <<manifest, generation, nextRev, lost, bm25, unindexed, dirty>>
  BY DEF StagePart, index
<1>2. pc[t] \in VectorSteps /\ pc[t] \notin Marking
  BY <1>1 DEF VectorSteps, AddSteps, Marking
<1>3. PICK l \in {"staging", "rollback"} : pc' = [pc EXCEPT ![t] = l]
  BY DEF StagePart, Advance, Goto
<1>4. /\ job'[t].rev = job[t].rev /\ job'[t].src = job[t].src
      /\ job'[t].content = job[t].content /\ job'[t].actor = job[t].actor
      /\ job'[t].seen = job[t].seen
  <2>1. \/ UNCHANGED job
        \/ job' = [job EXCEPT ![t].acked = NextPart(job[t])]
    BY DEF StagePart
  <2>2. job \in [Threads -> Job]
    BY DEF TypeLocals
  <2>3. QED
    BY <2>1, <2>2 DEF Job
<1>5. k0.rev = job[t].rev /\ k0.src = job[t].src /\ k0.content = job[t].content
  BY DEF NextChunk
<1>6. job[t].rev \in 1..(nextRev - 1) /\ job[t].src \in Sources /\ nextRev \in Nat
  BY <1>1 DEF JobInv, Revised, Adding, AddSteps, TypeStore
<1>7. /\ \A s \in Sources : manifest[s].rev # job[t].rev
      /\ \A k \in chunks : k.rev = job[t].rev => k.src = job[t].src /\ k.content = job[t].content
      /\ job[t].seen[job[t].src].rev = manifest[job[t].src].rev
      /\ job[t].seen[job[t].src].rev # 0 =>
            <<job[t].actor, job[t].seen[job[t].src].meta>> \in CanManage
  BY <1>1 DEF CallInv, CallOK, AddOK, Revised
<1>8. RevInv'
  BY <1>1, <1>5, <1>6 DEF RevInv, Active
<1>9. ChunkInv'
  BY <1>1, <1>5, <1>7 DEF ChunkInv
<1>10. VisibleIsComplete'
  BY <1>1 DEF VisibleIsComplete, Active, ChunksOf
<1>11. CallOK(t)'
  <2>1. pc'[t] = l
    BY <1>3 DEF TypeControl
  <2>2. AddOK(t)'
    BY <1>1, <1>4, <1>5, <1>7, <2>1 DEF AddOK, Active, Revised
  <2>3. DestroyOK(t)' /\ SearchOK(t)'
    BY <2>1 DEF DestroyOK, SearchOK
  <2>4. QED
    BY <2>2, <2>3 DEF CallOK
<1>12. CallInv'
  BY <1>2, <1>3, <1>11, OthersFree
<1>13. FreshInv'
  <2>1. ActiveRevs' = ActiveRevs
    BY <1>1, SameActive DEF SameRows
  <2>2. k0.rev \notin ActiveRevs
    BY <1>5, <1>7, ActiveRevsDef
  <2>3. Unmarked = {}
    BY <1>2, UnmarkedAlone
  <2>4. QED
    BY <1>1, <2>1, <2>2, <2>3 DEF FreshInv
<1>14. QED
  BY <1>8, <1>9, <1>10, <1>12, <1>13

LEMMA VerifyStagedSafe ==
  ASSUME Typed, LockInv, StoreInv, NEW t \in Threads, VerifyStaged(t)
  PROVE  StoreInv'
<1> USE DEF Typed, StoreInv
<1>1. pc[t] = "staging" /\ UNCHANGED <<durable, index, job>>
  BY DEF VerifyStaged
<1>2. pc[t] \in VectorSteps /\ pc[t] \notin Marking
  BY <1>1 DEF VectorSteps, AddSteps, Marking
<1>3. PICK l \in {"commit", "rollback"} :
         /\ pc' = [pc EXCEPT ![t] = l]
         /\ l = "commit" => StagedComplete(job[t]) /\ PartsOf[job[t].content] > 0
  BY DEF VerifyStaged, Advance, Goto
<1>4. RevInv' /\ ChunkInv' /\ VisibleIsComplete'
  BY <1>1, DurableKept, DurableSame
<1>5. CallOK(t)'
  <2>1. pc'[t] = l
    BY <1>3 DEF TypeControl
  <2>2. UNCHANGED <<chunks, manifest, job>>
    BY <1>1 DEF durable
  <2>3. AddOK(t)
    BY DEF CallInv, CallOK
  <2>4. l = "commit" => Complete(job[t].rev, job[t].src, job[t].content)
    BY <1>3 DEF StagedComplete, Complete, StoredOf
  <2>5. AddOK(t)'
    BY <1>1, <2>1, <2>2, <2>3, <2>4 DEF AddOK, Revised, Complete, ChunksOf
  <2>6. DestroyOK(t)' /\ SearchOK(t)'
    BY <2>1 DEF DestroyOK, SearchOK
  <2>7. QED
    BY <2>5, <2>6 DEF CallOK
<1>6. CallInv'
  BY <1>2, <1>3, <1>5, OthersFree
<1>7. FreshInv'
  <2>1. SameRows /\ UNCHANGED <<chunks, bm25, unindexed, dirty>>
    BY <1>1, DurableSame DEF index
  <2>2. Unmarked \subseteq Unmarked'
    BY <1>2, UnmarkedAlone
  <2>3. QED
    BY <2>1, <2>2, FreshKept
<1>8. QED
  BY <1>4, <1>6, <1>7

\* The row that becomes visible is complete, and no other row shares its id.
LEMMA CommitSourceSafe ==
  ASSUME Typed, LockInv, StoreInv, NEW t \in Threads, CommitSource(t)
  PROVE  StoreInv'
<1> USE DEF Typed, StoreInv
<1> DEFINE j == job[t]
           row == [rev |-> j.rev, content |-> j.content, meta |-> j.meta]
<1>1. pc[t] = "commit" /\ UNCHANGED <<chunks, nextRev, lost, bm25, unindexed, dirty, job>>
  BY DEF CommitSource, index
<1>2. pc[t] \in VectorSteps /\ pc[t] \notin Marking
  BY <1>1 DEF VectorSteps, AddSteps, Marking
<1>3. PICK l \in {"sweep", "rollback"} :
         /\ pc' = [pc EXCEPT ![t] = l]
         /\ \/ manifest' = [manifest EXCEPT ![j.src] = row]
            \/ l = "rollback" /\ manifest' = manifest
  BY DEF CommitSource, Publish, Advance, Goto
<1>4. j.rev \in 1..(nextRev - 1) /\ j.src \in Sources /\ nextRev \in Nat
  BY <1>1 DEF JobInv, Revised, Adding, AddSteps, TypeStore
<1>5. /\ \A s \in Sources : manifest[s].rev # j.rev
      /\ \A k \in chunks : k.rev = j.rev => k.src = j.src /\ k.content = j.content
      /\ Complete(j.rev, j.src, j.content)
  BY <1>1 DEF CallInv, CallOK, AddOK, Revised
<1>6. \A s \in Sources : manifest'[s] = manifest[s] \/ (s = j.src /\ manifest'[s] = row)
  BY <1>3 DEF TypeStore
<1>7. RevInv'
  BY <1>1, <1>4, <1>5, <1>6 DEF RevInv, Active
<1>8. ChunkInv'
  BY <1>1, <1>5, <1>6 DEF ChunkInv
<1>9. VisibleIsComplete'
  BY <1>1, <1>5, <1>6 DEF VisibleIsComplete, Active, ChunksOf, Complete
<1>10. CallOK(t)'
  <2>1. pc'[t] = l
    BY <1>3 DEF TypeControl
  <2>2. l = "sweep" => manifest'[j.src].rev = j.rev
    BY <1>3, <1>4 DEF TypeStore
  <2>3. AddOK(t)'
    BY <1>1, <1>5, <1>6, <2>1, <2>2 DEF AddOK, Revised
  <2>4. DestroyOK(t)' /\ SearchOK(t)'
    BY <2>1 DEF DestroyOK, SearchOK
  <2>5. QED
    BY <2>3, <2>4 DEF CallOK
<1>11. CallInv'
  BY <1>2, <1>3, <1>10, OthersFree
<1>12. FreshInv'
  <2>1. Unmarked = {}
    BY <1>2, UnmarkedAlone
  <2>2. Unmarked' = {j.rev}
    BY <1>1, <1>2, <1>3, UnmarkedAloneNext DEF Marking
  <2>3. \A r \in ActiveRevs' : r \in ActiveRevs \/ r = j.rev
    BY <1>6 DEF ActiveRevs, RevsOf, Active
  <2>4. QED
    BY <1>1, <2>1, <2>2, <2>3 DEF FreshInv
<1>13. QED
  BY <1>7, <1>8, <1>9, <1>11, <1>12

\* The sweep spares the revision the row points to, and every other source.
LEMMA SweepObsoleteSafe ==
  ASSUME Typed, LockInv, StoreInv, NEW t \in Threads, SweepObsolete(t)
  PROVE  StoreInv'
<1> USE DEF Typed, StoreInv
<1> DEFINE j == job[t]
<1>1. /\ pc[t] = "sweep" /\ pc' = [pc EXCEPT ![t] = "addDone"]
      /\ chunks' \in {chunks, chunks \ Obsolete(j)}
      /\ UNCHANGED <<manifest, generation, nextRev, lost, bm25, unindexed, dirty, job>>
  BY DEF SweepObsolete, Advance, Goto, index
<1>2. pc[t] \in VectorSteps /\ pc[t] \in Marking
  BY <1>1 DEF VectorSteps, AddSteps, Marking
<1>3. manifest[j.src].rev = j.rev
  BY <1>1 DEF CallInv, CallOK, AddOK
<1>4. chunks' \subseteq chunks
  BY <1>1
<1>5. RevInv'
  BY <1>1, <1>4 DEF RevInv, Active
<1>6. ChunkInv'
  BY <1>1, <1>4 DEF ChunkInv
<1>7. VisibleIsComplete'
  <2>1. ASSUME NEW s \in Sources, Active(s), manifest[s].rev \notin lost
        PROVE  /\ PartsOf[manifest[s].content] > 0
               /\ ChunksOf(manifest[s].rev, s, manifest[s].content) \subseteq chunks'
    <3>1. ChunksOf(manifest[s].rev, s, manifest[s].content) \subseteq chunks
      BY <2>1 DEF VisibleIsComplete
    <3>2. ChunksOf(manifest[s].rev, s, manifest[s].content) \cap Obsolete(j) = {}
      BY <1>3 DEF ChunksOf, Obsolete
    <3>3. QED
      BY <1>1, <2>1, <3>1, <3>2 DEF VisibleIsComplete
  <2>2. QED
    BY <1>1, <2>1 DEF VisibleIsComplete, Active, ChunksOf
<1>8. CallOK(t)'
  <2>1. pc'[t] = "addDone"
    BY <1>1 DEF TypeControl
  <2>2. AddOK(t)
    BY DEF CallInv, CallOK
  <2>3. AddOK(t)'
    BY <1>1, <1>4, <2>1, <2>2 DEF AddOK, Revised
  <2>4. DestroyOK(t)' /\ SearchOK(t)'
    BY <2>1 DEF DestroyOK, SearchOK
  <2>5. QED
    BY <2>3, <2>4 DEF CallOK
<1>9. CallInv'
  BY <1>1, <1>2, <1>8, OthersFree
<1>10. FreshInv'
  <2>1. Unmarked' = Unmarked
    <3>1. Unmarked = {j.rev}
      BY <1>2, UnmarkedAlone
    <3>2. "addDone" \in Marking
      BY DEF Marking
    <3>3. Unmarked' = {j.rev}
      BY <1>1, <1>2, <3>2, UnmarkedAloneNext
    <3>4. QED
      BY <3>1, <3>3
  <2>2. ActiveRevs' = ActiveRevs
    BY <1>1, SameActive DEF SameRows
  <2>3. QED
    BY <1>1, <1>4, <2>1, <2>2 DEF FreshInv
<1>11. QED
  BY <1>5, <1>6, <1>7, <1>9, <1>10

\* Whoever leaves add_document_to_kb relies on nothing any more.
LEMMA AddLeaves ==
  ASSUME Typed, LockInv, NEW t \in Threads, NEW changed, LeaveAdd(t, changed),
         pc[t] \in VectorSteps
  PROVE  CallInv' /\ Unmarked' = {}
<1>1. PICK l \in {"idle", "batch"} : pc' = [pc EXCEPT ![t] = l]
  BY DEF LeaveAdd, Goto
<1>2. l \notin Relying /\ l \notin Marking
  BY DEF Relying, Revised, Marking
<1>3. pc'[t] = l
  BY <1>1 DEF Typed, TypeControl
<1>4. CallOK(t)'
  BY <1>2, <1>3, CallVacuous
<1>5. CallInv'
  BY <1>1, <1>4, OthersFree DEF Typed
<1>6. Unmarked' = {}
  BY <1>1, <1>2, UnmarkedAloneNext DEF Typed
<1>7. QED
  BY <1>5, <1>6

LEMMA AddDoneSafe ==
  ASSUME Typed, LockInv, StoreInv, NEW t \in Threads, AddDone(t)
  PROVE  StoreInv'
<1>1. pc[t] \in VectorSteps
  BY DEF AddDone, VectorSteps, AddSteps
<1>2. CallInv'
  BY <1>1, AddLeaves DEF AddDone
<1>3. RevInv' /\ ChunkInv' /\ VisibleIsComplete'
  BY DurableKept, DurableSame DEF AddDone, StoreInv
<1>4. FreshInv'
  <2>1. CASE dirty' = TRUE
    BY <2>1 DEF FreshInv
  <2>2. CASE Reindex
    BY <2>2, FreshRebuilt, DurableSame DEF AddDone
  <2>3. QED
    BY <2>1, <2>2 DEF AddDone, RefreshIndex
<1>5. QED
  BY <1>2, <1>3, <1>4 DEF StoreInv

\* Rolling back removes only chunks of a revision that no row points to.
LEMMA RollbackAddSafe ==
  ASSUME Typed, LockInv, StoreInv, NEW t \in Threads, RollbackAdd(t)
  PROVE  StoreInv'
<1> USE DEF Typed, StoreInv
<1> DEFINE j == job[t]
<1>1. pc[t] = "rollback" /\ UNCHANGED <<manifest, generation, nextRev, lost>>
  BY DEF RollbackAdd
<1>2. pc[t] \in VectorSteps /\ pc[t] \in Marking
  BY <1>1 DEF VectorSteps, AddSteps, Marking
<1>3. PICK changed \in BOOLEAN : LeaveAdd(t, changed)
  BY DEF RollbackAdd
<1>4. CallInv'
  BY <1>2, <1>3, AddLeaves
<1>5. CASE dirty' = TRUE /\ UNCHANGED chunks
  <2>1. RevInv' /\ ChunkInv' /\ VisibleIsComplete'
    BY <1>1, <1>5, DurableKept DEF SameRows
  <2>2. FreshInv'
    BY <1>5 DEF FreshInv
  <2>3. QED
    BY <1>4, <2>1, <2>2
<1>6. CASE manifest[j.src].rev # j.rev /\ chunks' = chunks \ AddedChunks(j) /\ UNCHANGED index
  <2>1. \A s \in Sources : manifest[s].rev # j.rev
    BY <1>1, <1>6 DEF CallInv, CallOK, AddOK, Revised
  <2>2. chunks' \subseteq chunks
    BY <1>6
  <2>3. RevInv'
    BY <1>1, <2>2 DEF RevInv, Active
  <2>4. ChunkInv'
    BY <1>1, <2>2 DEF ChunkInv
  <2>5. VisibleIsComplete'
    BY <1>1, <1>6, <2>1 DEF VisibleIsComplete, Active, ChunksOf, AddedChunks
  <2>6. FreshInv'
    <3>1. Unmarked = {j.rev}
      BY <1>2, UnmarkedAlone
    <3>2. j.rev \notin ActiveRevs
      BY <2>1, ActiveRevsDef
    <3>3. ActiveRevs' = ActiveRevs
      BY <1>1, SameActive DEF SameRows
    <3>4. QED
      BY <1>6, <2>2, <3>1, <3>2, <3>3 DEF FreshInv, index
  <2>7. QED
    BY <1>4, <2>3, <2>4, <2>5, <2>6
<1>7. CASE /\ unindexed' = unindexed \cup ({j.rev} \cap ActiveRevs)
           /\ UNCHANGED <<chunks, bm25, dirty>>
  <2>1. RevInv' /\ ChunkInv' /\ VisibleIsComplete'
    BY <1>1, <1>7, DurableKept DEF SameRows
  <2>2. FreshInv'
    <3>1. Unmarked = {j.rev}
      BY <1>2, UnmarkedAlone
    <3>2. ActiveRevs' = ActiveRevs
      BY <1>1, SameActive DEF SameRows
    <3>3. QED
      BY <1>7, <3>1, <3>2 DEF FreshInv
  <2>3. QED
    BY <1>4, <2>1, <2>2
<1>8. QED
  BY <1>5, <1>6, <1>7 DEF RollbackAdd
-----------------------------------------------------------------------------
(***************************************************************************)
(* Deletions, clears, rebuilds.                                            *)
(***************************************************************************)

\* A destructive call that ends relies on nothing any more.
LEMMA DestroyLeaves ==
  ASSUME Typed, StoreInv, NEW t \in Threads, LeaveDestroy(t),
         pc[t] \notin Marking, UNCHANGED <<durable, index>>
  PROVE  StoreInv'
<1>1. pc' = [pc EXCEPT ![t] = "endGate"]
  BY DEF LeaveDestroy, Goto
<1>2. \A u \in Threads : u # t => job'[u] = job[u]
  BY DEF LeaveDestroy, Typed, TypeLocals
<1>3. "endGate" \notin Relying
  BY DEF Relying, Revised
<1>4. UNCHANGED <<durable, bm25, unindexed>> /\ dirty' = dirty
  BY DEF index
<1>5. QED
  BY <1>1, <1>2, <1>3, <1>4, QuietStep

LEMMA DeleteCheckSafe ==
  ASSUME Typed, LockInv, StoreInv, NEW t \in Threads, DeleteCheck(t)
  PROVE  StoreInv'
<1> USE DEF Typed, StoreInv
<1>1. /\ pc[t] = "deleteCheck" /\ pc' = [pc EXCEPT ![t] = "deleteCommit"]
      /\ job' = [job EXCEPT ![t].rev = manifest[job[t].src].rev,
                           ![t].seen = RowOf(job[t].src)]
      /\ UNCHANGED <<durable, index>> /\ MayDelete(job[t])
  BY DEF DeleteCheck, Advance, Goto
<1>2. pc[t] \in VectorSteps /\ pc[t] \notin Marking
  BY <1>1 DEF VectorSteps, DestroySteps, Marking
<1>3. RevInv' /\ ChunkInv' /\ VisibleIsComplete'
  BY <1>1, DurableKept, DurableSame
<1>4. CallOK(t)'
  <2>1. pc'[t] = "deleteCommit" /\ UNCHANGED manifest
    BY <1>1 DEF TypeControl, durable
  <2>2. /\ job'[t].rev = manifest[job[t].src].rev /\ job'[t].src = job[t].src
        /\ job'[t].actor = job[t].actor /\ job'[t].seen = RowOf(job[t].src)
    BY <1>1 DEF TypeLocals, Job
  <2>3. job'[t].seen[job[t].src] = manifest[job[t].src]
    BY ZenonT(60), <1>1, <2>2 DEF RowOf, NoRows, JobInv, Deleting
  <2>4. DestroyOK(t)'
    BY <1>1, <2>1, <2>2, <2>3 DEF DestroyOK, MayDelete, Active
  <2>5. AddOK(t)' /\ SearchOK(t)'
    BY <2>1 DEF AddOK, SearchOK, Revised
  <2>6. QED
    BY <2>4, <2>5 DEF CallOK
<1>5. CallInv'
  BY <1>1, <1>2, <1>4, OthersFree
<1>6. FreshInv'
  <2>1. Unmarked \subseteq Unmarked'
    BY <1>2, UnmarkedAlone
  <2>2. SameRows /\ UNCHANGED <<chunks, bm25, unindexed>> /\ dirty' = dirty
    BY <1>1, DurableSame DEF index
  <2>3. QED
    BY <2>1, <2>2, FreshKept
<1>7. QED
  BY <1>3, <1>5, <1>6

\* Rows that go take nothing with them that another row needs.
LEMMA RowsGo ==
  ASSUME Typed, LockInv, StoreInv, NEW t \in Threads, pc[t] \in VectorSteps,
         pc[t] \notin Marking, UNCHANGED <<chunks, nextRev, bm25, unindexed, dirty>>,
         \A s \in Sources : manifest'[s] = manifest[s] \/ manifest'[s] = NoRow,
         lost' = lost \/ \A s \in Sources : manifest'[s].rev = 0
  PROVE  RevInv' /\ ChunkInv' /\ VisibleIsComplete' /\ FreshInv'
<1> USE DEF Typed, StoreInv, NoRow
<1>1. nextRev \in Nat /\ nextRev > 0
  BY DEF TypeStore
<1>2. RevInv'
  BY <1>1 DEF RevInv, Active
<1>3. \A k \in chunks : k.rev # 0
  BY DEF TypeStore, Chunk, RevIds
<1>4. ChunkInv'
  BY <1>3 DEF ChunkInv
<1>5. VisibleIsComplete'
  BY DEF VisibleIsComplete, Active, ChunksOf
<1>6. FreshInv'
  <2>1. Unmarked = {}
    BY UnmarkedAlone
  <2>2. ActiveRevs' \subseteq ActiveRevs
    BY DEF ActiveRevs, RevsOf, Active
  <2>3. QED
    BY <2>1, <2>2 DEF FreshInv
<1>7. QED
  BY <1>2, <1>4, <1>5, <1>6

\* A cleared manifest shows nothing.
LEMMA RowsCleared ==
  ASSUME ClearManifest
  PROVE  \A s \in Sources : /\ manifest'[s] \in {manifest[s], NoRow}
                            /\ manifest'[s].rev = 0
BY DEF ClearManifest, AnyActive, Active, Publish, NoRows, NoRow

LEMMA DeleteCommitSafe ==
  ASSUME Typed, LockInv, StoreInv, NEW t \in Threads, DeleteCommit(t)
  PROVE  StoreInv'
<1> USE DEF Typed, StoreInv
<1>3. /\ job[t].src \in Sources /\ manifest[job[t].src].rev = job[t].rev
      /\ Active(job[t].src)
  BY DEF DeleteCommit, JobInv, Deleting, CallInv, CallOK, DestroyOK
<1>1. /\ pc[t] = "deleteCommit" /\ pc' = [pc EXCEPT ![t] = "deletePhysical"]
      /\ manifest' = [manifest EXCEPT ![job[t].src] = NoRow]
      /\ UNCHANGED <<chunks, nextRev, lost, bm25, unindexed, dirty, job>>
  BY <1>3 DEF DeleteCommit, Publish, Advance, Goto, index
<1>2. pc[t] \in VectorSteps /\ pc[t] \notin Marking
  BY <1>1 DEF VectorSteps, DestroySteps, Marking
<1>4. \A s \in Sources : manifest'[s] = manifest[s] \/ manifest'[s] = NoRow
  BY <1>1 DEF TypeStore
<1>5. RevInv' /\ ChunkInv' /\ VisibleIsComplete' /\ FreshInv'
  BY <1>1, <1>2, <1>4, RowsGo
<1>6. CallOK(t)'
  <2>1. pc'[t] = "deletePhysical"
    BY <1>1 DEF TypeControl
  <2>2. manifest'[job[t].src].rev = 0
    BY <1>1, <1>3 DEF TypeStore, NoRow
  <2>3. \A s \in Sources : s # job[t].src => manifest'[s] = manifest[s]
    BY <1>1 DEF TypeStore
  <2>4. DestroyOK(t)'
    BY <1>1, <1>3, <2>1, <2>2, <2>3 DEF DestroyOK, Active, RevInv
  <2>5. AddOK(t)' /\ SearchOK(t)'
    BY <2>1 DEF AddOK, SearchOK, Revised
  <2>6. QED
    BY <2>4, <2>5 DEF CallOK
<1>7. CallInv'
  BY <1>1, <1>2, <1>6, OthersFree
<1>8. QED
  BY <1>5, <1>7

\* Chunks that go belong to no active row.
LEMMA ChunksGo ==
  ASSUME Typed, StoreInv, LockInv, NEW t \in Threads, pc[t] \in VectorSteps,
         pc[t] \notin Marking, chunks' \subseteq chunks,
         UNCHANGED <<manifest, nextRev, lost, bm25, unindexed, dirty>>,
         \A k \in chunks \ chunks' : k.rev \notin ActiveRevs
  PROVE  RevInv' /\ ChunkInv' /\ VisibleIsComplete' /\ FreshInv'
<1> USE DEF Typed, StoreInv
<1>1. RevInv'
  BY DEF RevInv, Active
<1>2. ChunkInv'
  BY DEF ChunkInv
<1>3. VisibleIsComplete'
  BY ActiveRevsDef DEF VisibleIsComplete, Active, ChunksOf
<1>4. FreshInv'
  <2>1. Unmarked = {}
    BY UnmarkedAlone
  <2>2. ActiveRevs' = ActiveRevs
    BY SameActive DEF SameRows
  <2>3. QED
    BY <2>1, <2>2 DEF FreshInv
<1>5. QED
  BY <1>1, <1>2, <1>3, <1>4

LEMMA DeletePhysicalSafe ==
  ASSUME Typed, LockInv, StoreInv, NEW t \in Threads, DeletePhysical(t)
  PROVE  StoreInv'
<1> USE DEF Typed, StoreInv
<1>1. /\ pc[t] = "deletePhysical"
      /\ chunks' \in {chunks, chunks \ StoredOf({job[t].rev})}
      /\ UNCHANGED <<manifest, generation, nextRev, lost, bm25, unindexed, dirty>>
  BY DEF DeletePhysical, index
<1>2. PICK l \in {"refresh", "endGate"} : pc' = [pc EXCEPT ![t] = l]
  BY DEF DeletePhysical, LeaveDestroy, Advance, Goto
<1>3. pc[t] \in VectorSteps /\ pc[t] \notin Marking /\ l \notin Relying
  BY <1>1 DEF VectorSteps, DestroySteps, Marking, Relying, Revised
<1>4. job[t].rev \notin ActiveRevs
  BY ZenonT(60), <1>1, ActiveRevsDef DEF CallInv, CallOK, DestroyOK
<1>5. \A k \in chunks \ chunks' : k.rev \notin ActiveRevs
  BY <1>1, <1>4 DEF StoredOf
<1>6. RevInv' /\ ChunkInv' /\ VisibleIsComplete' /\ FreshInv'
  BY <1>1, <1>3, <1>5, ChunksGo
<1>7. pc'[t] = l
  BY <1>2 DEF TypeControl
<1>8. CallInv'
  BY <1>2, <1>3, <1>7, CallVacuous, OthersFree
<1>9. QED
  BY <1>6, <1>8

LEMMA ClearCommitSafe ==
  ASSUME Typed, LockInv, StoreInv, NEW t \in Threads, ClearCommit(t)
  PROVE  StoreInv'
<1> USE DEF Typed, StoreInv
<1>1. pc[t] = "clearCommit" /\ UNCHANGED <<chunks, nextRev, lost, syncs, index>>
  BY DEF ClearCommit
<1>2. pc[t] \in VectorSteps /\ pc[t] \notin Marking
  BY <1>1 DEF VectorSteps, DestroySteps, Marking
<1>3. CASE LeaveDestroy(t) /\ UNCHANGED <<manifest, generation, since>>
  BY <1>1, <1>2, <1>3, DestroyLeaves DEF durable
<1>4. CASE ClearManifest /\ Advance(t, "clearPhysical")
  <2>1. pc' = [pc EXCEPT ![t] = "clearPhysical"]
    BY <1>4 DEF Advance, Goto
  <2>2. \A s \in Sources : /\ manifest'[s] \in {manifest[s], NoRow}
                            /\ manifest'[s].rev = 0
    BY <1>4, RowsCleared
  <2>3. RevInv' /\ ChunkInv' /\ VisibleIsComplete' /\ FreshInv'
    BY <1>1, <1>2, <2>2, RowsGo DEF index
  <2>4. CallOK(t)'
    <3>1. pc'[t] = "clearPhysical"
      BY <2>1 DEF TypeControl
    <3>2. DestroyOK(t)'
      BY <2>2, <3>1 DEF DestroyOK, Active
    <3>3. AddOK(t)' /\ SearchOK(t)'
      BY <3>1 DEF AddOK, SearchOK, Revised
    <3>4. QED
      BY <3>2, <3>3 DEF CallOK
  <2>5. CallInv'
    BY <1>2, <2>1, <2>4, OthersFree
  <2>6. QED
    BY <2>3, <2>5
<1>5. QED
  BY <1>3, <1>4 DEF ClearCommit

LEMMA ClearPhysicalSafe ==
  ASSUME Typed, LockInv, StoreInv, NEW t \in Threads, ClearPhysical(t)
  PROVE  StoreInv'
<1> USE DEF Typed, StoreInv
<1>1. /\ pc[t] = "clearPhysical" /\ chunks' \subseteq chunks
      /\ UNCHANGED <<manifest, generation, nextRev, lost, bm25, unindexed, dirty>>
  BY DEF ClearPhysical, index
<1>2. PICK l \in {"refresh", "endGate"} : pc' = [pc EXCEPT ![t] = l]
  BY DEF ClearPhysical, LeaveDestroy, Advance, Goto
<1>3. pc[t] \in VectorSteps /\ pc[t] \notin Marking /\ l \notin Relying
  BY <1>1 DEF VectorSteps, DestroySteps, Marking, Relying, Revised
<1>4. ActiveRevs = {}
  BY <1>1 DEF CallInv, CallOK, DestroyOK, ActiveRevs, RevsOf
<1>5. RevInv' /\ ChunkInv' /\ VisibleIsComplete' /\ FreshInv'
  BY <1>1, <1>3, <1>4, ChunksGo
<1>6. pc'[t] = l
  BY <1>2 DEF TypeControl
<1>7. CallInv'
  BY <1>2, <1>3, <1>6, CallVacuous, OthersFree
<1>8. QED
  BY <1>5, <1>7

\* An index rebuilt, or left and marked stale, under the vector lock.
LEMMA RefreshSafe ==
  ASSUME Typed, LockInv, StoreInv, NEW t \in Threads, NEW l, RefreshIndex,
         pc[t] \in VectorSteps, l \notin Relying, pc' = [pc EXCEPT ![t] = l],
         UNCHANGED durable
  PROVE  StoreInv'
<1> USE DEF Typed, StoreInv
<1>1. RevInv' /\ ChunkInv' /\ VisibleIsComplete'
  BY DurableKept, DurableSame
<1>2. pc'[t] = l
  BY DEF TypeControl
<1>3. CallInv'
  BY <1>2, CallVacuous, OthersFree
<1>4. FreshInv'
  <2>1. CASE dirty' = TRUE
    BY <2>1 DEF FreshInv
  <2>2. CASE Reindex
    BY <2>2, FreshRebuilt, DurableSame
  <2>3. QED
    BY <2>1, <2>2 DEF RefreshIndex
<1>5. QED
  BY <1>1, <1>3, <1>4

LEMMA RefreshAfterDestroySafe ==
  ASSUME Typed, LockInv, StoreInv, NEW t \in Threads, RefreshAfterDestroy(t)
  PROVE  StoreInv'
<1>1. pc[t] \in VectorSteps /\ "endGate" \notin Relying
  BY DEF RefreshAfterDestroy, VectorSteps, DestroySteps, Relying, Revised
<1>2. pc' = [pc EXCEPT ![t] = "endGate"]
  BY DEF RefreshAfterDestroy, LeaveDestroy, Goto
<1>3. RefreshIndex /\ UNCHANGED durable
  BY DEF RefreshAfterDestroy
<1>4. QED
  BY <1>1, <1>2, <1>3, RefreshSafe

LEMMA FinalizeRefreshSafe ==
  ASSUME Typed, LockInv, StoreInv, NEW t \in Threads, FinalizeRefresh(t)
  PROVE  StoreInv'
<1>1. pc[t] \in VectorSteps /\ pc[t] \notin Marking /\ "idle" \notin Relying
  BY DEF FinalizeRefresh, VectorSteps, Marking, Relying, Revised
<1>2. pc' = [pc EXCEPT ![t] = "idle"]
  BY DEF FinalizeRefresh, Goto
<1>3. UNCHANGED <<durable, job>>
  BY DEF FinalizeRefresh
<1>4. CASE RefreshIndex
  BY <1>1, <1>2, <1>3, <1>4, RefreshSafe
<1>5. CASE UNCHANGED index
  <2>1. UNCHANGED <<bm25, unindexed>> /\ dirty' = dirty
    BY <1>5 DEF index
  <2>2. QED
    BY <1>1, <1>2, <1>3, <2>1, QuietStep
<1>6. QED
  BY <1>4, <1>5 DEF FinalizeRefresh

\* A dropped collection is the one thing that loses visible chunks, and it is
\* written down in lost.
LEMMA RebuildDropSafe ==
  ASSUME Typed, LockInv, StoreInv, NEW t \in Threads, RebuildDrop(t)
  PROVE  StoreInv'
<1> USE DEF Typed, StoreInv
<1>1. pc[t] = "rebuildDrop" /\ UNCHANGED <<manifest, generation, since, nextRev, syncs, index>>
  BY DEF RebuildDrop
<1>2. pc[t] \in VectorSteps /\ pc[t] \notin Marking
  BY <1>1 DEF VectorSteps, DestroySteps, Marking
<1>3. CASE LeaveDestroy(t) /\ UNCHANGED <<chunks, lost>>
  BY <1>1, <1>2, <1>3, DestroyLeaves DEF durable
<1>4. CASE chunks' = {} /\ lost' = ActiveRevs /\ Advance(t, "rebuildClear")
  <2>1. pc' = [pc EXCEPT ![t] = "rebuildClear"] /\ "rebuildClear" \notin Relying
    BY <1>4 DEF Advance, Goto, Relying, Revised
  <2>2. RevInv'
    BY <1>1, <1>4 DEF RevInv, Active
  <2>3. ChunkInv'
    BY <1>4 DEF ChunkInv
  <2>4. VisibleIsComplete'
    BY <1>1, <1>4, ActiveRevsDef DEF VisibleIsComplete, Active
  <2>5. FreshInv'
    BY <1>4 DEF FreshInv
  <2>6. pc'[t] = "rebuildClear"
    BY <2>1 DEF TypeControl
  <2>7. CallInv'
    BY <1>2, <2>1, <2>6, CallVacuous, OthersFree
  <2>8. QED
    BY <2>2, <2>3, <2>4, <2>5, <2>7
<1>5. QED
  BY <1>3, <1>4 DEF RebuildDrop

LEMMA RebuildClearSafe ==
  ASSUME Typed, LockInv, StoreInv, NEW t \in Threads, RebuildClear(t)
  PROVE  StoreInv'
<1> USE DEF Typed, StoreInv
<1>1. pc[t] = "rebuildClear" /\ UNCHANGED <<chunks, nextRev, syncs, index>>
  BY DEF RebuildClear
<1>2. pc[t] \in VectorSteps /\ pc[t] \notin Marking
  BY <1>1 DEF VectorSteps, DestroySteps, Marking
<1>3. CASE LeaveDestroy(t) /\ UNCHANGED <<manifest, generation, since, lost>>
  BY <1>1, <1>2, <1>3, DestroyLeaves DEF durable
<1>4. CASE ClearManifest /\ Advance(t, "rebuildOpen")
  <2>1. pc' = [pc EXCEPT ![t] = "rebuildOpen"] /\ "rebuildOpen" \notin Relying
    BY <1>4 DEF Advance, Goto, Relying, Revised
  <2>2. \A s \in Sources : /\ manifest'[s] \in {manifest[s], NoRow}
                            /\ manifest'[s].rev = 0
    BY <1>4, RowsCleared
  <2>3. RevInv' /\ ChunkInv' /\ VisibleIsComplete' /\ FreshInv'
    BY <1>1, <1>2, <2>2, RowsGo DEF index
  <2>4. pc'[t] = "rebuildOpen"
    BY <2>1 DEF TypeControl
  <2>5. CallInv'
    BY <1>2, <2>1, <2>4, CallVacuous, OthersFree
  <2>6. QED
    BY <2>3, <2>5
<1>5. QED
  BY <1>3, <1>4 DEF RebuildClear
-----------------------------------------------------------------------------
(***************************************************************************)
(* Searches.                                                               *)
(***************************************************************************)

\* A search that ends, with or without a result.
LEMMA SearchLeaves ==
  ASSUME Typed, StoreInv, NEW t \in Threads, NEW answer, LeaveSearch(t, answer),
         pc[t] \notin Marking, UNCHANGED index
  PROVE  StoreInv'
<1>1. PICK l \in {"idle", "answered"} : pc' = [pc EXCEPT ![t] = l]
  BY DEF LeaveSearch, Goto
<1>2. \A u \in Threads : u # t => job'[u] = job[u]
  BY DEF LeaveSearch, Typed, TypeLocals
<1>3. l \notin Relying
  BY DEF Relying, Revised
<1>4. UNCHANGED <<durable, bm25, unindexed>> /\ dirty' = dirty
  BY DEF LeaveSearch, index
<1>5. QED
  BY <1>1, <1>2, <1>3, <1>4, QuietStep

LEMMA SnapshotSafe ==
  ASSUME Typed, LockInv, StoreInv, NEW t \in Threads, Snapshot(t)
  PROVE  StoreInv'
<1> USE DEF Typed, StoreInv
<1>1. /\ pc[t] = "snapshot" /\ pc' = [pc EXCEPT ![t] = "filter"]
      /\ job' = [job EXCEPT ![t].gen = generation]
      /\ UNCHANGED <<durable, index>>
  BY DEF Snapshot, Advance, Goto
<1>2. pc[t] \in VectorSteps /\ pc[t] \notin Marking
  BY <1>1 DEF VectorSteps, SearchSteps, Marking
<1>3. RevInv' /\ ChunkInv' /\ VisibleIsComplete'
  BY <1>1, DurableKept, DurableSame
<1>4. CallOK(t)'
  <2>1. pc'[t] = "filter" /\ job'[t].gen = generation
    BY <1>1 DEF TypeControl, TypeLocals, Job
  <2>2. since <= generation /\ UNCHANGED <<since, generation>>
    BY <1>1 DEF TypeStore, durable
  <2>3. generation \in Nat
    BY DEF TypeStore
  <2>4. SearchOK(t)'
    BY <2>1, <2>2, <2>3 DEF SearchOK
  <2>5. AddOK(t)' /\ DestroyOK(t)'
    BY <2>1 DEF AddOK, DestroyOK, Revised
  <2>6. QED
    BY <2>4, <2>5 DEF CallOK
<1>5. CallInv'
  BY <1>1, <1>2, <1>4, OthersFree
<1>6. FreshInv'
  <2>1. Unmarked \subseteq Unmarked'
    BY <1>2, UnmarkedAlone
  <2>2. SameRows /\ UNCHANGED <<chunks, bm25, unindexed>> /\ dirty' = dirty
    BY <1>1, DurableSame DEF index
  <2>3. QED
    BY <2>1, <2>2, FreshKept
<1>7. QED
  BY <1>3, <1>5, <1>6

\* A filter is made of rows as they are.
LEMMA FilterSafe ==
  ASSUME Typed, LockInv, StoreInv, NEW t \in Threads, Filter(t)
  PROVE  StoreInv'
<1> USE DEF Typed, StoreInv
<1> DEFINE revs == VisibleTo(job[t].actor)
<1>1. pc[t] = "filter" /\ UNCHANGED <<durable, index>>
  BY DEF Filter, LeaveSearch
<1>2. pc[t] \in VectorSteps /\ pc[t] \notin Marking
  BY <1>1 DEF VectorSteps, SearchSteps, Marking
<1>3. CASE revs = {}
  <2>1. LeaveSearch(t, [gen |-> job[t].gen, hits |-> {}])
    BY <1>3 DEF Filter
  <2>2. QED
    BY <1>1, <1>2, <2>1, SearchLeaves
<1>4. CASE revs # {}
  <2>1. /\ pc' = [pc EXCEPT ![t] = "ensure"]
        /\ job' = [job EXCEPT ![t].revs = revs, ![t].seen = manifest]
    BY <1>4 DEF Filter, Advance, Goto
  <2>2. /\ job'[t].gen = job[t].gen /\ job'[t].actor = job[t].actor
        /\ job'[t].revs = revs /\ job'[t].seen = manifest
    BY <2>1 DEF TypeLocals, Job
  <2>3. pc'[t] = "ensure"
    BY <2>1 DEF TypeControl
  <2>4. UNCHANGED <<manifest, generation, since>>
    BY <1>1 DEF durable
  <2>5. ASSUME NEW r \in revs PROVE \E s \in Admitted(job[t])' : job'[t].seen[s].rev = r
    <3>1. PICK s \in Sources : /\ Active(s) /\ manifest[s].rev = r
                               /\ manifest[s].meta \in Retrievable
                               /\ <<job[t].actor, manifest[s].meta>> \in CanRead
      BY <2>5 DEF VisibleTo, RevsOf, RetrievableSources
    <3>2. s \in Admitted(job[t])'
      BY <2>2, <3>1 DEF Admitted, Active
    <3>3. QED
      BY <2>2, <3>1, <3>2
  <2>6. since <= job[t].gen /\ job[t].gen <= generation
    BY <1>1 DEF CallInv, CallOK, SearchOK
  <2> HIDE DEF revs
  <2>7. SearchOK(t)'
    BY <2>2, <2>3, <2>4, <2>5, <2>6 DEF SearchOK
  <2>8. AddOK(t)' /\ DestroyOK(t)'
    BY <2>3 DEF AddOK, DestroyOK, Revised
  <2>9. CallInv'
    BY <1>2, <2>1, <2>7, <2>8, OthersFree DEF CallOK
  <2>10. FreshInv'
    <3>1. Unmarked \subseteq Unmarked'
      BY <1>2, UnmarkedAlone
    <3>2. SameRows /\ UNCHANGED <<chunks, bm25, unindexed>> /\ dirty' = dirty
      BY <1>1, DurableSame DEF index
    <3>3. QED
      BY <3>1, <3>2, FreshKept
  <2>11. RevInv' /\ ChunkInv' /\ VisibleIsComplete'
    BY <1>1, DurableKept, DurableSame
  <2>12. QED
    BY <2>9, <2>10, <2>11
<1>5. QED
  BY <1>3, <1>4

\* No batch is open while a search runs, so a stale index is rebuilt; and one
\* that is not marked stale lacks nothing it was not built without, as no add
\* is under way.
LEMMA EnsureIndexSafe ==
  ASSUME Typed, LockInv, GateInv, StoreInv, NEW t \in Threads, EnsureIndex(t)
  PROVE  StoreInv'
<1> USE DEF Typed, StoreInv
<1>1. /\ pc[t] = "ensure" /\ pc' = [pc EXCEPT ![t] = "query"]
      /\ UNCHANGED <<durable, job>> /\ IndexActive
  BY DEF EnsureIndex, Advance, Goto
<1>2. pc[t] \in VectorSteps /\ pc[t] \notin Marking /\ pc[t] \in SearchCall
  BY <1>1 DEF VectorSteps, SearchSteps, SearchCall, Marking
<1>3. depth = 0
  BY <1>2, OpenFinite, FS_EmptySet DEF GateInv
<1>4. \/ dirty = FALSE /\ UNCHANGED <<bm25, unindexed, dirty>>
      \/ Reindex
  BY <1>1, <1>3 DEF IndexActive, index, TypeFlags
<1>5. Unmarked = {}
  BY <1>2, UnmarkedAlone
<1>6. \A k \in chunks : k.rev \in ActiveRevs \ unindexed' => k \in bm25'
  <2>1. CASE Reindex
    BY <2>1, RebuiltIndex
  <2>2. CASE dirty = FALSE /\ UNCHANGED <<bm25, unindexed, dirty>>
    BY <1>5, <2>2 DEF FreshInv
  <2>3. QED
    BY <1>4, <2>1, <2>2
<1>7. RevInv' /\ ChunkInv' /\ VisibleIsComplete'
  BY <1>1, DurableKept, DurableSame
<1>8. FreshInv'
  <2>1. CASE Reindex
    BY <1>1, <2>1, FreshRebuilt, DurableSame
  <2>2. CASE dirty = FALSE /\ UNCHANGED <<bm25, unindexed, dirty>>
    BY <1>1, <1>5, <2>2, FreshKept, DurableSame
  <2>3. QED
    BY <1>4, <2>1, <2>2
<1>9. CallOK(t)'
  <2>1. pc'[t] = "query"
    BY <1>1 DEF TypeControl
  <2>2. SearchOK(t)
    BY DEF CallInv, CallOK
  <2>3. job[t].revs \subseteq ActiveRevs
    <3>1. ASSUME NEW r \in job[t].revs PROVE r \in ActiveRevs
      <4>1. PICK s \in Admitted(job[t]) : job[t].seen[s].rev = r
        BY <1>1, <2>2 DEF SearchOK
      <4>2. s \in Sources /\ job[t].seen[s].rev # 0
        BY DEF Admitted
      <4>3. manifest[s].rev = r
        BY <1>1, <2>2, <4>1, <4>2 DEF SearchOK
      <4>4. QED
        BY <4>1, <4>2, <4>3, ActiveRevsDef DEF Active
    <3>2. QED
      BY <3>1
  <2>4. UNCHANGED <<chunks, manifest, generation, since, job>>
    BY <1>1 DEF durable
  <2>5. StoredOf(job[t].revs \ unindexed)' \subseteq bm25'
    BY <1>6, <2>3, <2>4 DEF StoredOf
  <2>6. Admitted(job[t])' = Admitted(job[t])
    BY <2>4 DEF Admitted
  <2>7. SearchOK(t)'
    BY <1>1, <2>1, <2>2, <2>4, <2>5, <2>6 DEF SearchOK
  <2>8. AddOK(t)' /\ DestroyOK(t)'
    BY <2>1 DEF AddOK, DestroyOK, Revised
  <2>9. QED
    BY <2>7, <2>8 DEF CallOK
<1>10. CallInv'
  BY <1>1, <1>2, <1>9, OthersFree
<1>11. QED
  BY <1>7, <1>8, <1>10

LEMMA QuerySafe ==
  ASSUME Typed, StoreInv, NEW t \in Threads, Query(t) \/ SearchFails(t)
  PROVE  StoreInv'
<1>1. pc[t] \notin Marking /\ UNCHANGED index
  BY DEF Query, SearchFails, Marking, SearchSteps
<1>2. \E answer : LeaveSearch(t, answer)
  BY DEF Query, SearchFails
<1>3. QED
  BY <1>1, <1>2, SearchLeaves
-----------------------------------------------------------------------------
(***************************************************************************)
(* Everything else relies on nothing.                                      *)
(***************************************************************************)

LEMMA RestartSafe ==
  ASSUME StoreInv, Restart
  PROVE  StoreInv'
<1>1. RevInv' /\ ChunkInv' /\ VisibleIsComplete'
  BY DurableKept, DurableSame DEF Restart, StoreInv
<1>2. FreshInv'
  BY DEF Restart, FreshInv
<1>3. \A t \in Threads : pc'[t] \notin Relying
  BY DEF Restart, Relying, Revised
<1>4. CallInv'
  BY <1>3, CallVacuous DEF CallInv
<1>5. QED
  BY <1>1, <1>2, <1>4 DEF StoreInv

LEMMA CallsSafe ==
  ASSUME Typed, StoreInv, NEW t \in Threads,
         \/ Call(t) \/ PassGate(t) \/ FinalizeBatch(t) \/ DropAnswer(t)
         \/ EndDestructive(t)
  PROVE  StoreInv'
<1> USE DEF Typed
<1>1. pc[t] \notin Marking /\ UNCHANGED <<durable, index>>
  BY DEF Call, Request, AddDocument, PassGate, BeginBatch, BeginDestructive, BeginSearch,
     Refuse, FinalizeBatch, DropAnswer, EndDestructive, Marking
<1>2. \A u \in Threads : u # t => job'[u] = job[u]
  <2>1. CASE BeginDestructive(t)
    BY <2>1 DEF BeginDestructive, TypeLocals
  <2>2. CASE AddDocument(t) \/ BeginSearch(t)
    BY <2>2 DEF AddDocument, BeginSearch, TypeLocals
  <2>3. CASE \/ Request(t) \/ BeginBatch(t) \/ Refuse(t) \/ FinalizeBatch(t)
             \/ DropAnswer(t) \/ EndDestructive(t)
    BY <2>3 DEF Request, BeginBatch, Refuse, FinalizeBatch, DropAnswer, EndDestructive,
       TypeLocals
  <2>4. QED
    BY <2>1, <2>2, <2>3 DEF Call, PassGate
<1> DEFINE Ends == AtGate \cup {"idle", "batch", "addWait", "searchWait", "finalizeWait",
                              "deleteWait", "clearWait", "rebuildWait"}
<1>3. \E l \in Ends : pc' = [pc EXCEPT ![t] = l]
  <2>1. CASE BeginDestructive(t)
    BY <2>1, DestructiveEntry
  <2>2. CASE BeginBatch(t) \/ AddDocument(t) \/ BeginSearch(t) \/ Refuse(t)
    BY <2>2 DEF BeginBatch, AddDocument, BeginSearch, Refuse, Goto
  <2>3. CASE FinalizeBatch(t) \/ DropAnswer(t) \/ EndDestructive(t)
    BY <2>3 DEF FinalizeBatch, DropAnswer, EndDestructive, Goto
  <2>4. CASE Request(t)
    BY <2>4 DEF Request, Goto
  <2>5. QED
    BY <2>1, <2>2, <2>3, <2>4 DEF Call, PassGate
<1>4. PICK l \in Ends : pc' = [pc EXCEPT ![t] = l]
  BY <1>3
<1>5. l \notin Relying
  BY DEF Relying, Revised, AtGate
<1>6. UNCHANGED <<durable, bm25, unindexed>> /\ dirty' = dirty
  BY <1>1 DEF index
<1>7. QED
  BY <1>1, <1>2, <1>4, <1>5, <1>6, QuietStep

LEMMA EnterVectorSafe ==
  ASSUME Typed, StoreInv, NEW t \in Threads, EnterVector(t)
  PROVE  StoreInv'
<1>1. /\ pc[t] \in Waiting /\ pc' = [pc EXCEPT ![t] = Inside(pc[t])]
      /\ UNCHANGED <<durable, index, job>>
  BY DEF EnterVector, Goto
<1>2. pc[t] \notin Marking
  BY <1>1 DEF Waiting, Marking
<1>3. Inside(pc[t]) \notin Relying
  BY <1>1 DEF Waiting, Inside, Relying, Revised
<1>4. UNCHANGED <<durable, bm25, unindexed>> /\ dirty' = dirty
  BY <1>1 DEF index
<1>5. QED
  BY <1>1, <1>2, <1>3, <1>4, QuietStep

LEMMA AddNothingSafe ==
  ASSUME Typed, StoreInv, NEW t \in Threads, AddNothing(t)
  PROVE  StoreInv'
<1>1. PICK l \in {"idle", "batch"} : pc' = [pc EXCEPT ![t] = l]
  BY AddExit
<1>2. \A u \in Threads : u # t => job'[u] = job[u]
  BY AddExit DEF Typed, TypeLocals
<1>3. pc[t] \notin Marking /\ l \notin Relying
  BY DEF AddNothing, Marking, Relying, Revised
<1>4. UNCHANGED <<durable, bm25, unindexed>> /\ dirty' = dirty
  BY DEF AddNothing, index
<1>5. QED
  BY <1>1, <1>2, <1>3, <1>4, QuietStep

LEMMA RebuildOpenSafe ==
  ASSUME Typed, StoreInv, NEW t \in Threads, RebuildOpen(t)
  PROVE  StoreInv'
<1>1. pc[t] \notin Marking /\ "endGate" \notin Relying
  BY DEF RebuildOpen, Marking, Relying, Revised
<1>2. /\ pc' = [pc EXCEPT ![t] = "endGate"]
      /\ UNCHANGED <<durable, bm25, unindexed, job>> /\ (~dirty' => ~dirty)
  BY DEF RebuildOpen, Goto
<1>3. QED
  BY <1>1, <1>2, QuietStep

LEMMA DeleteRefusedSafe ==
  ASSUME Typed, StoreInv, NEW t \in Threads, DeleteRefused(t)
  PROVE  StoreInv'
BY DestroyLeaves DEF DeleteRefused, Marking

LEMMA StoreInvStep ==
  ASSUME Typed, LockInv, GateInv, StoreInv, [Next]_vars
  PROVE  StoreInv'
<1>1. CASE UNCHANGED vars
  <2>1. RevInv' /\ ChunkInv' /\ VisibleIsComplete'
    BY <1>1, DurableKept, DurableSame DEF vars, durable, StoreInv
  <2>2. CallInv'
    <3>1. SameRows
      BY <1>1 DEF vars, SameRows
    <3>2. ASSUME NEW u \in Threads PROVE CallOK(u)'
      <4>1. CallOK(u) /\ (pc[u] \in Adding \cup Deleting => job[u].src \in Sources)
        BY DEF StoreInv, CallInv, Typed, JobInv
      <4>2. /\ pc'[u] = pc[u] /\ job'[u] = job[u] /\ generation' = generation
            /\ UNCHANGED <<chunks, since, bm25, unindexed>>
        BY <1>1 DEF vars
      <4>3. QED
        BY <3>1, <4>1, <4>2, CallKept DEF Typed
    <3>3. QED
      BY <3>2 DEF CallInv
  <2>3. Unmarked' = Unmarked
    BY <1>1 DEF vars, Unmarked
  <2>4. FreshInv'
    BY <1>1, <2>3, FreshKept DEF vars, StoreInv, SameRows
  <2>5. QED
    BY <2>1, <2>2, <2>4 DEF StoreInv
<1>2. CASE Restart
  BY <1>2, RestartSafe
<1>3. ASSUME NEW t \in Threads, AddStep(t) PROVE StoreInv'
  BY <1>3, AddNothingSafe, StartRevisionSafe, StagePartSafe, VerifyStagedSafe, CommitSourceSafe,
     SweepObsoleteSafe, AddDoneSafe, RollbackAddSafe DEF AddStep
<1>4. ASSUME NEW t \in Threads, DestroyStep(t) PROVE StoreInv'
  BY <1>4, DeleteRefusedSafe, DeleteCheckSafe, DeleteCommitSafe, DeletePhysicalSafe,
     ClearCommitSafe, ClearPhysicalSafe, RefreshAfterDestroySafe, RebuildDropSafe,
     RebuildClearSafe, RebuildOpenSafe, CallsSafe DEF DestroyStep
<1>5. ASSUME NEW t \in Threads, SearchStep(t) PROVE StoreInv'
  BY <1>5, SnapshotSafe, FilterSafe, EnsureIndexSafe, QuerySafe, CallsSafe DEF SearchStep
<1>6. ASSUME NEW t \in Threads,
             \/ Call(t) \/ PassGate(t) \/ EnterVector(t) \/ FinalizeRefresh(t)
             \/ FinalizeBatch(t)
      PROVE  StoreInv'
  BY <1>6, CallsSafe, EnterVectorSafe, FinalizeRefreshSafe
<1>7. ASSUME NEW s \in Sources, MetadataSynced(s) PROVE StoreInv'
  BY <1>7, MetadataSyncedSafe
<1>8. QED
  BY <1>1, <1>2, <1>3, <1>4, <1>5, <1>6, <1>7 DEF Next, Proceed
-----------------------------------------------------------------------------
(***************************************************************************)
(* The theorems.                                                           *)
(***************************************************************************)

LEMMA InitInv == Init => IInv
<1> SUFFICES ASSUME Init PROVE IInv
  OBVIOUS
<1>1. LockInv
  BY DEF Init, LockInv, VectorSteps, AddSteps, DestroySteps, SearchSteps, MutexSteps, InBatch
<1>2. GateInv
  <2>1. Open = {}
    BY DEF Init, Open, InBatch
  <2>2. QED
    BY <2>1, FS_EmptySet DEF Init, GateInv, DestroyCall, DestroySteps, SearchCall, SearchSteps
<1>3. RevInv /\ ChunkInv /\ VisibleIsComplete /\ FreshInv
  BY DEF Init, RevInv, ChunkInv, VisibleIsComplete, FreshInv, Active, NoRows, NoRow
<1>4. CallInv
  BY DEF Init, CallInv, CallOK, AddOK, DestroyOK, SearchOK, Revised
<1>5. QED
  BY <1>1, <1>2, <1>3, <1>4 DEF IInv, StoreInv

LEMMA TypedStep == Typed /\ [Next]_vars => Typed'
BY FlagsStep, StoreStep, ControlStep, LocalsStep, JobStep DEF Typed

LEMMA InvStep == Typed /\ IInv /\ [Next]_vars => IInv'
BY LockStep, GateStep, StoreInvStep DEF Typed, IInv

\* Everything below rests on this.
THEOREM Inductive == Spec => [](Typed /\ IInv)
<1>1. Init => Typed /\ IInv
  BY InitType, InitInv DEF Typed
<1>2. Typed /\ IInv /\ [Next]_vars => (Typed /\ IInv)'
  BY TypedStep, InvStep
<1>3. QED
  BY <1>1, <1>2, PTL DEF Spec

\* For any number of threads: a deletion, clear or rebuild shares the knowledge
\* base with no upload batch, no search and no other such call
\* (vector_store.py:300-347, 783-785).
THEOREM Exclusion == Spec => []GateExclusion
<1>1. Typed /\ IInv => GateExclusion
  BY DEF IInv, GateInv, GateExclusion, Open, SearchCall
<1>2. QED
  BY <1>1, Inductive, PTL

\* For any documents, failures and restarts: what the manifest shows is there
\* in full unless a rebuild dropped it (vector_store.py:384-585).
THEOREM Completeness == Spec => []VisibleIsComplete
<1>1. IInv => VisibleIsComplete
  BY DEF IInv, StoreInv
<1>2. QED
  BY <1>1, Inductive, PTL

\* For any history of batches, failed refreshes, rollbacks, restarts and syncs: a
\* keyword query runs on an index that has every chunk it may return, but for
\* those of revisions the index leaves out, which governance withheld when it
\* was built, or whose commit and rollback both failed
\* (vector_store.py:265-297, 559-578).
THEOREM Freshness == Spec => []QueriesSeeFreshIndex
<1>1. IInv => QueriesSeeFreshIndex
  BY DEF IInv, StoreInv, CallInv, CallOK, SearchOK, QueriesSeeFreshIndex
<1>2. QED
  BY <1>1, Inductive, PTL
-----------------------------------------------------------------------------
(***************************************************************************)
(* Rows are whole: either there is none, or it names a content.            *)
(***************************************************************************)

RowInv == \A s \in Sources : manifest[s] = NoRow \/ (Active(s) /\ manifest[s].content \in Contents)

\* How a step can change the manifest and the generation.
Commits(t) ==
    /\ pc[t] = "commit"
    /\ Publish([manifest EXCEPT ![job[t].src] =
                   [rev |-> job[t].rev, content |-> job[t].content, meta |-> job[t].meta]])

Withdraws(t) ==
    /\ pc[t] = "deleteCommit"
    /\ Active(job[t].src)
    /\ Publish([manifest EXCEPT ![job[t].src] = NoRow])

Clears(t) == pc[t] \in {"clearCommit", "rebuildClear"} /\ ClearManifest

Kept == UNCHANGED <<manifest, generation, since>>

LEMMA ManifestSteps ==
  ASSUME [Next]_vars
  PROVE  \/ Kept
         \/ \E t \in Threads : Commits(t) \/ Withdraws(t) \/ Clears(t)
         \/ \E s \in Sources : MetadataSynced(s)
<1>1. CASE UNCHANGED vars
  BY <1>1 DEF vars, Kept
<1>2. CASE Restart
  BY <1>2 DEF Restart, durable, Kept
<1>3. ASSUME NEW t \in Threads, Call(t) \/ PassGate(t) PROVE Kept
  BY <1>3 DEF Call, Request, AddDocument, PassGate, BeginBatch, BeginDestructive,
     BeginSearch, Refuse, durable, Kept
<1>4. ASSUME NEW t \in Threads, AddStep(t) PROVE Kept \/ Commits(t)
  <2>1. CASE CommitSource(t)
    BY <2>1 DEF CommitSource, Commits, Kept
  <2>2. CASE ~CommitSource(t)
    BY <1>4, <2>2 DEF AddStep, AddNothing, StartRevision, StagePart, VerifyStaged,
       SweepObsolete, AddDone, RollbackAdd, durable, Kept
  <2>3. QED
    BY <2>1, <2>2
<1>5. ASSUME NEW t \in Threads, DestroyStep(t) PROVE Kept \/ Withdraws(t) \/ Clears(t)
  <2>1. CASE DeleteCommit(t)
    BY <2>1 DEF DeleteCommit, Withdraws, Kept
  <2>2. CASE ClearCommit(t) \/ RebuildClear(t)
    BY <2>2 DEF ClearCommit, RebuildClear, Clears, Kept
  <2>3. CASE ~(DeleteCommit(t) \/ ClearCommit(t) \/ RebuildClear(t))
    BY <1>5, <2>3 DEF DestroyStep, DeleteRefused, DeleteCheck, DeletePhysical,
       ClearPhysical, RefreshAfterDestroy, RebuildDrop, RebuildOpen, EndDestructive,
       durable, Kept
  <2>4. QED
    BY <2>1, <2>2, <2>3
<1>6. ASSUME NEW t \in Threads, SearchStep(t) PROVE Kept
  BY <1>6 DEF SearchStep, Snapshot, Filter, EnsureIndex, SearchFails, Query, DropAnswer,
     LeaveSearch, durable, Kept
<1>7. ASSUME NEW t \in Threads, EnterVector(t) \/ FinalizeRefresh(t) \/ FinalizeBatch(t)
      PROVE  Kept
  BY <1>7 DEF EnterVector, FinalizeRefresh, FinalizeBatch, durable, Kept
<1>8. QED
  BY <1>1, <1>2, <1>3, <1>4, <1>5, <1>6, <1>7 DEF Next, Proceed

\* What a sync leaves of a row.
LEMMA SyncedRow ==
  ASSUME Typed, NEW s \in Sources, MetadataSynced(s), NEW u \in Sources
  PROVE  \/ manifest'[u] = manifest[u]
         \/ /\ Active(u) /\ manifest'[u].rev = manifest[u].rev
            /\ manifest'[u].content = manifest[u].content
            /\ \E m \in Metas : manifest'[u] = [manifest[u] EXCEPT !.meta = m]
<1>1. CASE UNCHANGED manifest
  BY <1>1
<1>2. ASSUME Active(s), NEW m \in Metas, manifest' = [manifest EXCEPT ![s].meta = m]
      PROVE  \/ manifest'[u] = manifest[u]
             \/ /\ Active(u) /\ manifest'[u].rev = manifest[u].rev
                /\ manifest'[u].content = manifest[u].content
                /\ manifest'[u] = [manifest[u] EXCEPT !.meta = m]
  BY <1>2 DEF Typed, TypeStore, Row
<1>3. QED
  BY <1>1, <1>2 DEF MetadataSynced

LEMMA RowStep ==
  ASSUME Typed, RowInv, [Next]_vars
  PROVE  RowInv'
<1>1. CASE Kept
  BY <1>1 DEF Kept, RowInv, Active
<1>2. ASSUME NEW t \in Threads, Commits(t) PROVE RowInv'
  <2>1. job[t].rev \in 1..(nextRev - 1) /\ job[t].content \in Contents /\ nextRev \in Nat
    BY <1>2 DEF Commits, Typed, JobInv, Revised, Adding, AddSteps, TypeStore
  <2>2. \A s \in Sources :
           \/ manifest'[s] = manifest[s]
           \/ manifest'[s] = [rev |-> job[t].rev, content |-> job[t].content, meta |-> job[t].meta]
    BY <1>2 DEF Commits, Publish, Typed, TypeStore
  <2>3. QED
    BY <2>1, <2>2 DEF RowInv, Active
<1>3. ASSUME NEW t \in Threads, Withdraws(t) PROVE RowInv'
  BY <1>3 DEF Withdraws, Publish, RowInv, Active, Typed, TypeStore
<1>4. ASSUME NEW t \in Threads, Clears(t) PROVE RowInv'
  BY <1>4 DEF Clears, ClearManifest, Publish, NoRows, RowInv, Active
<1>5. ASSUME NEW s \in Sources, MetadataSynced(s) PROVE RowInv'
  <2>1. ASSUME NEW u \in Sources
        PROVE  manifest'[u] = NoRow \/ (manifest'[u].rev # 0 /\ manifest'[u].content \in Contents)
    BY <1>5, SyncedRow DEF RowInv, Active, NoRow
  <2>2. QED
    BY <2>1 DEF RowInv, Active
<1>6. QED
  BY <1>1, <1>2, <1>3, <1>4, <1>5, ManifestSteps

Inv == Typed /\ IInv /\ RowInv

LEMMA Invariant == Spec => []Inv
<1>1. Init => RowInv
  BY DEF Init, NoRows, RowInv
<1>2. Typed /\ RowInv /\ [Next]_vars => RowInv'
  BY RowStep
<1>3. QED
  BY <1>1, <1>2, Inductive, PTL DEF Spec, Inv
-----------------------------------------------------------------------------
\* For any actors, metadata and interleaving of syncs: the contents of a row
\* change only by a caller who is authorised against the revision that is
\* replaced, under the metadata the call found, or by a clear or rebuild
\* (vector_store.py:408-422, 616-626).
THEOREM Authorization == Spec => ChangesAuthorized
<1> DEFINE Same(s) == [manifest'[s] EXCEPT !.meta = None] = [manifest[s] EXCEPT !.meta = None]
           A == \A s \in Sources :
                   \/ [manifest'[s] EXCEPT !.meta = None] = [manifest[s] EXCEPT !.meta = None]
                   \/ AuthorizedChange(s)
<1>1. Inv /\ [Next]_vars => [A]_vars
  <2> SUFFICES ASSUME Inv, [Next]_vars, NEW s \in Sources, ~Same(s)
               PROVE  AuthorizedChange(s)
    OBVIOUS
  <2>1. ~Kept
    BY DEF Kept
  <2>2. \A u \in Sources : ~MetadataSynced(u)
    <3>1. ASSUME NEW u \in Sources, MetadataSynced(u) PROVE FALSE
      <4>1. CASE manifest'[s] = manifest[s]
        BY <4>1
      <4>2. CASE manifest'[s] # manifest[s]
        <5>1. PICK m \in Metas : manifest'[s] = [manifest[s] EXCEPT !.meta = m]
          BY <3>1, <4>2, SyncedRow DEF Inv
        <5>2. manifest[s] \in Row
          BY DEF Inv, Typed, TypeStore
        <5>3. QED
          BY <5>1, <5>2 DEF Row
      <4>3. QED
        BY <4>1, <4>2
    <3>2. QED
      BY <3>1
  <2>3. PICK t \in Threads : Commits(t) \/ Withdraws(t) \/ Clears(t)
    BY <2>1, <2>2, ManifestSteps
  <2>4. manifest'[s] # manifest[s]
    OBVIOUS
  <2>5. CASE Commits(t)
    <3>1. pc[t] = "commit" /\ job[t].src = s
      BY <2>4, <2>5 DEF Commits, Publish, Inv, Typed, TypeStore
    <3>2. AddOK(t)
      BY DEF Inv, IInv, StoreInv, CallInv, CallOK
    <3>3. QED
      BY <3>1, <3>2 DEF AddOK, AuthorizedChange
  <2>6. CASE Withdraws(t)
    <3>1. pc[t] = "deleteCommit" /\ job[t].src = s
      BY <2>4, <2>6 DEF Withdraws, Publish, Inv, Typed, TypeStore
    <3>2. DestroyOK(t)
      BY DEF Inv, IInv, StoreInv, CallInv, CallOK
    <3>3. QED
      BY <3>1, <3>2 DEF DestroyOK, AuthorizedChange
  <2>7. CASE Clears(t)
    BY <2>7 DEF Clears, AuthorizedChange
  <2>8. QED
    BY <2>3, <2>5, <2>6, <2>7
<1>2. QED
  BY <1>1, Invariant, PTL DEF Spec, ChangesAuthorized
-----------------------------------------------------------------------------
(***************************************************************************)
(* What a search hands out.                                                *)
(***************************************************************************)

\* How a step can change the answers callers hold.
Retrieves(t) ==
    /\ UNCHANGED <<manifest, generation, since>>
    /\ \/ pc[t] = "filter" /\ answers' = [answers EXCEPT ![t] = [gen |-> job[t].gen, hits |-> {}]]
       \/ /\ pc[t] = "query"
          /\ \E keep \in SUBSET {<<k.src, k.content>> : k \in VectorHits(job[t]) \cup KeywordHits(job[t])} :
                answers' = [answers EXCEPT ![t] = [gen |-> job[t].gen, hits |-> keep]]

Forgets ==
    /\ UNCHANGED <<manifest, generation, since>>
    /\ \/ \E t \in Threads : answers' = [answers EXCEPT ![t] = NoAnswer]
       \/ answers' = [t \in Threads |-> NoAnswer]

LEMMA AnswerSteps ==
  ASSUME [Next]_vars
  PROVE  UNCHANGED answers \/ Forgets \/ \E t \in Threads : Retrieves(t)
<1>1. CASE UNCHANGED vars
  BY <1>1 DEF vars
<1>2. CASE Restart
  BY <1>2 DEF Restart, durable, Forgets
<1>3. ASSUME NEW t \in Threads, Call(t) \/ PassGate(t) PROVE UNCHANGED answers
  BY <1>3 DEF Call, Request, AddDocument, PassGate, BeginBatch, BeginDestructive,
     BeginSearch, Refuse
<1>4. ASSUME NEW t \in Threads, AddStep(t) PROVE UNCHANGED answers
  BY <1>4 DEF AddStep, AddNothing, StartRevision, StagePart, VerifyStaged, CommitSource,
     SweepObsolete, AddDone, RollbackAdd, LeaveAdd, Advance
<1>5. ASSUME NEW t \in Threads, DestroyStep(t) PROVE UNCHANGED answers
  BY <1>5 DEF DestroyStep, DeleteRefused, DeleteCheck, DeleteCommit, DeletePhysical,
     ClearCommit, ClearPhysical, RefreshAfterDestroy, RebuildDrop, RebuildClear,
     RebuildOpen, EndDestructive, LeaveDestroy, Advance
<1>6. ASSUME NEW t \in Threads, SearchStep(t)
      PROVE  UNCHANGED answers \/ Forgets \/ Retrieves(t)
  <2>1. CASE Snapshot(t) \/ Filter(t)
    BY <2>1 DEF Snapshot, Filter, LeaveSearch, Advance, durable, Retrieves
  <2>2. CASE Query(t)
    <3>1. PICK keep \in SUBSET {<<k.src, k.content>> : k \in VectorHits(job[t]) \cup KeywordHits(job[t])} :
             LeaveSearch(t, [gen |-> job[t].gen, hits |-> keep])
      BY <2>2 DEF Query
    <3>2. answers' = [answers EXCEPT ![t] = [gen |-> job[t].gen, hits |-> keep]]
      BY <3>1 DEF LeaveSearch
    <3>3. UNCHANGED <<manifest, generation, since>>
      BY <3>1 DEF LeaveSearch, durable
    <3>4. pc[t] = "query"
      BY <2>2 DEF Query
    <3>5. QED
      BY <3>2, <3>3, <3>4 DEF Retrieves
  <2>3. CASE SearchFails(t)
    BY <2>3 DEF SearchFails, LeaveSearch, durable, Forgets
  <2>4. CASE DropAnswer(t)
    BY <2>4 DEF DropAnswer, durable, Forgets
  <2>5. CASE EnsureIndex(t)
    BY <2>5 DEF EnsureIndex, Advance
  <2>6. QED
    BY <1>6, <2>1, <2>2, <2>3, <2>4, <2>5 DEF SearchStep
<1>7. ASSUME NEW t \in Threads, EnterVector(t) \/ FinalizeRefresh(t) \/ FinalizeBatch(t)
      PROVE  UNCHANGED answers
  BY <1>7 DEF EnterVector, FinalizeRefresh, FinalizeBatch
<1>8. ASSUME NEW s \in Sources, MetadataSynced(s) PROVE UNCHANGED answers
  BY <1>8 DEF MetadataSynced
<1>9. QED
  BY <1>1, <1>2, <1>3, <1>4, <1>5, <1>6, <1>7, <1>8 DEF Next, Proceed

\* A passage found is the current content of a source, which its caller could
\* read when the filter was made.
LEMMA FoundIsCurrent ==
  ASSUME Inv, NEW t \in Threads, pc[t] = "query",
         NEW k \in VectorHits(job[t]) \cup KeywordHits(job[t])
  PROVE  /\ k.src \in Admitted(job[t]) /\ k.content \in Contents
         /\ job[t].seen[k.src].rev = manifest[k.src].rev
         /\ job[t].seen[k.src].content = k.content
         /\ manifest[k.src].content = k.content
<1>1. SearchOK(t)
  BY DEF Inv, IInv, StoreInv, CallInv, CallOK
<1>2. k \in chunks /\ k.rev \in job[t].revs
  BY DEF VectorHits, KeywordHits, StoredOf
<1>3. PICK s \in Admitted(job[t]) : job[t].seen[s].rev = k.rev
  BY <1>1, <1>2 DEF SearchOK
<1>4. s \in Sources
  BY DEF Admitted
<1>5. manifest[s].rev = k.rev /\ job[t].seen[s].content = manifest[s].content
  BY <1>1, <1>3, <1>4 DEF SearchOK
<1>6. k.src = s /\ k.content = manifest[s].content
  BY <1>2, <1>4, <1>5 DEF Inv, IInv, StoreInv, ChunkInv
<1>7. k.content \in Contents
  BY <1>2 DEF Inv, Typed, TypeStore, Chunk
<1>8. QED
  BY <1>3, <1>5, <1>6, <1>7

\* For any access rules, governance and interleaving of syncs: a search hands out
\* only passages of revisions still active that its filter had found readable
\* (vector_store.py:77-100, 829-866).
THEOREM Readability == Spec => OnlyReadable
<1> DEFINE Fit(t, p) == LET found == job[t].seen[p[1]]
                        IN  /\ found.rev = manifest[p[1]].rev
                            /\ found.content = p[2]
                            /\ found.meta \in Retrievable
                            /\ <<job[t].actor, found.meta>> \in CanRead
           A == \A t \in Threads : answers'[t] # answers[t] =>
                   \A p \in answers'[t].hits : Fit(t, p)
<1>1. Inv /\ [Next]_vars => [A]_vars
  <2> SUFFICES ASSUME Inv, [Next]_vars, NEW t \in Threads, answers'[t] # answers[t],
                      NEW p \in answers'[t].hits
               PROVE  Fit(t, p)
    OBVIOUS
  <2>1. answers \in [Threads -> Answer]
    BY DEF Inv, Typed, TypeLocals
  <2>2. ~Forgets
    BY <2>1 DEF Forgets, NoAnswer
  <2>3. PICK u \in Threads : Retrieves(u)
    BY <2>2, AnswerSteps
  <2>4. u = t
    BY <2>1, <2>3 DEF Retrieves
  <2>5. pc[t] = "query" /\ \E k \in VectorHits(job[t]) \cup KeywordHits(job[t]) : p = <<k.src, k.content>>
    BY <2>1, <2>3, <2>4 DEF Retrieves
  <2>6. PICK k \in VectorHits(job[t]) \cup KeywordHits(job[t]) : p = <<k.src, k.content>>
    BY <2>5
  <2>7. /\ k.src \in Admitted(job[t])
        /\ job[t].seen[k.src].rev = manifest[k.src].rev
        /\ job[t].seen[k.src].content = k.content
    BY <2>5, FoundIsCurrent
  <2>8. p[1] = k.src /\ p[2] = k.content
    BY <2>6
  <2>9. QED
    BY <2>7, <2>8 DEF Admitted
<1>2. QED
  BY <1>1, Invariant, PTL DEF Spec, OnlyReadable
-----------------------------------------------------------------------------
(***************************************************************************)
(* Refinement.                                                             *)
(***************************************************************************)

Shown == [s \in Sources |-> manifest[s].content]

LEMMA CorpusInit == Init => CorpusView!Init
BY DEF Init, CorpusView!Init, CorpusView!NoAnswer, NoRows, NoRow, NoAnswer

LEMMA CorpusPublish ==
  ASSUME Inv, NEW t \in Threads, Commits(t), UNCHANGED answers
  PROVE  CorpusView!Next
<1>1. job[t].src \in Sources /\ job[t].content \in Contents
  BY DEF Commits, Inv, Typed, JobInv, Adding, AddSteps
<1>2. PICK s \in Sources : s = job[t].src
  BY <1>1
<1>3. Shown' = [Shown EXCEPT ![s] = job[t].content]
  BY <1>2 DEF Commits, Publish, Shown, Inv, Typed, TypeStore
<1>4. CorpusView!Publish(s)
  BY <1>1, <1>3 DEF CorpusView!Publish, CorpusView!NewStamp, Shown, Commits, Publish
<1>5. QED
  BY <1>4 DEF CorpusView!Next

LEMMA CorpusWithdraw ==
  ASSUME Inv, NEW t \in Threads, Withdraws(t), UNCHANGED answers
  PROVE  CorpusView!Next
<1>1. job[t].src \in Sources /\ Active(job[t].src)
  BY DEF Withdraws, Inv, Typed, JobInv, Deleting
<1>2. PICK s \in Sources : s = job[t].src
  BY <1>1
<1>3. Shown[s] # None
  BY <1>1, <1>2 DEF Inv, RowInv, Shown, Active, NoRow
<1>4. Shown' = [Shown EXCEPT ![s] = None]
  BY <1>2 DEF Withdraws, Publish, Shown, Inv, Typed, TypeStore, NoRow
<1>5. CorpusView!NewStamp
  BY DEF Withdraws, Publish, CorpusView!NewStamp
<1>6. CorpusView!Withdraw(s)
  BY <1>3, <1>4, <1>5 DEF CorpusView!Withdraw, Shown
<1>7. QED
  BY <1>6 DEF CorpusView!Next

LEMMA CorpusClear ==
  ASSUME Inv, NEW t \in Threads, Clears(t), UNCHANGED answers
  PROVE  CorpusView!Next \/ UNCHANGED CorpusView!corpusVars
<1>1. CASE AnyActive
  <2>1. PICK s \in Sources : Active(s)
    BY <1>1 DEF AnyActive
  <2>2. Shown[s] # None
    BY <2>1 DEF Inv, RowInv, Shown, Active, NoRow
  <2>3. Publish(NoRows)
    BY <1>1 DEF Clears, ClearManifest
  <2>4. Shown' = [u \in Sources |-> None]
    BY <2>3 DEF Publish, NoRows, Shown, NoRow
  <2>5. CorpusView!WithdrawAll
    BY <2>1, <2>2, <2>3, <2>4 DEF CorpusView!WithdrawAll, CorpusView!NewStamp, Shown, Publish
  <2>6. QED
    BY <2>5 DEF CorpusView!Next
<1>2. CASE ~AnyActive
  BY <1>2 DEF Clears, ClearManifest, CorpusView!corpusVars
<1>3. QED
  BY <1>1, <1>2

LEMMA CorpusRestamp ==
  ASSUME Inv, NEW s \in Sources, MetadataSynced(s)
  PROVE  CorpusView!Next
<1>1. \A u \in Sources : manifest'[u].content = manifest[u].content
  BY SyncedRow DEF Inv
<1>2. Shown' = Shown
  BY <1>1 DEF Shown
<1>3. CorpusView!Restamp
  BY <1>2 DEF CorpusView!Restamp, MetadataSynced, Shown
<1>4. QED
  BY <1>3 DEF CorpusView!Next

LEMMA CorpusRetrieve ==
  ASSUME Inv, NEW t \in Threads, Retrieves(t)
  PROVE  CorpusView!Next
<1>1. job[t].gen \in since..generation
  <2>1. pc[t] \in {"filter", "query"}
    BY DEF Retrieves
  <2>2. since <= job[t].gen /\ job[t].gen <= generation
    BY <2>1 DEF Inv, IInv, StoreInv, CallInv, CallOK, SearchOK
  <2>3. job[t].gen \in Nat /\ since \in Nat /\ generation \in Nat
    BY DEF Inv, Typed, TypeLocals, TypeStore, Job
  <2>4. QED
    BY <2>2, <2>3
<1>2. \E hits \in SUBSET CorpusView!Visible :
         answers' = [answers EXCEPT ![t] = [gen |-> job[t].gen, hits |-> hits]]
  <2>1. CASE pc[t] = "filter"
    BY <2>1 DEF Retrieves
  <2>2. CASE pc[t] = "query"
    <3>1. PICK keep \in SUBSET {<<k.src, k.content>> : k \in VectorHits(job[t]) \cup KeywordHits(job[t])} :
             answers' = [answers EXCEPT ![t] = [gen |-> job[t].gen, hits |-> keep]]
      BY <2>2 DEF Retrieves
    <3>2. ASSUME NEW p \in keep PROVE p \in CorpusView!Visible
      <4>1. PICK k \in VectorHits(job[t]) \cup KeywordHits(job[t]) : p = <<k.src, k.content>>
        BY <3>2
      <4>2. /\ k.src \in Admitted(job[t]) /\ k.content \in Contents
            /\ manifest[k.src].content = k.content
        BY <2>2, FoundIsCurrent
      <4>3. k.src \in Sources
        BY <4>2 DEF Admitted
      <4>4. QED
        BY <4>1, <4>2, <4>3 DEF CorpusView!Visible, CorpusView!Passages
    <3>3. QED
      BY <3>1, <3>2
  <2>3. QED
    BY <2>1, <2>2 DEF Retrieves
<1>3. \E hits \in SUBSET CorpusView!Visible, gen \in since..generation :
         answers' = [answers EXCEPT ![t] = [gen |-> gen, hits |-> hits]]
  BY <1>1, <1>2
<1>4. Shown' = Shown /\ UNCHANGED <<generation, since>>
  BY DEF Retrieves, Shown
<1>5. CorpusView!Retrieve(t)
  BY <1>3, <1>4 DEF CorpusView!Retrieve, Shown
<1>6. QED
  BY <1>5 DEF CorpusView!Next

LEMMA CorpusForget ==
  ASSUME Inv, Forgets
  PROVE  CorpusView!Next
<1>1. answers \in [Threads -> Answer] /\ CorpusView!NoAnswer = NoAnswer
  BY DEF Inv, Typed, TypeLocals, CorpusView!NoAnswer, NoAnswer
<1>2. \E R \in SUBSET Threads :
         answers' = [r \in Threads |-> IF r \in R THEN NoAnswer ELSE answers[r]]
  <2>1. CASE answers' = [t \in Threads |-> NoAnswer]
    BY <2>1
  <2>2. ASSUME NEW t \in Threads, answers' = [answers EXCEPT ![t] = NoAnswer]
        PROVE  \E R \in SUBSET Threads :
                  answers' = [r \in Threads |-> IF r \in R THEN NoAnswer ELSE answers[r]]
    <3>1. answers' = [r \in Threads |-> IF r \in {t} THEN NoAnswer ELSE answers[r]]
      BY <1>1, <2>2
    <3>2. {t} \in SUBSET Threads
      OBVIOUS
    <3>3. QED
      BY <3>1, <3>2
  <2>3. QED
    BY <2>1, <2>2 DEF Forgets
<1>3. Shown' = Shown /\ UNCHANGED <<generation, since>>
  BY DEF Forgets, Shown
<1>4. CorpusView!Forget
  BY SMTT(30), <1>1, <1>2, <1>3 DEF CorpusView!Forget, Shown
<1>5. QED
  BY <1>4 DEF CorpusView!Next

\* A step that changes a row hands out no answer.
LEMMA RowsApartFromAnswers ==
  ASSUME Inv, [Next]_vars, NEW t \in Threads, Commits(t) \/ Withdraws(t) \/ Clears(t),
         ~Kept
  PROVE  UNCHANGED answers
BY AnswerSteps DEF Kept, Forgets, Retrieves

\* For any numbers of threads, sources, contents and restarts, the knowledge
\* base is the dictionary Corpus describes (vector_store.py:384-866,
\* kb_manifest.py:215-331).
THEOREM Refinement == Spec => RefinesCorpus
<1>1. Inv /\ [Next]_vars => [CorpusView!Next]_(CorpusView!corpusVars)
  <2> SUFFICES ASSUME Inv, [Next]_vars
               PROVE  CorpusView!Next \/ UNCHANGED CorpusView!corpusVars
    OBVIOUS
  <2>1. CASE Kept
    <3>1. CASE UNCHANGED answers
      BY <2>1, <3>1 DEF Kept, CorpusView!corpusVars
    <3>2. CASE Forgets
      BY <3>2, CorpusForget
    <3>3. CASE \E t \in Threads : Retrieves(t)
      BY <3>3, CorpusRetrieve
    <3>4. QED
      BY <3>1, <3>2, <3>3, AnswerSteps
  <2>2. ASSUME NEW t \in Threads, Commits(t) \/ Withdraws(t) \/ Clears(t), ~Kept
        PROVE  CorpusView!Next \/ UNCHANGED CorpusView!corpusVars
    <3>1. UNCHANGED answers
      BY <2>2, RowsApartFromAnswers
    <3>2. QED
      BY <2>2, <3>1, CorpusPublish, CorpusWithdraw, CorpusClear
  <2>3. CASE \E s \in Sources : MetadataSynced(s)
    BY <2>3, CorpusRestamp
  <2>4. QED
    BY <2>1, <2>2, <2>3, ManifestSteps
<1>2. QED
  BY <1>1, CorpusInit, Invariant, PTL DEF Spec, RefinesCorpus, CorpusView!Spec
=============================================================================
