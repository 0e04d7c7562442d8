---------------------------- MODULE KnowledgeBase ----------------------------
(***************************************************************************)
(* The process-wide knowledge base: the Chroma collection of chunks, the   *)
(* SQLite manifest that says which revision of a source is visible, the    *)
(* derived BM25 index, and the two locks and the batch/destructive gate    *)
(* that serialise uploads, deletions, clears, rebuilds and searches        *)
(* (storage/vector_store.py, storage/kb_manifest.py, rag/hybrid.py).       *)
(*                                                                         *)
(* One action is what a thread does between two points where another       *)
(* thread, an I/O failure or a restart of the process can intervene.       *)
(* Embedding, ranking and the text of chunks are left out; a "part" stands *)
(* for one write batch of a document's chunks.                             *)
(*                                                                         *)
(* The sync commands rewrite the metadata of a source in processes of      *)
(* their own and take none of the locks: MetadataSynced.                   *)
(***************************************************************************)
EXTENDS Naturals, FiniteSets

CONSTANTS Threads,     \* request, worker and maintenance threads
          Actors,      \* the principals they act for
          Sources,     \* document names
          Contents,    \* document texts, compared by content hash
          Metas,       \* the access and governance metadata a source can carry
          Retrievable, \* the metadata whose governance admits retrieval
          PartsOf,     \* PartsOf[c]: how many write batches content c needs
          CanCreate, CanManage, CanRead,   \* storage/acl.py, as relations
          None,        \* no thread, no source, no row
          MaxRev,      \* bound: revisions a behaviour allocates
          MaxCrashes,  \* bound: restarts in a behaviour
          MaxSyncs     \* bound: rows the sync commands rewrite in a behaviour

ASSUME KBConstants ==
    /\ IsFiniteSet(Threads)
    /\ PartsOf \in [Contents -> Nat]
    /\ Retrievable \subseteq Metas
    /\ CanCreate \subseteq Actors \X Metas
    /\ CanManage \subseteq Actors \X Metas
    /\ CanRead \subseteq Actors \X Metas
    /\ None \notin Threads \cup Actors \cup Sources \cup Contents \cup Metas
    /\ MaxRev \in Nat
    /\ MaxCrashes \in Nat
    /\ MaxSyncs \in Nat

VARIABLES
    \* durable: the Chroma directory and the manifest database
    chunks,        \* the stored chunks, visible or not
    manifest,      \* manifest[s]: the active row of s, NoRow when absent
    generation,    \* the manifest generation
    since,         \* history: the generation that brought the present contents
    nextRev,       \* the next revision id uuid4 has not produced yet
    lost,          \* history: active revisions whose chunks a rebuild dropped
    \* volatile: module globals
    bm25,          \* the chunks the keyword index was built from
    unindexed,     \* history: active revisions left out of it, see RefreshIndex
    dirty,         \* _bm25_dirty
    depth,         \* _batch_update_depth
    batchMutated,  \* _batch_mutated
    destructive,   \* _destructive_mutation
    mutex,         \* who holds _MUTATION_CONDITION across a step
    vlock,         \* who holds _VECTOR_LOCK
    \* volatile: the threads
    pc,            \* pc[t]: what t does next
    batch,         \* batch[t]: t's upload batch and its batch_mutated flag
    job,           \* job[t]: the locals of t's current call
    answers,       \* answers[t]: the search result t's caller still holds
    crashes,       \* restarts so far
    syncs          \* rows rewritten by the sync commands so far

durable == <<chunks, manifest, generation, since, nextRev, lost, syncs>>
index == <<bm25, unindexed, dirty>>
gate == <<depth, batchMutated, destructive>>
vars == <<chunks, manifest, generation, since, nextRev, lost, bm25, unindexed, dirty,
          depth, batchMutated, destructive, mutex, vlock, pc, batch, job, answers,
          crashes, syncs>>
-----------------------------------------------------------------------------
(***************************************************************************)
(* Data.                                                                   *)
(***************************************************************************)

RevIds == 1..MaxRev
PartNumbers == UNION {1..PartsOf[c] : c \in Contents}
Chunk == [rev : RevIds, part : PartNumbers, src : Sources, content : Contents]
Row == [rev : 0..MaxRev, content : Contents \cup {None}, meta : Metas \cup {None}]
NoRow == [rev |-> 0, content |-> None, meta |-> None]
NoRows == [s \in Sources |-> NoRow]

Active(s) == manifest[s].rev # 0
RevsOf(S) == {manifest[s].rev : s \in {u \in S : Active(u)}}
ActiveRevs == RevsOf(Sources)

\* source_allowed_for_retrieval under the policy all_active.  A stricter policy
\* finds fewer sources, which the choice in Query covers.
RetrievableSources == {s \in Sources : manifest[s].meta \in Retrievable}

\* Every chunk of content c stored for source s under revision r.
ChunksOf(r, s, c) ==
    {[rev |-> r, part |-> i, src |-> s, content |-> c] : i \in 1..PartsOf[c]}

\* The chunks of the revisions in R that the collection holds.
StoredOf(R) == {k \in chunks : k.rev \in R}

Job == [actor : Actors \cup {None}, src : Sources \cup {None},
        content : Contents \cup {None}, meta : Metas \cup {None},
        refresh : BOOLEAN,            \* refresh_indexes, had_active_data
        rev : 0..MaxRev,              \* revision_id, the deleted active revision
        acked : Nat,                  \* write batches in added_ids
        seen : [Sources -> Row],      \* the rows its decision was based on
        gen : Nat, revs : SUBSET RevIds]   \* the snapshot a search works from
NewJob(a, s, c, x, refresh) ==
    [actor |-> a, src |-> s, content |-> c, meta |-> x, refresh |-> refresh,
     rev |-> 0, acked |-> 0, seen |-> NoRows, gen |-> 0, revs |-> {}]
NoJob == NewJob(None, None, None, None, FALSE)

Answer == [gen : Nat, hits : SUBSET (Sources \X Contents)]
NoAnswer == [gen |-> 0, hits |-> {}]

\* Where a thread waits for _VECTOR_LOCK, and where it stands once inside.
Waiting == {"addWait", "deleteWait", "clearWait", "rebuildWait", "finalizeWait",
            "searchWait"}
Inside(label) == CASE label = "addWait" -> "addCheck"
                   [] label = "deleteWait" -> "deleteCheck"
                   [] label = "clearWait" -> "clearCommit"
                   [] label = "rebuildWait" -> "rebuildDrop"
                   [] label = "finalizeWait" -> "finalizeRefresh"
                   [] label = "searchWait" -> "snapshot"

AddSteps == {"addCheck", "staging", "commit", "sweep", "addDone", "rollback"}
DestroySteps == {"deleteCheck", "deleteCommit", "deletePhysical", "clearCommit",
                 "clearPhysical", "refresh", "rebuildDrop", "rebuildClear",
                 "rebuildOpen"}
SearchSteps == {"snapshot", "filter", "ensure", "query"}
VectorSteps == AddSteps \cup DestroySteps \cup SearchSteps \cup {"finalizeRefresh"}
DestroyCall == DestroySteps \cup {"deleteWait", "clearWait", "rebuildWait", "endGate"}
MutexSteps == SearchSteps \cup {"searchWait", "finalizeWait", "finalizeRefresh"}

\* Where a call waits for _MUTATION_CONDITION and to be let through the gate.
AtGate == {"batchGate", "destroyGate", "searchGate"}
Labels == VectorSteps \cup Waiting \cup AtGate \cup {"idle", "batch", "endGate", "answered"}

InBatch(t) == batch[t] # "out"

TypeOK ==
    /\ chunks \subseteq Chunk
    /\ manifest \in [Sources -> Row]
    /\ generation \in Nat
    /\ since \in 0..generation
    /\ nextRev \in 1..(MaxRev + 1)
    /\ lost \subseteq RevIds
    /\ bm25 \subseteq Chunk
    /\ unindexed \subseteq RevIds
    /\ dirty \in BOOLEAN
    /\ depth \in Nat
    /\ batchMutated \in BOOLEAN
    /\ destructive \in BOOLEAN
    /\ mutex \in Threads \cup {None}
    /\ vlock \in Threads \cup {None}
    /\ pc \in [Threads -> Labels]
    /\ batch \in [Threads -> {"out", "clean", "mutated"}]
    /\ job \in [Threads -> Job]
    /\ answers \in [Threads -> Answer]
    /\ crashes \in 0..MaxCrashes
    /\ syncs \in 0..MaxSyncs

Init ==
    /\ chunks = {}
    /\ manifest = NoRows
    /\ generation = 0
    /\ since = 0
    /\ nextRev = 1
    /\ lost = {}
    /\ bm25 = {}
    /\ unindexed = {}
    /\ dirty = TRUE
    /\ depth = 0
    /\ batchMutated = FALSE
    /\ destructive = FALSE
    /\ mutex = None
    /\ vlock = None
    /\ pc = [t \in Threads |-> "idle"]
    /\ batch = [t \in Threads |-> "out"]
    /\ job = [t \in Threads |-> NoJob]
    /\ answers = [t \in Threads |-> NoAnswer]
    /\ crashes = 0
    /\ syncs = 0
-----------------------------------------------------------------------------
(***************************************************************************)
(* Building blocks.                                                        *)
(***************************************************************************)

Goto(t, label) == pc' = [pc EXCEPT ![t] = label]

\* rebuild_bm25 over the revisions that are active and retrievable now.
Reindex ==
    /\ bm25' = StoredOf(RevsOf(RetrievableSources))
    /\ unindexed' = ActiveRevs \ RevsOf(RetrievableSources)
    /\ dirty' = FALSE

\* ensure_bm25: nothing to do while an upload batch is open or the index counts
\* as current.
IndexActive == IF depth > 0 \/ ~dirty THEN UNCHANGED index ELSE Reindex

\* Mutant: a failed rebuild is forgotten.
RefreshIndex_ForgetsFailure ==
    \/ Reindex
    \/ dirty' = FALSE /\ UNCHANGED <<bm25, unindexed>>

\* _refresh_indexes_after_mutation: the index is stale from now on; rebuild it
\* unless an upload batch is open, and stay dirty when the rebuild fails.
RefreshIndex ==
    \/ depth = 0 /\ Reindex
    \/ dirty' = TRUE /\ UNCHANGED <<bm25, unindexed>>

\* commit_source, delete_source and clear: what the rows show changes, and the
\* generation with it.
Publish(rows) ==
    /\ manifest' = rows
    /\ generation' = generation + 1
    /\ since' = generation'

\* The row of one source, as a call about that source reads it.
RowOf(s) == [NoRows EXCEPT ![s] = manifest[s]]

\* Whether the rows of the manifest hold any source.
AnyActive == \E s \in Sources : Active(s)

\* manifest.clear: every row goes, and the generation moves if there was one.
ClearManifest ==
    IF AnyActive THEN Publish(NoRows) ELSE UNCHANGED <<manifest, generation, since>>

\* Any thread acquires _VECTOR_LOCK when it is free.
EnterVector(t) ==
    /\ pc[t] \in Waiting
    /\ vlock = None
    /\ vlock' = t
    /\ Goto(t, Inside(pc[t]))
    /\ UNCHANGED <<durable, index, gate, mutex, batch, job, answers, crashes>>

\* add_document_to_kb returns or raises; `changed` is what the upload worker
\* then folds into its batch_mutated flag.
LeaveAdd(t, changed) ==
    /\ vlock' = None
    /\ Goto(t, IF InBatch(t) THEN "batch" ELSE "idle")
    /\ batch' = IF InBatch(t) /\ changed
                THEN [batch EXCEPT ![t] = "mutated"] ELSE batch
    /\ job' = [job EXCEPT ![t] = NoJob]
    /\ UNCHANGED <<gate, mutex, answers, crashes>>

\* Mutant: a destructive call that raises leaves the gate closed.
LeaveDestroy_KeepsGate(t) ==
    /\ vlock' = None
    /\ Goto(t, IF pc[t] \in {"refresh", "clearPhysical"} THEN "endGate" ELSE "idle")
    /\ job' = [job EXCEPT ![t] = NoJob]
    /\ UNCHANGED <<gate, mutex, batch, answers, crashes>>

\* A destructive call leaves the vector lock and goes on to drop the gate.
LeaveDestroy(t) ==
    /\ vlock' = None
    /\ Goto(t, "endGate")
    /\ job' = [job EXCEPT ![t] = NoJob]
    /\ UNCHANGED <<gate, mutex, batch, answers, crashes>>

Advance(t, label) ==
    /\ Goto(t, label)
    /\ UNCHANGED <<gate, mutex, vlock, batch, answers, crashes>>
-----------------------------------------------------------------------------
(***************************************************************************)
(* Upload batches (begin/finalize_batch_index_updates).                    *)
(***************************************************************************)

BatchMayOpen == ~destructive

\* An upload, a destructive call or a search comes to the gate, and waits for
\* the lock.
Request(t) ==
    /\ pc[t] = "idle"
    /\ \E l \in AtGate : Goto(t, l)
    /\ UNCHANGED <<durable, index, gate, mutex, vlock, batch, job, answers, crashes>>

\* begin_batch_index_updates: waits until no destructive call is under way.
BeginBatch(t) ==
    /\ pc[t] = "batchGate"
    /\ mutex = None
    /\ BatchMayOpen
    /\ depth' = depth + 1
    /\ batch' = [batch EXCEPT ![t] = "clean"]
    /\ Goto(t, "batch")
    /\ UNCHANGED <<durable, index, batchMutated, destructive, mutex, vlock,
                   job, answers, crashes>>

\* Only the last open batch refreshes the index, and only when one of them
\* changed something; it keeps _MUTATION_CONDITION until it has.
FinalizeBatch(t) ==
    LET changed == batchMutated \/ batch[t] = "mutated"
        refresh == depth <= 1 /\ changed
    IN  /\ pc[t] = "batch"
        /\ mutex = None
        /\ depth' = IF depth > 0 THEN depth - 1 ELSE depth
        /\ batch' = [batch EXCEPT ![t] = "out"]
        /\ batchMutated' = (changed /\ ~refresh)
        /\ mutex' = IF refresh THEN t ELSE None
        /\ Goto(t, IF refresh THEN "finalizeWait" ELSE "idle")
        /\ UNCHANGED <<durable, index, destructive, vlock, job, answers, crashes>>

\* Opening the collection can fail before the refresh is even tried.
FinalizeRefresh(t) ==
    /\ pc[t] = "finalizeRefresh"
    /\ RefreshIndex \/ UNCHANGED index
    /\ mutex' = None
    /\ vlock' = None
    /\ Goto(t, "idle")
    /\ UNCHANGED <<durable, gate, batch, job, answers, crashes>>
-----------------------------------------------------------------------------
(***************************************************************************)
(* add_document_to_kb.                                                     *)
(***************************************************************************)

\* Bound: every add that has started can still get a revision id.
RevisionsLeft ==
    nextRev + Cardinality({u \in Threads : pc[u] \in {"addWait", "addCheck"}}) <= MaxRev

\* Called for each file of a batch, or on its own, when it refreshes the
\* index itself.
AddDocument(t) ==
    /\ pc[t] \in {"idle", "batch"}
    /\ RevisionsLeft
    /\ \E a \in Actors, s \in Sources, c \in Contents, x \in Metas :
          job' = [job EXCEPT ![t] = NewJob(a, s, c, x, ~InBatch(t))]
    /\ Goto(t, "addWait")
    /\ UNCHANGED <<durable, index, gate, mutex, vlock, batch, answers, crashes>>

\* Mutant: the replaced row is not consulted.
MayAdd_CreateOnly(j) == <<j.actor, j.meta>> \in CanCreate

\* The worker's second authorisation, under the lock, against the row the
\* manifest holds now.
MayAdd(j) ==
    /\ <<j.actor, j.meta>> \in CanCreate
    /\ Active(j.src) => <<j.actor, manifest[j.src].meta>> \in CanManage

SameDocument(j) ==
    /\ Active(j.src)
    /\ manifest[j.src].content = j.content
    /\ manifest[j.src].meta = j.meta

\* Denied, unchanged, or the stores cannot be read; or a document without any
\* chunk: nothing is written.
AddNothing(t) ==
    /\ \/ pc[t] = "addCheck"
       \/ /\ pc[t] = "staging"
          /\ PartsOf[job[t].content] = 0
    /\ LeaveAdd(t, FALSE)
    /\ UNCHANGED <<durable, index>>

StartRevision(t) ==
    /\ pc[t] = "addCheck"
    /\ MayAdd(job[t])
    /\ ~SameDocument(job[t])
    /\ nextRev <= MaxRev
    /\ nextRev' = nextRev + 1
    /\ job' = [job EXCEPT ![t].rev = nextRev, ![t].seen = RowOf(job[t].src)]
    /\ Advance(t, "staging")
    /\ UNCHANGED <<chunks, manifest, generation, since, lost, syncs, index>>

NextPart(j) == j.acked + 1

NextChunk(j) == [rev |-> j.rev, part |-> NextPart(j), src |-> j.src, content |-> j.content]

\* One write batch: stored; or acknowledged though Chroma kept nothing; or
\* failed, before or after it reached the disk.
StagePart(t) ==
    LET j == job[t]
        wrote == chunks \cup {NextChunk(j)}
    IN  /\ pc[t] = "staging"
        /\ NextPart(j) <= PartsOf[j.content]
        /\ chunks' \in {chunks, wrote}
        /\ \/ /\ job' = [job EXCEPT ![t].acked = NextPart(j)]
              /\ Advance(t, "staging")
           \/ /\ Advance(t, "rollback")
              /\ UNCHANGED job
        /\ UNCHANGED <<manifest, generation, since, nextRev, lost, syncs, index>>

\* Mutant: the acknowledged ids are trusted.
StagedComplete_Trusting(j) == j.acked = PartsOf[j.content]

\* The read-back: what the collection holds for this revision is exactly what
\* was acknowledged.
StagedComplete(j) == StoredOf({j.rev}) = ChunksOf(j.rev, j.src, j.content)

VerifyStaged(t) ==
    LET j == job[t]
    IN  /\ pc[t] = "staging"
        /\ PartsOf[j.content] > 0
        /\ j.acked = PartsOf[j.content]
        /\ Advance(t, IF StagedComplete(j) THEN "commit" ELSE "rollback")
        /\ UNCHANGED <<durable, index, job>>

\* manifest.commit_source: the row and the generation move in one
\* transaction.  The call fails before or after the transaction took effect,
\* or succeeds.
CommitSource(t) ==
    LET j == job[t]
    IN  /\ pc[t] = "commit"
        /\ \/ /\ Publish([manifest EXCEPT ![j.src] =
                             [rev |-> j.rev, content |-> j.content, meta |-> j.meta]])
              /\ Advance(t, "sweep") \/ Advance(t, "rollback")
           \/ /\ Advance(t, "rollback")
              /\ UNCHANGED <<manifest, generation, since>>
        /\ UNCHANGED <<chunks, nextRev, lost, syncs, index, job>>

\* Best-effort removal of every other revision of the source.
Obsolete(j) == {k \in chunks : k.src = j.src /\ k.rev # j.rev}

SweepObsolete(t) ==
    /\ pc[t] = "sweep"
    /\ chunks' \in {chunks, chunks \ Obsolete(job[t])}
    /\ Advance(t, "addDone")
    /\ UNCHANGED <<manifest, generation, since, nextRev, lost, syncs, index, job>>

AddDone(t) ==
    /\ pc[t] = "addDone"
    /\ IF job[t].refresh THEN RefreshIndex ELSE dirty' = TRUE /\ UNCHANGED <<bm25, unindexed>>
    /\ LeaveAdd(t, TRUE)
    /\ UNCHANGED durable

\* The except branch: a revision the manifest already points to stays, any
\* other one is deleted as far as its acknowledged ids go.  A failed deletion
\* leaves the storage in doubt.  When the manifest cannot be read, the call
\* raises with nothing undone or marked, and a revision whose commit took effect
\* stays out of the index until the next rebuild.
AddedChunks(j) == {k \in chunks : k.rev = j.rev /\ k.part <= j.acked}

RollbackAdd(t) ==
    LET j == job[t]
        committed == manifest[j.src].rev = j.rev
    IN  /\ pc[t] = "rollback"
        /\ \/ /\ ~committed
              /\ chunks' = chunks \ AddedChunks(j)
              /\ LeaveAdd(t, FALSE)
              /\ UNCHANGED index
           \/ /\ committed \/ j.acked > 0
              /\ dirty' = TRUE
              /\ LeaveAdd(t, TRUE)
              /\ UNCHANGED <<chunks, bm25, unindexed>>
           \/ /\ unindexed' = unindexed \cup ({j.rev} \cap ActiveRevs)
              /\ LeaveAdd(t, FALSE)
              /\ UNCHANGED <<chunks, bm25, dirty>>
        /\ UNCHANGED <<manifest, generation, since, nextRev, lost, syncs>>
-----------------------------------------------------------------------------
(***************************************************************************)
(* Destructive calls: delete_document_authorized, clear_all_documents and  *)
(* rebuild_knowledge_base.                                                 *)
(***************************************************************************)

\* Mutant: open upload batches are not counted.
GateOpen_IgnoresBatches == ~destructive

GateOpen == ~destructive /\ depth = 0

\* _try_begin_destructive_mutation
BeginDestructive(t) ==
    /\ pc[t] = "destroyGate"
    /\ mutex = None
    /\ GateOpen
    /\ destructive' = TRUE
    /\ \/ \E a \in Actors, s \in Sources :
             /\ job' = [job EXCEPT ![t] = NewJob(a, s, None, None, FALSE)]
             /\ Goto(t, "deleteWait")
       \/ /\ pc' \in {[pc EXCEPT ![t] = l] : l \in {"clearWait", "rebuildWait"}}
          /\ UNCHANGED job
    /\ UNCHANGED <<durable, index, depth, batchMutated, mutex, vlock, batch,
                   answers, crashes>>

MayDelete(j) == Active(j.src) /\ <<j.actor, manifest[j.src].meta>> \in CanManage

\* The source is gone, the caller may not delete it, or the manifest cannot
\* be read.
DeleteRefused(t) ==
    /\ pc[t] \in {"deleteCheck", "deleteCommit"}
    /\ LeaveDestroy(t)
    /\ UNCHANGED <<durable, index>>

DeleteCheck(t) ==
    /\ pc[t] = "deleteCheck"
    /\ MayDelete(job[t])
    /\ job' = [job EXCEPT ![t].rev = manifest[job[t].src].rev,
                          ![t].seen = RowOf(job[t].src)]
    /\ Advance(t, "deleteCommit")
    /\ UNCHANGED <<durable, index>>

\* manifest.delete_source
DeleteCommit(t) ==
    LET s == job[t].src
    IN  /\ pc[t] = "deleteCommit"
        /\ IF Active(s) THEN Publish([manifest EXCEPT ![s] = NoRow])
           ELSE UNCHANGED <<manifest, generation, since>>
        /\ Advance(t, "deletePhysical")
        /\ UNCHANGED <<chunks, nextRev, lost, syncs, index, job>>

\* The chunks of the deleted revision go, or stay behind as garbage.  When
\* listing them fails, the call raises and the index is not even refreshed.
DeletePhysical(t) ==
    /\ pc[t] = "deletePhysical"
    /\ \/ /\ chunks' \in {chunks, chunks \ StoredOf({job[t].rev})}
          /\ Advance(t, "refresh")
          /\ UNCHANGED job
       \/ /\ LeaveDestroy(t)
          /\ UNCHANGED chunks
    /\ UNCHANGED <<manifest, generation, since, nextRev, lost, syncs, index>>

\* clear_all_documents: the manifest first, unless that fails, then the chunks,
\* in batches, as far as it goes.
ClearCommit(t) ==
    /\ pc[t] = "clearCommit"
    /\ \/ /\ ClearManifest
          /\ job' = [job EXCEPT ![t].refresh = AnyActive]
          /\ Advance(t, "clearPhysical")
       \/ /\ LeaveDestroy(t)
          /\ UNCHANGED <<manifest, generation, since>>
    /\ UNCHANGED <<chunks, nextRev, lost, syncs, index>>

ClearPhysical(t) ==
    /\ pc[t] = "clearPhysical"
    /\ chunks' \in SUBSET chunks
    /\ \/ /\ job[t].refresh
          /\ Advance(t, "refresh")
          /\ UNCHANGED job
       \/ /\ job[t].refresh => chunks' = chunks   \* listing the chunks failed
          /\ LeaveDestroy(t)
    /\ UNCHANGED <<manifest, generation, since, nextRev, lost, syncs, index>>

RefreshAfterDestroy(t) ==
    /\ pc[t] = "refresh"
    /\ RefreshIndex
    /\ LeaveDestroy(t)
    /\ UNCHANGED durable

\* rebuild_knowledge_base: the collection goes first, the manifest after it.
\* Either call can fail and end the rebuild there.
RebuildDrop(t) ==
    /\ pc[t] = "rebuildDrop"
    /\ \/ /\ chunks' = {}
          /\ lost' = ActiveRevs
          /\ Advance(t, "rebuildClear")
          /\ UNCHANGED job
       \/ /\ LeaveDestroy(t)
          /\ UNCHANGED <<chunks, lost>>
    /\ UNCHANGED <<manifest, generation, since, nextRev, syncs, index>>

RebuildClear(t) ==
    /\ pc[t] = "rebuildClear"
    /\ \/ /\ ClearManifest
          /\ lost' = {}
          /\ Advance(t, "rebuildOpen")
          /\ UNCHANGED job
       \/ /\ LeaveDestroy(t)
          /\ UNCHANGED <<manifest, generation, since, lost>>
    /\ UNCHANGED <<chunks, nextRev, syncs, index>>

\* The empty collection is created and the index marked stale, unless
\* creating it fails.
RebuildOpen(t) ==
    /\ pc[t] = "rebuildOpen"
    /\ \/ dirty' = TRUE /\ batchMutated' = FALSE
       \/ UNCHANGED <<dirty, batchMutated>>
    /\ vlock' = None
    /\ Goto(t, "endGate")
    /\ UNCHANGED <<durable, bm25, unindexed, depth, destructive, mutex, batch, job,
                   answers, crashes>>

\* _end_destructive_mutation
EndDestructive(t) ==
    /\ pc[t] = "endGate"
    /\ mutex = None
    /\ destructive' = FALSE
    /\ Goto(t, "idle")
    /\ UNCHANGED <<durable, index, depth, batchMutated, mutex, vlock, batch, job,
                   answers, crashes>>
-----------------------------------------------------------------------------
(***************************************************************************)
(* hybrid_search_wrapper: both locks for the whole query.                  *)
(***************************************************************************)

BeginSearch(t) ==
    /\ pc[t] = "searchGate"
    /\ mutex = None
    /\ GateOpen
    /\ mutex' = t
    /\ \E a \in Actors : job' = [job EXCEPT ![t] = NewJob(a, None, None, None, FALSE)]
    /\ Goto(t, "searchWait")
    /\ UNCHANGED <<durable, index, gate, vlock, batch, answers, crashes>>

\* While the gate is closed, searches and destructive calls are refused.
Refuse(t) ==
    /\ pc[t] \in {"destroyGate", "searchGate"}
    /\ mutex = None
    /\ ~GateOpen
    /\ Goto(t, "idle")
    /\ UNCHANGED <<durable, index, gate, mutex, vlock, batch, job, answers, crashes>>

LeaveSearch(t, answer) ==
    /\ answers' = [answers EXCEPT ![t] = answer]
    /\ mutex' = None
    /\ vlock' = None
    /\ job' = [job EXCEPT ![t] = NoJob]
    /\ Goto(t, IF answer = NoAnswer THEN "idle" ELSE "answered")
    /\ UNCHANGED <<durable, gate, batch, crashes>>

\* _snapshot_for_read: which revisions are active, at which generation.
Snapshot(t) ==
    /\ pc[t] = "snapshot"
    /\ job' = [job EXCEPT ![t].gen = generation]
    /\ Advance(t, "filter")
    /\ UNCHANGED <<durable, index>>

\* Mutant: the caller's access is not consulted.
VisibleTo_Everyone(a) == RevsOf(RetrievableSources)

\* _active_revision_filter: the active revisions the caller may read.
VisibleTo(a) == RevsOf({s \in RetrievableSources : <<a, manifest[s].meta>> \in CanRead})

\* Their metadata is read after the snapshot: a sync may come in between.
Filter(t) ==
    LET revs == VisibleTo(job[t].actor)
    IN  /\ pc[t] = "filter"
        /\ IF revs = {}
           THEN LeaveSearch(t, [gen |-> job[t].gen, hits |-> {}])
           ELSE /\ job' = [job EXCEPT ![t].revs = revs, ![t].seen = manifest]
                /\ Advance(t, "ensure")
                /\ UNCHANGED durable
        /\ UNCHANGED index

EnsureIndex(t) ==
    /\ pc[t] = "ensure"
    /\ IndexActive
    /\ Advance(t, "query")
    /\ UNCHANGED <<durable, job>>

\* The vector index, an unresolved governance policy or the embedding model
\* raises.
SearchFails(t) ==
    /\ pc[t] \in SearchSteps
    /\ LeaveSearch(t, NoAnswer)
    /\ UNCHANGED index

\* Vector hits come from the collection under the filter.  Keyword hits come
\* from the index, filtered by its own copy of the metadata, and are read back
\* from the collection under the filter again.
VectorHits(j) == StoredOf(j.revs)

\* Mutant: keyword hits are not filtered.
KeywordHits_Unfiltered(j) == bm25 \cap chunks

KeywordHits(j) == {k \in bm25 \cap chunks : k.rev \in j.revs}

\* hybrid_search returns the best-ranked of them; which ones is left open.
Query(t) ==
    LET found == VectorHits(job[t]) \cup KeywordHits(job[t])
    IN  /\ pc[t] = "query"
        /\ \E keep \in SUBSET {<<k.src, k.content>> : k \in found} :
              LeaveSearch(t, [gen |-> job[t].gen, hits |-> keep])
        /\ UNCHANGED index

\* The caller is done with its result.
DropAnswer(t) ==
    /\ pc[t] = "answered"
    /\ answers' = [answers EXCEPT ![t] = NoAnswer]
    /\ Goto(t, "idle")
    /\ UNCHANGED <<durable, index, gate, mutex, vlock, batch, job, crashes>>
-----------------------------------------------------------------------------
\* A sync command writes the metadata row of a source (set_source_metadata): the
\* generation moves, what is stored does not.  Which sources and metadata it
\* comes by is in DocumentMetadata; here any may be.  A row of a source that is
\* not active is not read before an upload replaces it.
MetadataSynced(s) ==
    /\ syncs < MaxSyncs
    /\ syncs' = syncs + 1
    /\ \/ /\ Active(s)
          /\ \E m \in Metas \ {manifest[s].meta} :
                manifest' = [manifest EXCEPT ![s].meta = m]
       \/ ~Active(s) /\ UNCHANGED manifest
    /\ generation' = generation + 1
    /\ UNCHANGED <<chunks, since, nextRev, lost, index, gate, mutex, vlock, pc, batch,
                   job, answers, crashes>>

\* The process dies between any two steps and starts again on the same data
\* directory.
Restart ==
    /\ crashes < MaxCrashes
    /\ crashes' = crashes + 1
    /\ bm25' = {}
    /\ unindexed' = {}
    /\ dirty' = TRUE
    /\ depth' = 0
    /\ batchMutated' = FALSE
    /\ destructive' = FALSE
    /\ mutex' = None
    /\ vlock' = None
    /\ pc' = [t \in Threads |-> "idle"]
    /\ batch' = [t \in Threads |-> "out"]
    /\ job' = [t \in Threads |-> NoJob]
    /\ answers' = [t \in Threads |-> NoAnswer]
    /\ UNCHANGED durable

AddStep(t) == \/ AddNothing(t) \/ StartRevision(t) \/ StagePart(t)
              \/ VerifyStaged(t) \/ CommitSource(t) \/ SweepObsolete(t)
              \/ AddDone(t) \/ RollbackAdd(t)

DestroyStep(t) == \/ DeleteRefused(t) \/ DeleteCheck(t) \/ DeleteCommit(t)
                  \/ DeletePhysical(t) \/ ClearCommit(t) \/ ClearPhysical(t)
                  \/ RefreshAfterDestroy(t) \/ RebuildDrop(t) \/ RebuildClear(t)
                  \/ RebuildOpen(t) \/ EndDestructive(t)

SearchStep(t) == \/ Snapshot(t) \/ Filter(t) \/ EnsureIndex(t) \/ SearchFails(t) \/ Query(t)
                 \/ DropAnswer(t)

\* New work: the choice of the callers.
Call(t) == Request(t) \/ AddDocument(t)

PassGate(t) == BeginBatch(t) \/ BeginDestructive(t) \/ BeginSearch(t) \/ Refuse(t)

\* A started call goes on.
Proceed(t) == \/ PassGate(t) \/ EnterVector(t) \/ FinalizeBatch(t) \/ FinalizeRefresh(t)
              \/ AddStep(t) \/ DestroyStep(t) \/ SearchStep(t)

Next == \/ \E t \in Threads : Call(t) \/ Proceed(t)
        \/ \E s \in Sources : MetadataSynced(s)
        \/ Restart

Spec == Init /\ [][Next]_vars
-----------------------------------------------------------------------------
(***************************************************************************)
(* Properties.                                                             *)
(***************************************************************************)

\* The gate keeps three kinds of call apart: while one thread deletes, clears
\* or rebuilds, no upload batch is open and no other thread does so; while a
\* search runs, neither is under way (vector_store.py:300-347, 783-785).
GateExclusion ==
    \A t, u \in Threads :
        /\ pc[t] \in DestroyCall =>
              ~InBatch(u) /\ (u # t => pc[u] \notin DestroyCall)
        /\ pc[t] \in SearchSteps \cup {"searchWait"} =>
              ~InBatch(u) /\ pc[u] \notin DestroyCall

\* Whatever failed or died in between, a source the manifest shows has every
\* chunk of the content its row names, except where a rebuild removed the
\* collection under the row (vector_store.py:513-575, 632-641, 660-671).
VisibleIsComplete ==
    \A s \in Sources :
        Active(s) /\ manifest[s].rev \notin lost =>
            /\ PartsOf[manifest[s].content] > 0
            /\ ChunksOf(manifest[s].rev, s, manifest[s].content) \subseteq chunks

\* No search ranks with a keyword index that misses a chunk it may return,
\* after any mixture of batches, failed refreshes, rollbacks and restarts:
\* skipping the rebuild when the dirty flag is down is wrong only for a source
\* that governance withheld when the index was built and a sync has admitted
\* since, and for a revision whose commit and the manifest read after it both
\* failed (vector_store.py:265-297, 559-578, 581-584, 850).
QueriesSeeFreshIndex ==
    \A t \in Threads :
        pc[t] = "query" => StoredOf(job[t].revs \ unindexed) \subseteq bm25

\* The contents of a row only change by a call whose actor was authorised
\* against the very revision it replaces or deletes, and the metadata of that
\* revision as the call found it under the lock, or by a clear or rebuild.  A
\* sync may rewrite the metadata, and nothing else, at any moment
\* (vector_store.py:408-422, 525, 616-626).
AuthorizedChange(s) ==
    \E t \in Threads :
        \/ /\ pc[t] \in {"commit", "deleteCommit"}
           /\ job[t].src = s
           /\ LET found == job[t].seen[s]
              IN  /\ manifest[s].rev = found.rev
                  /\ found.rev # 0 => <<job[t].actor, found.meta>> \in CanManage
        \/ pc[t] \in {"clearCommit", "rebuildClear"}

ChangesAuthorized ==
    [][\A s \in Sources :
          \/ [manifest'[s] EXCEPT !.meta = None] = [manifest[s] EXCEPT !.meta = None]
          \/ AuthorizedChange(s)]_vars

\* A search hands its caller only passages of revisions that are still the
\* active ones, whose governance admitted retrieval and whose access metadata
\* let that caller read them when this search computed its filter; a sync may
\* have withdrawn either since (vector_store.py:77-100, 791-812, 829-866).
OnlyReadable ==
    [][\A t \in Threads : answers'[t] # answers[t] =>
          \A p \in answers'[t].hits :
             LET found == job[t].seen[p[1]]
             IN  /\ found.rev = manifest[p[1]].rev
                 /\ found.content = p[2]
                 /\ found.meta \in Retrievable
                 /\ <<job[t].actor, found.meta>> \in CanRead]_vars

\* Seen through the manifest, the knowledge base is one dictionary: every call
\* changes it in one step that advances the generation, a search result is a
\* part of it as it was at the generation the result carries, syncs move the
\* generation alone, and failures and restarts never show (vector_store.py:384-866, kb_manifest.py:215-331).
CorpusView == INSTANCE Corpus WITH
                 Readers <- Threads, NoContent <- None,
                 corpus <- [s \in Sources |-> manifest[s].content]

RefinesCorpus == CorpusView!Spec

(***************************************************************************)
(* Fairness: threads that can run do run; a thread that waits for a lock   *)
(* which is released again and again gets it some day, and finds the gate  *)
(* open some day if it opens again and again; and the file list of an      *)
(* upload is finite, so its worker gets to the end of it.                  *)
(***************************************************************************)
FairSpec ==
    /\ Spec
    /\ \A t \in Threads : /\ WF_vars(Proceed(t))
                          /\ SF_vars(PassGate(t))
                          /\ SF_vars(EnterVector(t))
                          /\ SF_vars(FinalizeBatch(t))

\* No interleaving of calls leaves a thread waiting for ever, for a lock or for
\* a destructive call to end: every upload batch, deletion, clear, rebuild and
\* search that has come to the gate returns (vector_store.py:300-347, 636-637).
CallsReturn ==
    \A t \in Threads :
        pc[t] \notin {"idle", "answered"} ~> pc[t] \in {"idle", "answered"}

=============================================================================
