# A TLA+ development of the RAG knowledge assistant

The program answers questions from a private knowledge base: documents are
uploaded, cut into chunks, stored in Chroma and found again by vector and
keyword search; a language model writes the answer, which is streamed to a
browser. It is one Python process (FastAPI, one worker) with threads for
uploads and answers, a Chroma directory and four SQLite files. This directory
holds TLA+ modules translated from that code, TLC configurations that check
them on small instances, and TLAPS proofs for every instance. Paths below are
relative to the repository root; `PROJECT.json` names, definition by
definition, the lines each one translates.

1. [Inventory](#1-inventory)
2. [Modules and how they correspond to the code](#2-modules-and-how-they-correspond-to-the-code)
3. [Runs](#3-runs)
4. [Bounds](#4-bounds)
5. [Fairness](#5-fairness)
6. [Proofs](#6-proofs)
7. [Disagreements between code and documentation](#7-disagreements-between-code-and-documentation)
8. [What is not modelled](#8-what-is-not-modelled)
9. [Plan](#9-plan)

## 1. Inventory

| component | state it keeps | operations | what makes it hard |
|---|---|---|---|
| Knowledge base store: `enterprise_rag/storage/vector_store.py`, `kb_manifest.py`, `rag/hybrid.py` | Chroma collection; manifest rows, generation and source metadata in SQLite; BM25 index and its dirty flag; upload batch depth, destructive flag, two locks | add, delete, clear, rebuild, search, open and close an upload batch, one-time migration | two durable stores without a common transaction, an index derived from both, three kinds of call that must exclude each other, failures and restarts at every write |
| Access control: `storage/acl.py` | none (metadata on rows and chunks) | can create, manage, read | checked twice: before an upload is accepted and again under the lock |
| Upload pipeline: `services/document_service.py`, `backend/api/upload.py` | staging directories, task table, futures, slots, executor queue | reserve, stage, submit, work off, report, poll, trim, sweep | a request thread hands slot, batch and directory to a worker that may end first; other uploads sweep the same directory |
| Answers: `services/rag_service.py`, `chat_service.py`, `rag/retriever.py`, `rag/reranker.py` | none of its own | retrieve, decide, cache, generate | everything it read may be out of date when it is used |
| Answer cache: `services/cache_service.py`, `storage/cache.py` | L1 dictionary, L2 table | get, set, evict, expire | an answer takes seconds to write while the knowledge base moves on |
| Chat streams: `backend/api/chat.py`, `sse.py` | per request: queue, stop event, producer thread | accept, yield, relay, finish, disconnect | a thread and the event loop share a stream whose client may leave at any await |
| Sessions: `backend/session.py` | owners, last use, histories | admit, expire, evict, append | a stream may outlive its session |
| Quality store: `services/quality_service.py`, `backend/api/feedback.py`, `scripts/purge_quality_data.py` | runs and feedback in SQLite | reserve, finalise, judge, review, purge | client-chosen message ids, a moving rate window, foreign keys against retention |
| Users and tokens: `auth/users.py`, `backend/auth.py`, `backend/api/auth.py` | users, revoked tokens, failed sign-ins | sign in and out, verify, limit | revocations are purged by the clock that also expires tokens |
| Document governance: `storage/document_governance*.py`, `scripts/sync_document_*.py` | configuration file, manifest metadata row, chunk metadata | preview, sync governance, sync access | the same facts in three places, written one after the other by two commands |
| Backup and restore: `scripts/backup.py` | backup directories, ledger | create, verify, retain, restore | a crash between two renames; names that stand for time; write-ahead logs that verification skips |
| Health check: `scripts/health_check.py`, `monitoring/` | alert state, alert log | check, notify, recover | cooldown against best-effort delivery |
| Readiness probe: `backend/api/probes.py`, `utils/model_readiness.py`, `config.py` | none (reads the store, the user database, the models) | report ready or not | an update under way makes readings disagree that are in order |
| Browser: `frontend/src/store`, `frontend/src/api` | task ids in session storage, task table, chat log | upload, poll, resume, stream | polling across sign-out, reload and restart |
| The rest: language model client, loaders, chunker, metrics, logs, configuration values, maintenance and evaluation commands | counters, log lines | | no control decision of the components above depends on it |

How they interact:

- An upload request reserves a slot and opens a batch of the knowledge base
  (`begin_batch_index_updates`), stages its files, and submits a task; the worker
  adds file after file under the vector lock, then closes the batch, which
  rebuilds the keyword index once. While a batch is open deletions, clears,
  rebuilds and searches are refused; while one of the destructive calls
  runs, opening a batch waits.
- A question is answered on a producer thread: retrieve under both locks a
  stable snapshot of the manifest, decide, look into the cache under the
  generation of that decision, otherwise generate; write the cache only if the
  generation is still the same, and check again afterwards.
- The chat endpoint owns the session history, reserves a run in the quality
  store before the first token, and finalises it before it tells the client
  how the stream ended; feedback is accepted only on such a run.
- The manifest generation is the one number by which all the others notice
  that the knowledge base changed.

What makes each one correct:

- Knowledge base: visible means complete; a search sees one state of it, only
  what its caller may read, through an index that misses nothing; changes are
  authorised against the row they change; destructive calls exclude uploads,
  searches and each other; nobody waits for ever.
- Upload pipeline: staged files survive until their own worker removes them;
  slots, batches and futures come back exactly once; the status is the truth.
- Answer cache: no cached answer outlives the passages it was written from.
- Chat streams and sessions: histories are whole turns; principals never see
  each other's messages; a terminal event is told only after it is recorded;
  no stream is left without an end.
- Quality store: verdicts rest on completed answers of the judge, are final,
  and are limited in every hour. (That nothing outlives the retention period is
  promised and not kept: section 7.)
- Backup: a restore, however it ends, never leaves less than it found; retention
  spares the newest backups; what the ledger vouches for can be restored.
- Document metadata: what readers see never changes behind the generation; a
  sync that nothing disturbs makes the copies agree, whatever it found; deleted
  documents stay deleted; an authority decision has two people's approval and
  one answer.
- Health check: ledger and state agree on what is open; each check's alerts and
  recoveries tell one consistent story; alarms are earned.
- Users and tokens: a revoked token stays out; the login limit counts every
  failure and no more; deduplication does not silence the audit.
- Browser: a task it was told of is not lost while it runs; what it remembers is
  watched; no watch hangs.

`PROJECT.json` lists under "hazards" where each of these bites and which
property watches it.

## 2. Modules and how they correspond to the code

| module | models | composes |
|---|---|---|
| `Corpus` | what the knowledge base promises to everyone else: a dictionary that changes in one step and a generation | |
| `KnowledgeBase` | the store: locks, gate, writes, index, failures, restarts | implements `Corpus` |
| `AccessRules` | the rules of `acl.py` and the metadata an upload stamps | gives `MCKnowledgeBase` its relations |
| `AnswerCache` | answer streams and both cache levels | `INSTANCE Corpus` as its knowledge base |
| `DocumentMetadata` | governance file, manifest row and chunk metadata; migration, sync commands, approval workflow | |
| `TaskTable` | what the upload pipeline promises to its clients: the life of a task as polls show it | |
| `UploadPipeline` | request threads, executor, workers, sweep, polls | implements `TaskTable`; sees the gate of the knowledge base |
| `TaskWatch` | a browser tab that watches its uploads | `INSTANCE TaskTable` as its server |
| `QualityStore` | the tables `runs` and `feedback` | |
| `ChatStream` | chat endpoint, producer threads, sessions | `INSTANCE QualityStore` as its store |
| `BackupStore` | the backup command, the service before and after it, the health check's writes | |
| `Readiness` | what the readiness probe says of the service: deployment, user database, store, models, manifest against collection | |
| `HealthCheck` | runs of the health check, its state file and its ledger | extends `Readiness` for the check of the service |
| `Accounts` | sign-in, tokens and their revocation, login limit, audit of rejections | |
| `MC*` | small instances and symmetry for TLC | |
| `*Proofs` | theorems, see section 6; `EdgeProofs` has those of `Accounts`, `TaskWatch` and `HealthCheck` | |

Each module defines a type invariant: `TypeOK`, in `TaskWatch` `TabTypeOK` and in
`HealthCheck` `HealthTypeOK`. (These two modules qualify their `Init`, `Next` and
`Spec` as well, as `TabSpec` and `HealthSpec`, so that `EdgeProofs` can extend them beside
`Accounts`.) It documents the state; for `KnowledgeBase`,
`QualityStore`, `UploadPipeline`, `BackupStore`, `Accounts`, `TaskWatch` and `HealthCheck` it is a
theorem, and no run spends its time on it. That of `ChatStream` is a theorem but for `touched`, see section 6.

**KnowledgeBase.** `pc[t]` is where a thread stands between two points at which
another thread, an I/O error or the death of the process can intervene.
`BeginBatch`/`FinalizeBatch` are `begin_batch_index_updates`/`finalize_batch_index_updates`;
`AddDocument` to `RollbackAdd` are `add_document_to_kb` with each write batch,
the verification of what was staged, `commit_source`, and the sweep of obsolete
revisions as steps that may fail (the rollback too); `BeginDestructive` with the `Delete*`, `Clear*`
and `Rebuild*` actions are the three destructive calls; `BeginSearch` to `Query`
are `search` and `hybrid_search_wrapper`. `manifest[s]` is a row of `source_manifest` together with its access
metadata, `chunks` the physical collection, `bm25`/`dirty` the keyword index.
`lost` remembers revisions whose chunks a rebuild dropped. Ranking is the free
choice of a subset of what matches. A document's chunks are represented by its
write batches (`PartsOf`). `acl.py` enters as three relations, so everything
said about authorisation holds for any rule; `MCKnowledgeBase` takes them from `AccessRules`.

**AccessRules.** The predicates of `acl.py` over users and access metadata; `""` is what is
missing, as in the code. `Stamped` is what an upload makes of its form: the owner is always the
user, and the default `"all"` is one an editor may not create.

**Corpus.** Nine short definitions and no lock: `Publish`, `Withdraw`,
`WithdrawAll`, `Retrieve` and forgetting a result. `RefinesCorpus` maps
`corpus[s]` to the content of the manifest row of `s`.

**AnswerCache.** Each read of the generation and each access of a level is a
step. `Expire` raises the expiry flag of a row at any time, a full level drops
any other entry. A row of L2 says whether it was written after its generation had
passed; `leftover` are the keys whose deletion failed or was cut off by a restart.

**DocumentMetadata.** The uploads and deletions of `KnowledgeBase`, here as coarse
as the vector lock makes them for another process, beside two commands that take none of
that lock. `meta[s]` is the row of `source_metadata` with its
governance half and its access half; a record of `store` is a revision's chunks
with the metadata they carry. `UpdateChunks` and `WriteRow` are the two writes of a
sync for one source, and between them, as between sources, anything may happen:
uploads, deletions, another file, the death of the command. `BeginMigration`,
`MigrateSource` and `EndMigration` are `_ensure_manifest_initialized`, which marks
the schema as initialised with its first source already. `Valid` is
`load_governance`, `Listed` and `Retrievable` what `list_documents` and the retrieval
filter give a reader. The workflow ends with a candidate file; the
production file is written by an operator (`EditConfig`), with that candidate or with
anything else.

**TaskTable, UploadPipeline.** `req[t]` follows the request thread through
`process_uploads`, `run[t]` the worker through `_upload_worker`; the
two overlap after `submit`, which is where the done callback, the table of
futures and the slot can be handled twice or not at all. `dir[t]` is the
modification time of the staging directory, which `SweepOne` of any upload
compares with its cutoff and the set of active tasks it copied earlier. `older[t]` is the order
of `updated_at` among finished tasks, by which polls trim.
`TaskTable` is what is left of this for a client: a task is pending, processing,
finished with a verdict it keeps, or gone; a poll may drop finished tasks other than its
own, and never one whose future is still open. `RefinesTaskTable` shows that the pipeline keeps this.

**TaskWatch.** A watch is one call of `watchTasks` with one poll per task;
`Ask` is the request reaching the server, `Reply` and `SignedOut` its answer reaching the
tab, and in between the page may have changed hands. `stored` is what
`sessionStorage` remembers across reloads, `page` whether the Sidebar is there. The server is
`TaskTable` with `tracked <- {}`: the tab cannot see futures, and a server that
trims more than the real one makes the properties harder to keep. `owed` is the
history of the ids the tab was told of.

**QualityStore.** A method is one transaction under one lock, so one action.
`PurgeExpired` is whole: if the foreign key forbids one deletion the transaction
changes nothing.

**ChatStream.** What the event loop runs between two awaits is one step;
producer threads interleave with it. `queue[q]` is the `asyncio.Queue` filled by
`call_soon_threadsafe`. `Disconnect` can happen at any moment and is noticed
where the code looks. Sessions expire and are evicted between any two steps, and
a history may be written back for a session evicted meanwhile, as in the code.
The store's methods are the actions of `QualityStore` on the same variables.

**BackupStore.** `cmd` is the command under way and the step it has reached; between
two steps it may fail in the way the code handles (`Fail*`, `GiveUp`) or die (`Crash`).
A data directory is represented by the number of the last write of the service
it holds, or by what went wrong with it: `LogsOnly`, made anew by the health
check's `_atomic_write`; `Damaged`, `Behind`. `journal` says that the service was
killed, so that its last commits are in `-wal` files; a backup keeps them as
files that verification does not look at, so its record has `whole` for what is
looked at and `journal` for what is not. `BeginRemove` and `EndRemove` are the two
ends of `shutil.rmtree`. The ledger only grows, so its last line stands for what
a step can add to it. Retries of a rename are not steps: a rename that fails is
one whose last retry failed.

**HealthCheck.** A run makes its checks at one time (`StartRun`), appends alerts
(`RaiseAlert`) and recoveries (`RecordRecovery`) one by one, replaces the state file
(`SaveState`) and tells the webhook; it may die at any of these steps (`Die`), or
find a state file it cannot read. `Critical` has the six checks with their windows
and minimums over what the service logged, and `ReadyCritical` for the service itself. `service` is
its condition, which `ServiceChanges` moves among `Services`. An incident is named by the time it was
first seen. `torn` remembers the checks about which a fault may have parted ledger and
state.

**Readiness.** Operators over one record, the condition of a service: what is configured, what can
be read, which models are at hand, what is counted. A store that is being updated is not
read, and its counts need not agree; one that was never written to must hold nothing.

**Accounts.** The two dictionaries of the process (`failures`, `lastLogged`) are
purged when they have too many keys and lost with a restart; `accounts`, `issued` and
`revoked` are durable. Time is in half seconds because the code compares a token's
expiry with whole seconds and a revocation's with fractions; a request reads the clock up to
four times, and `at` says after which reading it turned. The bearer token is tried
before the cookie. `failed` and `lines` are the history that the two dictionaries stand for.

Definitions named `X_Something` directly before `X` are deliberately wrong
variants of `X`, one per property: each is a plausible slip in that code, and
substituting it makes TLC find the property violated. They show that each
property depends on the code and belong to no specification.

## 3. Runs

| run | configuration | distinct states | what it shows |
|---|---|---|---|
| `kb_safety` | `MCKnowledgeBase.cfg` | 1,500,304 | Two editors of a department and a viewer of another, under the rules of `AccessRules`: two threads upload, replace, delete, clear, rebuild and search two sources, with a failure possible at every write and one restart. `GateExclusion`: deletions, clears and rebuilds overlap neither uploads nor searches nor each other. `VisibleIsComplete`: whatever failed, a visible source has all its chunks. `QueriesSeeFreshIndex`: no keyword query runs on an index that misses a chunk it may return. `ChangesAuthorized`, `OnlyReadable`: rows change, and results are handed out, only as access metadata allows at that moment. `RefinesCorpus`: all of it looks like `Corpus`. |
| `kb_liveness` | `MCKnowledgeBaseLive.cfg` | 4,562 | `CallsReturn`: no call waits for a lock for ever, the gate behind a destructive call that failed included. |
| `cache_safety` | `MCAnswerCache.cfg` | 140,716 | Two streams, two questions, three generations, one entry per level, one restart. `NoStaleAnswer`: a cached answer is delivered only to its question and while every passage it was written from is current. `LateWritesUndone`: a row written after its generation ended is being deleted, unless that failed. |
| `metadata` | `MCDocumentMetadata.cfg` | 1,374,896 | `VisibilityMovesGeneration`: under one governance file, nothing a reader can list or retrieve changes without the generation. `QuietSyncAgrees`: a sync that ran alone has made file, row and chunks agree, whatever broken syncs left behind. `NoResurrection`: what was deleted comes back by an upload only, not by a migration after a restart nor by a late sync. `CandidateDecided`: a candidate file has the approvals of two people and leaves a family one authority. |
| `upload_safety` | `MCUploadPipeline.cfg` | 1,001,856 | Two uploads of two files, one worker, a clock that passes the TTL, polls, failures of staging, of submission and of single files, deletions in between, one restart. `LiveDirsKept`: a sweep never takes files another upload still needs. `NothingLeaks`: slots, batches and futures are given back once, whichever thread ends first. `NoDestructionDuringUpload`: the batch covers the handover from thread to worker. `StatusTellsOutcome`: done, partial and error are true. `RefinesTaskTable`: clients see a `TaskTable`; in particular no poll drops a task that runs, and verdicts stand. |
| `upload_liveness` | `MCUploadPipelineLive.cfg` | 86,656 | `UploadsEnd`: a registered upload reaches a terminal status, though uploads contend for one slot. |
| `upload_watch` | `MCTaskWatch.cfg` | 478,144 | `NotLost`: a task the tab was told of stays remembered until it is over, through 401s in the middle of a watch, polls that outlive it, reloads and trimming by others. `Watched`: while the page is there, what is remembered is polled. `WatchesEnd`: the upload zone opens again. |
| `quality_store` | `MCQualityStore.cfg` | 23,261 | Three runs, two principals, five ticks. `FeedbackBacked`: every verdict stands on a completed answer given to its author, across purges. `RateLimited`: no window of an hour holds more than the limit. `VerdictsStand`: verdicts, finished reviews and outcomes never change. |
| `chat_stream` | `MCChatStream.cfg` | 2,856,528 | Two streams with tokens, failures, failing store calls, disconnects at any moment, one restart, one session kept of two, a history of one turn, duplicate message ids. `HistoryOfWholeTurns`, `RecallsOwnMessages`: histories are pairs of a question and its whole answer, and never cross principals. `ToldIsRecorded`: the client is told an outcome only when the run has it. `OpenRunsWereLeft`: a run that stays open was left by its client or could not be written. `NoStreamHangs`: a generator that waits has a producer that will still post, or an event to relay. |
| `backup_safety` | `MCBackupStore.cfg` | 2,810,291 | Four seconds, two kept backups, any sequence of create, verify and restore, one death of a command, one decayed backup, a service that writes, stops, is killed and starts, a health check at any moment. `Recoverable`: the last whole data is in place or set aside. `RollbacksStand`: what was set aside is not overwritten. `RecoveryPossible`: retention leaves a backup that can be restored. `LedgerTrue`: what the ledger vouches for is there and whole. |
| `health` | `MCHealthCheck.cfg` | 4,716,693 | Three runs among requests, authentication failures, backups, a service whose condition and a disk whose space come and go, and one fault. `LedgerMatchesState`: between runs an incident is open in the ledger exactly when it is in the state. `LedgerStory`: alerts of one incident are a cooldown apart, a recovery closes the incident that is open. `SlowAlarmsEarned`: slowness is alarmed about exactly when enough requests were slow by themselves. |
| `accounts` | `MCAccounts.cfg` | 199,775 | Two names that fold to one, two addresses, more keys than the dictionaries keep, tokens that expire within requests, one restart. `RevokedStaysOut`: a logged-out token authenticates nothing that ends within its life. `LimitCountsFailures`: the limit counts every failure of the window and none older. `RejectionsAudited`: rejections that go on keep being logged, once per window. |

The liveness runs and `upload_watch` use no symmetry, since symmetry reduction is
unsound for liveness. `RefinesCorpus` and `RefinesTaskTable` are safety refinements and are
checked with symmetry: the sets that are permuted are parameters of the abstract
modules as well. `chat_stream`, `backup_safety`, `health` and `accounts` are run without
a deadlock check: their requests, clock, events or calls run out, and then nothing is left to happen.

## 4. Bounds

Every bound is a constant that appears in guards only and is named in the
configurations.

- `MaxRev = 2` revisions: two uploads of one source, or of two, can race or
  replace each other; the smallest case with an obsolete revision to sweep.
  Content `c2` takes two write batches, so an upload can fail or die half way.
- `MaxCrashes = 1`, `MaxRestarts = 1`, `MaxFaults = 1`: what a restart finds on disk is
  reached by one; a second one would start from a state the first one also allows.
- Two threads contend for every lock; a third adds queues and no new pair.
- `FileCount = 2`, `PoolSize = 1`, `Capacity = 2`: partial success, a task waiting
  behind another, a full queue (`Capacity = 1` in the liveness run). One tick is
  longer than `StagingTTL = 0`, so that any wait can outlast the TTL.
- `KeepLast = 1` in the pipeline: two finished tasks suffice for a trim. `KeepLast = 0`
  for the tab: a finished task may be gone before anyone has polled it.
- `FailureLimit = 1`, `MaxWatches = 2` for the tab: one failure is survived and the
  second one is not; a watch that was rejected can still have polls open while the
  next one runs. Two people share the browser.
- `MaxTokens = 2`, `MaxMessages = 2`, `MaxSessions = 1`: an answer can be cut
  after its first token, a second turn trims the first, a second session evicts
  the first.
- `MaxTime = 4`, `Window = 1`, `Retention = 2` in the quality store: windows that
  overlap, verdicts later than their run, purges before and after both expire.
- `MaxGen = 2`, `MaxCacheSize = 1` in the cache: an answer of generation 0 can
  come late to generation 1 and 2; with one entry every write evicts.
- `MaxRev = 2` with two sources in `DocumentMetadata`: a sync can meet a replaced, a
  deleted and an untouched revision. `LegacyStores` are a store that is
  new, has one document, has two, and has one in two versions, which the
  migration must leave alone. One of the two governance files is rejected by `load_governance`.
  The generation is kept modulo 2: no step moves it more than once.
- Two rows of access metadata in `KnowledgeBase`: one editor's private document and another's
  for their department. Each of the three actors stands differently to them: owner of one and
  reader of the other, owner of the other, neither.
- `Keep = 2`, `MaxTime = 3` for backups: a copy takes a tick, so three backups can
  be completed and the third one's retention removes the first; a second restore
  can meet the rollback directory of the first. `MaxRot = 1 < Keep`, which is what
  makes `RecoveryPossible` say something about retention. `MaxVersion = 2`: data
  that is older than what it replaces.
- `MaxClock = 3`, `Cooldown = 2`, `Window = 1`, `MinSlow = 2`, `MaxEvents = 3` for the health check:
  three runs, the last of which may repeat the alert of the first and not that of the
  second; requests that have left the window; two slow requests and one that does not count.
  Two conditions of the service, the edge of what the probe accepts:
  one being updated whose counts disagree, which is ready, and one at rest
  whose embedding model is missing while the hub is offline, which is not.
- `MaxTime = 4` half seconds, `TTL = 1` second, `Limit = 2`, windows of two half seconds,
  `MaxCalls = 5`, one key kept in either dictionary: a token lives and expires, the limit is
  reached and released, each purge meets keys it must keep and keys it may drop.

The proofs remove all of these bounds: every safety property of every run is proved for any of them.

## 5. Fairness

Safety runs assume none. The runs with a liveness property assume:

- weak fairness of a thread that can run (`Proceed`, `RequestStep`, `WorkerStep`,
  `TakeTask`): the interpreter schedules runnable threads. File lists are finite: the loop
  over files is a `for` over a list;
- strong fairness of taking a lock or passing the gate (`EnterVector`,
  `FinalizeBatch`, `ReserveBatch`): `threading.RLock` and `Condition` promise no
  order, but they do wake waiters, so a thread that finds the lock free again and
  again gets it some day. Weak fairness is not enough: other threads may take the
  lock each time in between;
- `WF(EndDestructive)` in `UploadPipeline`: a destructive call of the knowledge base
  returns, which `CallsReturn` shows of `KnowledgeBase` itself;
- in `TaskWatch`, weak fairness of `PostStep`, `PollStep` and `Refresh`: a request is answered or
  fails, since the browser ends it when the connection is lost, and the event loop goes on; and of
  `ServerStep`: a registered task ends, which `UploadsEnd` shows of the pipeline.

Nothing is assumed of clients, of the clock, of calls being made, of failures
or of restarts.

## 6. Proofs

TLAPS checks all of these for any value of the constants that satisfies the
named assumptions of the module (`KBConstants`, `QualityConstants`,
`CacheConstants`, `UploadConstants`, `MetadataConstants`, `LegacyConstants`,
`BackupConstants`, `NoBackup`, `ChatConstants`, `NoRecord`, `AccountsAssumption`, `WatchConstants`,
`HealthConstants`): sets of threads and of tasks are finite, bounds
are numbers, the windows of sign-in are not empty, the distinguished values are distinct from what they stand in for,
a history holds an even number of messages, governance files name documents, and a
legacy store is a finite set of records whose revisions are its own.

Every invariant that a run checks is stated by a theorem, and so is every action property and both
refinements: what TLC shows of a small instance holds of any.

**KnowledgeBase** (`KnowledgeBaseProofs`). `TypeCorrect` is type correctness. None of the safety properties is inductive.
The invariant proved first (`Inductive`) has these parts: who stands at a step
that needs a lock holds it (`LockInv`); the depth of the gate is the number of
open batches, and a destructive call, an open batch and a search exclude each
other as the gate's variables say (`GateInv`); revision ids are handed out once
and an active revision belongs to one source (`RevInv`); what each call has read
or written so far is still so, because it holds the vector lock; and the keyword
index has every visible chunk unless it is marked dirty or its mark is about to
be set by the thread that made it stale. `Exclusion`, `Completeness` and
`Freshness` follow from it. `Authorization` and `Readability` are action
properties: from the invariant, the row a call was authorised against is the row
it changes, and the revisions a search captured are still the visible ones when
it returns. `Refinement` shows that every step is a step of `Corpus` or leaves
it unchanged: the commit of the manifest is the moment of change, and everything
before and after it is invisible.

**QualityStore** (`QualityStoreProofs`). `TypeCorrect`, and `Backing`, which strengthens the property by
"an eligible run is done", since only finalised runs are eligible and no
outcome is rewritten. `Finality` is an action property over the typed store.
`Limiting` needs the induction over time of when feedback was given: no feedback
is younger than the clock, so a window that contains the new verdict contains
only what the code counted before it accepted it, and a purge only shrinks
windows.

**AnswerCache** (`AnswerCacheProofs`). The invariant says of every value,
wherever it is (a level, a stream's hand, or still being written), that it
answers the query of its key, that its key's generation has been reached, and
that while this generation lasts its passages are visible. A change of the
knowledge base advances the generation past every key in use, so the invariant
survives it with nothing left to show. `Currency` and `Undoing` follow. Together
with `Refinement` this covers the whole path: the knowledge base implements
`Corpus`, and over `Corpus` the cache never serves a stale answer.

**DocumentMetadata** (`DocumentMetadataProofs`). `Visibility` rests on
the shape of the manifest's operations: each step moves the generation or touches only the
metadata of sources that are not active (`ManifestStep`). `Resurrection` needs that nothing is deleted while a
migration runs, and that the schema is marked initialised once anything has been
(`MigratedFirst`). `Decision` needs the whole workflow: an application stands at each status with
exactly the approvals that lead there, by two different people, and a candidate
was built from an approved application and passed validation (`WorkflowInv`).
`Agreement` has the longest argument (`SyncInv`). Revisions are handed out once and every
active revision keeps its chunks, whatever is swept or discarded; so a sync that is alone
still finds what its snapshot named, and what it has dealt with agrees with the file, up to
the one row it is about to write. Each step of anyone else that could break this ends the
quiet the property asks for.

**UploadPipeline** (`UploadPipelineProofs`). The invariant (`Conservation`) has four
parts. `InStep`: request thread, worker, table entry and future of a task go together; a future is
registered exactly while its callback has yet to run. `Faithful`: what each point of the
worker knows about files, directory and status. `SweepInv`: a sweep under way knows
every task whose files are needed, or the directory is younger than what the sweep removes; this
is what makes its old snapshot of active tasks harmless. `Counted`: free permits and the tasks
that have one add up to the capacity, the depth of the gate is the number of tasks with an open
batch, and no destructive call runs while there is one. It needs `InStep`, since a permit and a batch
change hands between threads. `Sweeping`, `NoLeak`, `Shielded` and `Truthful` follow from the parts;
`Refinement` shows that every step is one of `TaskTable` or shows clients no change, where a poll
keeps `KeepLast` finished tasks because it takes no more than the excess.

**BackupStore** (`BackupStoreProofs`). `Recoverable` is inductive once the locals of the
command are known (`CmdInv`): a restore moves its stage only to where nothing is, and what
was there has been set aside under a name nobody bears. The rest is about retention. The backup
just made is the newest (`NewestInv`), which is where the assumptions of section 8 on the clock enter, so it has
no backup after it and is kept: `TrueLedger`. Retention removes from the oldest on
(`RetentionInv`): when it has removed one, or a part of one, no remaining backup has fewer
after it than before, so the set to keep is not redefined by the removal that serves it, and what is kept has lost files by
decay alone. Where there are `Keep` backups, `Keep` are kept: the newest of those that are not has
only kept ones after it (`EnoughKept`). `AlwaysRestorable` follows by counting.

**ChatStream** (`ChatStreamProofs`). Most of the invariant (`IInv`) is about one request: where its
handler and its producer can stand at a time (`Sides`), who has been told (`Telling`), what lies in
the queue between them (`Queued`), and what the run says (`Recording`, `Running`). A step of one
request leaves these of all others alone (`UnmovedStays`), which is what makes the proof one of each
action and not of each pair. `Queued` is the heart: while a handler waits, its queue holds exactly
the tokens it has not relayed, then the terminal event once it was posted, then the end; so a producer that is over
leaves an event to relay (`NoHang`), and a handler that meets the terminal event has collected the
whole answer. `Recording` follows an outcome from the store over the producer's hand and the queue to the
client (`TellsTheRecord`, `OpenRuns`). The histories need both (`HistoryInv`): a turn is appended by a stream that was
told a good end, so the answer is as long as what was generated, and trimming an even number of messages
cuts between turns (`WholeTurns`). `OwnMessages` needs that a session id, once drawn, is never given to a
second principal while the process lives (`SessionInv`), although the owner is forgotten by
expiry and eviction and a late stream writes a history back. The order in which sessions were
touched is kept with `SelectSeq`, of which the provers know nothing:
its type is the one part of `TypeOK` left to TLC. No safety property depends on it.

**Accounts** (`EdgeProofs`). `StaysOut`: the row of a revocation is there as long as its token can
be accepted (`RowsKept`), because purging goes by the clock that expiry goes by, for each of the
readings one request takes. `Audited`: what is dropped from the deduplication is a window old
(`LinesKept`). `LimitCounts` says that the purged, pruned and bounded dictionary gives the same answer as
the list of all failures: `SameWindow(r, f, t)` relates what is recorded to what happened, and
`WindowPasses` and its like show that time, another failure, the purge of an idle key and the look at a limit
preserve it. It needs what the recursive function `Within` computes for every
sequence. An induction theorem with an operator parameter cannot be used here, so induction is
proved first as a fact about sets (`NumberInduction`, `SequenceInduction`): the intervals `0 .. n`
are finite, strict inclusion of finite sets is well-founded
(`FS_StrictSubsetOrderingWellFounded`), so a set of numbers that is not empty has a least one (`LeastNatural`), and there is no least
counterexample. `Keeps` is what a `CHOOSE` of the recursive definition satisfies, shown to exist for each
length and to be unique.

**TaskWatch** (`EdgeProofs`). `TabInv` adds four parts to the property. A task that is not registered is
known to no poll and to no memory (`NewUnknown`). An upload in flight has its watch to
itself, and what the server answered it has reached no other place (`PostsAlone`): this is what makes the moment safe when the answer
turns into a remembered id and a poll. A final answer on its way, and a poll that
ended in a watch that goes on, were earned by a task that was over when it was asked about
(`EndsEarned`); tasks never come back from there, so the answer may be as late as it likes. And what is remembered is past
its upload in a watch that is live (`WatchedOn`), through the 401 that rejects one watch while
another one is started by signing in. `TasksNotLost` and `StoredWatched` follow.

**HealthCheck** (`EdgeProofs`). `HealthInv` says how far the saved state and the ledger may part while a run
is under way: for a check no fault has touched they agree, unless this run has appended an event
for it (`SavedAgrees`), and then the state about to be saved agrees (`RunAccounts`, `NextAgrees`). Which checks have an event of this run
is read off its time, for which runs have to begin at different times and no event may be
younger than its run (`EventsDated`). A run that ended has decided (`RunDecided`).
`LedgerAgrees` is the case of no run under way; `StoryTold` is an action property: what a run appends continues the
last event, because the saved incident it goes by is the one the ledger shows open, its cooldown
counted from the last alert. `AlarmsEarned` needs that the requests the check weighs are those of the window
(`WeighsTheSlow`) and that requests logged later in the same tick only add to them
(`SlowFound`).

`EdgeProofs` covers three components that share nothing, one part after the other; each part uses
the assumptions of its own module.

Only model-checked: liveness (`CallsReturn`, `UploadsEnd`, `WatchesEnd`), which with
fairness is beyond the prover; the type of `touched` in `ChatStream`; and that the variants of definitions
named in section 2 break their properties.

## 7. Disagreements between code and documentation

Where a comment or a document promises more than the code does, the modules model the
code, and their properties state what does hold.

- The comment at `enterprise_rag/storage/vector_store.py:233` says any other error must
  stop the rebuild so that manifest and store stay in step; a failure of
  `manifest.clear()` (239), or a death of the process, after the collection was dropped
  leaves active rows without chunks. `VisibleIsComplete` therefore excepts `lost`.
- `docs/ops-contract.md:20` promises at most 30 days. A run judged later than it was
  created makes the purge of both fail on the foreign key
  (`services/quality_service.py:400`), and the rollback keeps every expired row.
- The comment at `scripts/backup.py:348` calls `-wal` files no part of the snapshot, and
  verification skips them (351). After a killed service such a file holds commits that
  the database file does not have, and `create_backup` copies it as it is; a
  backup that lost it is verified, entered into the ledger and restored without
  those commits. With a service that was stopped gracefully the comment is right.
- The docstring at `enterprise_rag/storage/vector_store.py:104` speaks of a migration done once;
  `commit_source` (149) marks the schema as initialised with the first source, ahead of
  `mark_initialized` (150), so that a process that dies between two sources leaves
  the others unmigrated for good.
  They are invisible and come back by uploading them again, as ambiguous ones do.
- `docs/metadata-acl-contract.md:28` says documents without the new fields are read as
  visible to all. The code fails closed: without complete access metadata
  only administrators see them (`Admits` in `DocumentMetadata`).

Behaviour that no document denies and that is worth knowing:

- A revoked token is accepted by a request that checks its expiry just before and its
  revocation just after the moment both end: `RevokedStaysOut` names this exception.
- Signing out revokes the token that authenticated the request; a request with a bearer
  token and the cookie of another one leaves the cookie's token valid.
- The login limit folds the case of user names, accounts do not, so two accounts
  can share one limit.
- Looking at the login limit makes a key for every name tried; keys are purged only
  when a failure is recorded.
- The health check takes any successful answer of the webhook for a delivery;
  the relay in `monitoring/wechat_webhook/server.py` is stricter about its own upstream.
- A tab in which somebody else signs in asks for the first person's tasks, gets 404
  and forgets them, which is why `NotLost` excepts tasks asked for as somebody else.

## 8. What is not modelled

The reasons are in "components" of `PROJECT.json`. In short: texts, scores and
prompts; loading, chunking and embedding, which appear as steps that succeed or
fail; metrics, logs and read-only reports; configuration and deployment; and
rendering. Clock adjustments are in no module: every clock goes on or stands still.

`KnowledgeBase` starts from a store that is new or migrated; the migration itself is in
`DocumentMetadata`. Of the modelled components these parts are left out:

- the classification of a document and the syntax of department codes in `storage/acl.py`;
- the bounded window of parsed files inside one upload (`document_service.py:187-244`), which
  keeps the order of the files and changes no outcome;
- of the health check, the limit of 2 MB read from each log, log rotation, and
  two runs at once, which the registered task excludes (an operator who starts one by hand does not);
- of accounts, hashing and signatures, the answers to a broken
  configuration (what the probe says of it is in `Readiness`), and the modes `dev` and `single_user`, which keep no state;
- of the browser, deleting and clearing documents, and the chat store, which appends what one
  stream sends.

`BackupStore` assumes what the command asks its operator to confirm: one command
at a time, with the service stopped. It also assumes that a backup takes
longer than the second it is named after. Without that, or with a clock that is set back, a
backup can get a name that sorts before an older one's and be removed by its own
retention (`scripts/backup.py:223`). Whether the data directory can
be renamed at all is the environment's: the mount point of a volume cannot, and a
restore onto one fails (`GiveUp`) without having changed anything.

## 9. Plan

What is left, the most consequential first.

1. An abstract specification of a conversation (a sequence of whole turns of one
   principal) that `ChatStream` implements, and the proof of it from `IInv`.
2. The parse window of an upload as a module of its own: bounded memory and order
   under any completion order of the parsers.
3. Clocks that step back, in `BackupStore` and `HealthCheck`.
