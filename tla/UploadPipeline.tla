--------------------------- MODULE UploadPipeline ---------------------------
(***************************************************************************)
(* The upload pipeline (services/document_service.py, backend/api/         *)
(* upload.py): request threads that reserve a queue slot, open an upload   *)
(* batch, stage the files on disk and submit a task to the executor; the   *)
(* executor's workers that parse and add the files; the sweep of stale     *)
(* staging directories every new upload runs; and the clients that poll    *)
(* tasks and thereby trim the history of finished ones.                    *)
(*                                                                         *)
(* Each task belongs to one request thread (req) and, once submitted, to   *)
(* one worker (run); both go on independently.  The knowledge base is seen *)
(* through its gate only (depth, destructive) and through what adding a    *)
(* file reports.                                                           *)
(***************************************************************************)
EXTENDS Integers, Sequences, FiniteSets

CONSTANTS Tasks,        \* upload requests, each with the task id it draws
          FileCount,    \* files of an upload
          PoolSize,     \* UPLOAD_TASK_WORKERS
          Capacity,     \* UPLOAD_QUEUE_CAPACITY
          StagingTTL,   \* UPLOAD_STAGING_TTL_SECONDS, in ticks
          KeepLast,     \* _TASK_HISTORY_LIMIT
          NoDir,        \* no staging directory
          MaxTime,      \* bound: ticks of the clock
          MaxCrashes    \* bound: restarts of the process

ASSUME UploadConstants ==
    /\ IsFiniteSet(Tasks)
    /\ FileCount \in Nat \ {0}
    /\ PoolSize \in Nat \ {0}
    /\ Capacity \in Nat /\ Capacity >= PoolSize
    /\ StagingTTL \in Nat
    /\ KeepLast \in Nat
    /\ NoDir \notin Nat
    /\ MaxTime \in Nat
    /\ MaxCrashes \in Nat

VARIABLES
    dir,          \* dir[t]: mtime of t's staging directory (on disk)
    clock,        \* the wall clock
    status,       \* _UPLOAD_TASKS[t]["status"], "none" without an entry
    older,        \* older[t]: the tasks that had finished when t did
    futures,      \* keys of _UPLOAD_FUTURES
    slots,        \* free permits of _UPLOAD_SLOTS
    queue,        \* the executor's work queue
    depth,        \* _batch_update_depth of the knowledge base
    destructive,  \* _destructive_mutation of the knowledge base
    req,          \* req[t]: where the request thread of t stands
    run,          \* run[t]: where the worker of t stands
    active,       \* active[t]: active_task_ids of t's sweep
    cutoff,       \* cutoff[t]: the mtime below which t's sweep removes
    files,        \* files[t][i]: what became of the i-th file
    trouble,      \* trouble[t]: fail_list has an entry that is not a file
    crashes       \* restarts so far

kbGate == <<depth, destructive>>
board == <<status, older>>
sweeper == <<active, cutoff>>
outcome == <<files, trouble>>
world == <<clock, crashes>>
vars == <<dir, clock, status, older, futures, slots, queue, depth,
          destructive, req, run, active, cutoff, files, trouble, crashes>>
-----------------------------------------------------------------------------
Terminal == {"done", "partial", "error"}
Unfinished == {"pending", "processing"}

RequestLabels == {"new", "busy", "reserve", "snapshot", "sweep", "stage",
                  "submit", "record", "callback", "accepted",
                  "undo", "release", "failed", "dead"}
RunLabels == {"none", "queued", "files", "cleanup", "publish", "settle", "over"}

\* What becomes of a file.  "added": the knowledge base holds it now; "skipped":
\* it held just this already, or there is no text in the file; "failed": nothing
\* has changed; "committed": the commit took effect, and then the call raised.
Outcomes == {"added", "skipped", "failed", "committed"}
Failures == {"failed", "committed"}   \* what ends up in fail_list
FileStates == Outcomes \cup {"todo"}

TypeOK ==
    /\ dir \in [Tasks -> 0..MaxTime \cup {NoDir}]
    /\ clock \in 0..MaxTime
    /\ status \in [Tasks -> Unfinished \cup Terminal \cup {"none"}]
    /\ older \in [Tasks -> SUBSET Tasks]
    /\ futures \subseteq Tasks
    /\ slots \in 0..Capacity
    /\ queue \in Seq(Tasks)
    /\ depth \in Nat
    /\ destructive \in BOOLEAN
    /\ req \in [Tasks -> RequestLabels]
    /\ run \in [Tasks -> RunLabels]
    /\ active \in [Tasks -> SUBSET Tasks]
    /\ cutoff \in [Tasks -> 0..MaxTime]
    /\ files \in [Tasks -> [1..FileCount -> FileStates]]
    /\ trouble \in [Tasks -> BOOLEAN]
    /\ crashes \in 0..MaxCrashes

AllTodo == [i \in 1..FileCount |-> "todo"]

Init ==
    /\ dir = [t \in Tasks |-> NoDir]
    /\ clock = 0
    /\ status = [t \in Tasks |-> "none"]
    /\ older = [t \in Tasks |-> {}]
    /\ futures = {}
    /\ slots = Capacity
    /\ queue = <<>>
    /\ depth = 0
    /\ destructive = FALSE
    /\ req = [t \in Tasks |-> "new"]
    /\ run = [t \in Tasks |-> "none"]
    /\ active = [t \in Tasks |-> {}]
    /\ cutoff = [t \in Tasks |-> 0]
    /\ files = [t \in Tasks |-> AllTodo]
    /\ trouble = [t \in Tasks |-> FALSE]
    /\ crashes = 0

ReqGoes(t, from, to) == req[t] = from /\ req' = [req EXCEPT ![t] = to]
RunGoes(t, from, to) == run[t] = from /\ run' = [run EXCEPT ![t] = to]

Finished == {u \in Tasks : status[u] \in Terminal}

\* _set_upload_task with a terminal status: the entry is the newest update.
Conclude(t, verdict) ==
    /\ status' = [status EXCEPT ![t] = verdict]
    /\ older' = [older EXCEPT ![t] = Finished]

\* The future of u is registered and has not ended.
InFlight(u) == u \in futures /\ run[u] # "over"

\* _release_upload_slot, the done callback of t's future.
ReleaseSlot(t) ==
    /\ futures' = futures \ {t}
    /\ slots' = slots + 1
-----------------------------------------------------------------------------
(***************************************************************************)
(* process_uploads, on a request thread.                                   *)
(***************************************************************************)

AcquireSlot(t) ==
    /\ \/ /\ slots > 0
          /\ slots' = slots - 1
          /\ ReqGoes(t, "new", "reserve")
       \/ /\ slots = 0
          /\ ReqGoes(t, "new", "busy")
          /\ UNCHANGED slots
    /\ UNCHANGED <<dir, world, board, futures, queue, kbGate, run, sweeper, outcome>>

\* Mutant: the batch opens under a deletion or clear.
ReserveBatch_NoWait(t) ==
    /\ depth' = depth + 1
    /\ status' = [status EXCEPT ![t] = "pending"]
    /\ ReqGoes(t, "reserve", "snapshot")
    /\ UNCHANGED <<dir, world, older, futures, slots, queue, destructive, run,
                   sweeper, outcome>>

\* begin_batch_index_updates waits for a deletion or clear to end; then the
\* task is registered.
ReserveBatch(t) ==
    /\ ~destructive
    /\ depth' = depth + 1
    /\ status' = [status EXCEPT ![t] = "pending"]
    /\ ReqGoes(t, "reserve", "snapshot")
    /\ UNCHANGED <<dir, world, older, futures, slots, queue, destructive, run,
                   sweeper, outcome>>

\* Mutant: tasks still waiting in the queue are not counted as active.
ActiveTasks_RunningOnly == {u \in Tasks : status[u] = "processing"}

ActiveTasks == {u \in Tasks : status[u] \in Unfinished \/ InFlight(u)}

\* cleanup_stale_staging_files: the tasks whose directories must stay, and the
\* age beyond which any other one goes.  Both are read together: the code has
\* nothing to wait for in between, and the TTL is at least a minute.
SnapshotActive(t) ==
    /\ active' = [active EXCEPT ![t] = ActiveTasks]
    /\ cutoff' = [cutoff EXCEPT ![t] =
                     IF clock > StagingTTL THEN clock - StagingTTL ELSE 0]
    /\ ReqGoes(t, "snapshot", "sweep")
    /\ UNCHANGED <<dir, world, board, futures, slots, queue, kbGate, run, outcome>>

Stale(t, u) == dir[u] # NoDir /\ u \notin active[t] /\ dir[u] < cutoff[t]

SweepOne(t) ==
    /\ req[t] = "sweep"
    /\ \E u \in Tasks : Stale(t, u) /\ dir' = [dir EXCEPT ![u] = NoDir]
    /\ UNCHANGED <<world, board, futures, slots, queue, kbGate, req, run,
                   sweeper, outcome>>

\* The sweep is over, and directories it could not remove stay.  The task's own
\* directory is made, and every file streamed into it renews its mtime.
MakeDir(t) ==
    /\ ReqGoes(t, "sweep", "stage")
    /\ dir' = [dir EXCEPT ![t] = clock]
    /\ active' = [active EXCEPT ![t] = {}]
    /\ cutoff' = [cutoff EXCEPT ![t] = 0]
    /\ UNCHANGED <<world, board, futures, slots, queue, kbGate, run, outcome>>

StageFiles(t) ==
    /\ ReqGoes(t, "stage", "submit")
    /\ dir' = [dir EXCEPT ![t] = clock]
    /\ UNCHANGED <<world, board, futures, slots, queue, kbGate, run, sweeper, outcome>>

\* _submit_upload_task: the worker may start, and even end, before the future
\* is recorded and before its callback is attached.
SubmitTask(t) ==
    /\ ReqGoes(t, "submit", "record")
    /\ queue' = Append(queue, t)
    /\ run' = [run EXCEPT ![t] = "queued"]
    /\ UNCHANGED <<dir, world, board, futures, slots, kbGate, sweeper, outcome>>

RecordFuture(t) ==
    /\ ReqGoes(t, "record", "callback")
    /\ futures' = futures \cup {t}
    /\ UNCHANGED <<dir, world, board, slots, queue, kbGate, run, sweeper, outcome>>

\* A callback attached to a future that has ended runs at once.
AttachCallback(t) ==
    /\ ReqGoes(t, "callback", "accepted")
    /\ IF run[t] = "over" THEN ReleaseSlot(t) ELSE UNCHANGED <<futures, slots>>
    /\ UNCHANGED <<dir, world, board, queue, kbGate, run, sweeper, outcome>>

\* The except branch: staging or submitting failed.
FailRequest(t) ==
    /\ req[t] \in {"snapshot", "sweep", "stage", "submit"}
    /\ req' = [req EXCEPT ![t] = "undo"]
    /\ dir' \in {dir, [dir EXCEPT ![t] = NoDir]}
    /\ Conclude(t, "error")
    /\ active' = [active EXCEPT ![t] = {}]
    /\ cutoff' = [cutoff EXCEPT ![t] = 0]
    /\ UNCHANGED <<world, futures, slots, queue, kbGate, run, outcome>>

\* The finally branch: the batch is closed, then the slot given back.  Closing
\* cannot fail: the refresh it may run swallows every error, and the collection
\* it runs on has been opened by the batch that changed it.
UndoBatch(t) ==
    /\ ReqGoes(t, "undo", "release")
    /\ depth' = depth - 1
    /\ UNCHANGED <<dir, world, board, futures, slots, queue, destructive, run,
                   sweeper, outcome>>

UndoSlot(t) ==
    /\ ReqGoes(t, "release", "failed")
    /\ slots' = slots + 1
    /\ UNCHANGED <<dir, world, board, futures, queue, kbGate, run, sweeper, outcome>>
-----------------------------------------------------------------------------
(***************************************************************************)
(* _upload_worker, on one of the executor's threads.                       *)
(***************************************************************************)

\* Mutant: a worker is never free again.
Busy_ForEver == {t \in Tasks : run[t] \notin {"none", "queued"}}

Busy == {t \in Tasks : run[t] \notin {"none", "queued", "over"}}

TakeTask ==
    /\ queue # <<>>
    /\ Cardinality(Busy) < PoolSize
    /\ LET t == Head(queue)
       IN  /\ RunGoes(t, "queued", "files")
           /\ status' = [status EXCEPT ![t] = "processing"]
    /\ queue' = Tail(queue)
    /\ UNCHANGED <<dir, world, older, futures, slots, kbGate, req, sweeper, outcome>>

\* The files are read from the staging directory and added in upload order.
\* A file that is gone cannot be parsed; a call that raises tells nothing of
\* whether the file got in.
NextFile(t) ==
    \E i \in 1..FileCount :
        /\ run[t] = "files"
        /\ files[t][i] = "todo"
        /\ \A j \in 1..(i - 1) : files[t][j] # "todo"
        /\ \E o \in IF dir[t] = NoDir THEN {"failed"} ELSE Outcomes :
              files' = [files EXCEPT ![t][i] = o]
        /\ UNCHANGED <<dir, world, board, futures, slots, queue, kbGate, req, run,
                       sweeper, trouble>>

AllFilesDone(t) == \A i \in 1..FileCount : files[t][i] # "todo"

\* Mutant: the failure of the batch as a whole is not listed.
CloseBatch_Silent(t) ==
    /\ RunGoes(t, "files", "cleanup")
    /\ depth' = depth - 1
    /\ trouble' \in {trouble, [trouble EXCEPT ![t] = TRUE]}
    /\ UNCHANGED <<dir, world, board, futures, slots, queue, destructive, req,
                   sweeper, files>>

\* The batch is closed when every file has been dealt with, or when the batch
\* as a whole fails; finalize_batch_index_updates can fail as well, but closes
\* it.
CloseBatch(t) ==
    /\ RunGoes(t, "files", "cleanup")
    /\ depth' = depth - 1
    /\ \/ AllFilesDone(t) /\ UNCHANGED trouble
       \/ trouble' = [trouble EXCEPT ![t] = TRUE]
    /\ UNCHANGED <<dir, world, board, futures, slots, queue, destructive, req,
                   sweeper, files>>

RemoveStaging(t) ==
    /\ RunGoes(t, "cleanup", "publish")
    /\ \/ dir' = [dir EXCEPT ![t] = NoDir] /\ UNCHANGED trouble
       \/ /\ dir[t] # NoDir
          /\ trouble' = [trouble EXCEPT ![t] = TRUE]
          /\ UNCHANGED dir
    /\ UNCHANGED <<world, board, futures, slots, queue, kbGate, req, sweeper, files>>

Some(t, O) == \E i \in 1..FileCount : files[t][i] \in O

\* The terminal status: added_count and fail_list decide.
Verdict(t) ==
    LET failed == trouble[t] \/ Some(t, Failures)
    IN  IF ~failed THEN "done" ELSE IF Some(t, {"added"}) THEN "partial" ELSE "error"

PublishResult(t) ==
    /\ RunGoes(t, "publish", "settle")
    /\ Conclude(t, Verdict(t))
    /\ UNCHANGED <<dir, world, futures, slots, queue, kbGate, req, sweeper, outcome>>

\* Mutant: the callback is taken for granted even when not yet attached.
Settle_ReleasesAlways(t) ==
    /\ RunGoes(t, "settle", "over")
    /\ ReleaseSlot(t)
    /\ UNCHANGED <<dir, world, board, queue, kbGate, req, sweeper, outcome>>

\* The future ends; a callback attached by then runs on the worker.
Settle(t) ==
    /\ RunGoes(t, "settle", "over")
    /\ IF req[t] = "accepted" THEN ReleaseSlot(t) ELSE UNCHANGED <<futures, slots>>
    /\ UNCHANGED <<dir, world, board, queue, kbGate, req, sweeper, outcome>>
-----------------------------------------------------------------------------
(***************************************************************************)
(* The clients and the world.                                              *)
(***************************************************************************)

\* Mutant: a running future does not protect its task.
Evictable_IgnoresFutures(t) == Finished \ {t}

\* clear_finished_tasks: of the finished tasks beyond KeepLast, the oldest go,
\* except the one polled and those whose future has not ended.
Evictable(t) == {u \in Finished : u # t /\ ~InFlight(u)}
Excess == Cardinality(Finished) - KeepLast
Evicts(t, gone) ==
    /\ gone \subseteq Evictable(t)
    /\ \A u \in gone : older[u] \cap Evictable(t) \subseteq gone
    /\ Cardinality(gone) <= Excess
    /\ gone = Evictable(t) \/ Cardinality(gone) = Excess

\* GET /tasks/{t}
Poll(t) ==
    \E gone \in SUBSET Finished :
        /\ gone # {} /\ Evicts(t, gone)
        /\ status' = [u \in Tasks |-> IF u \in gone THEN "none" ELSE status[u]]
        /\ older' = [u \in Tasks |-> IF u \in gone THEN {} ELSE older[u] \ gone]
        /\ UNCHANGED <<dir, world, futures, slots, queue, kbGate, req, run, sweeper,
                       outcome>>

\* A deletion, clear or rebuild of the knowledge base.
BeginDestructive ==
    /\ ~destructive /\ depth = 0
    /\ destructive' = TRUE
    /\ UNCHANGED <<dir, world, board, futures, slots, queue, depth, req, run,
                   sweeper, outcome>>

EndDestructive ==
    /\ destructive
    /\ destructive' = FALSE
    /\ UNCHANGED <<dir, world, board, futures, slots, queue, depth, req, run,
                   sweeper, outcome>>

Tick ==
    /\ clock < MaxTime
    /\ clock' = clock + 1
    /\ UNCHANGED <<dir, board, futures, slots, queue, kbGate, req, run, sweeper,
                   outcome, crashes>>

\* The process dies; only the staging directories survive.
Restart ==
    /\ crashes < MaxCrashes
    /\ crashes' = crashes + 1
    /\ status' = [t \in Tasks |-> "none"]
    /\ older' = [t \in Tasks |-> {}]
    /\ futures' = {}
    /\ slots' = Capacity
    /\ queue' = <<>>
    /\ depth' = 0
    /\ destructive' = FALSE
    /\ req' = [t \in Tasks |-> IF req[t] = "new" THEN "new" ELSE "dead"]
    /\ run' = [t \in Tasks |-> "none"]
    /\ active' = [t \in Tasks |-> {}]
    /\ cutoff' = [t \in Tasks |-> 0]
    /\ files' = [t \in Tasks |-> AllTodo]
    /\ trouble' = [t \in Tasks |-> FALSE]
    /\ UNCHANGED <<dir, clock>>

RequestStep(t) == \/ SnapshotActive(t) \/ SweepOne(t) \/ MakeDir(t)
                  \/ StageFiles(t) \/ SubmitTask(t)
                  \/ RecordFuture(t) \/ AttachCallback(t) \/ FailRequest(t)
                  \/ UndoBatch(t) \/ UndoSlot(t)

WorkerStep(t) == \/ NextFile(t) \/ CloseBatch(t)
                 \/ RemoveStaging(t) \/ PublishResult(t) \/ Settle(t)

Next == \/ \E t \in Tasks : \/ AcquireSlot(t) \/ ReserveBatch(t)
                            \/ RequestStep(t) \/ WorkerStep(t) \/ Poll(t)
        \/ TakeTask \/ BeginDestructive \/ EndDestructive \/ Tick \/ Restart

Spec == Init /\ [][Next]_vars

\* Request threads and workers that can run do run, every destructive call
\* ends, and an upload waiting for the gate gets through some day.
FairSpec ==
    /\ Spec
    /\ \A t \in Tasks : WF_vars(RequestStep(t)) /\ WF_vars(WorkerStep(t))
                        /\ SF_vars(ReserveBatch(t))
    /\ WF_vars(TakeTask)
    /\ WF_vars(EndDestructive)
-----------------------------------------------------------------------------
(***************************************************************************)
(* Properties.                                                             *)
(***************************************************************************)

\* The sweep of one upload never takes the staged files of another, however
\* long that one waits in the queue or for the knowledge base
\* (document_service.py:126-154; tests/test_upload_pipeline.py:404).
LiveDirsKept ==
    \A t \in Tasks :
        /\ req[t] \in {"stage", "submit", "record", "callback", "accepted"}
        /\ run[t] \in {"none", "queued", "files", "cleanup"}
        => dir[t] # NoDir

\* Once every request thread and worker is done, every slot, every batch and
\* every future has been given back exactly once, whichever of the two ended
\* first and whatever failed (document_service.py:478-506, 616-636).
NothingLeaks ==
    (\A t \in Tasks : /\ req[t] \in {"new", "busy", "accepted", "failed", "dead"}
                      /\ run[t] \in {"none", "over"})
    => slots = Capacity /\ depth = 0 /\ futures = {}

\* The knowledge base is never deleted from, cleared or rebuilt between the
\* moment an upload is registered and the moment its last file has been dealt
\* with, across the handover from request thread to worker
\* (document_service.py:560-561, 632-636, 379-386).
NoDestructionDuringUpload ==
    destructive => \A t \in Tasks :
        /\ run[t] \notin {"queued", "files"}
        /\ req[t] \notin {"snapshot", "sweep", "stage", "submit", "undo"}

\* How much a client can read off a terminal status.  "done": every file that
\* has any text is in the knowledge base, and the staged copies are gone.
\* "partial": some file got in, and nobody should rely on the others.  "error":
\* nothing got in but what a commit stored whose call raised afterwards; these
\* files are in although they are told as failed (document_service.py:343-357,
\* 401-406; vector_store.py:511-513, 559-578).
StatusTellsOutcome ==
    \A t \in Tasks :
        /\ status[t] = "done" =>
              /\ \A i \in 1..FileCount : files[t][i] \in {"added", "skipped"}
              /\ dir[t] = NoDir
        /\ status[t] = "partial" => Some(t, {"added"})
        /\ status[t] = "error" => ~Some(t, {"added"})

\* The table as clients see it.
Shown == [t \in Tasks |-> IF status[t] # "none" THEN status[t]
                          ELSE IF req[t] \in {"new", "reserve"} THEN "new" ELSE "gone"]
Tracked == {t \in Tasks : InFlight(t)}

Table == INSTANCE TaskTable WITH Verdicts <- Terminal, status <- Shown, tracked <- Tracked

\* To a client that polls, the pipeline is a table of tasks: an entry goes from
\* pending to processing to one terminal status that is never taken back, a poll
\* trims only finished tasks whose future has ended and leaves KeepLast behind,
\* and only a restart takes the others (document_service.py:254-475, 560-706,
\* backend/api/upload.py:126-135).
RefinesTaskTable == Table!TableSpec

\* Every registered upload reaches a terminal status, unless a restart or, at
\* the end, the trimming of the history removes it (document_service.py:254-475).
UploadsEnd ==
    \A t \in Tasks : status[t] \in Unfinished ~> status[t] \in Terminal \cup {"none"}
=============================================================================
