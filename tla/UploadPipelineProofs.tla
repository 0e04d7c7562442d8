------------------------ MODULE UploadPipelineProofs ------------------------
(***************************************************************************)
(* Safety of the upload pipeline, for any number of uploads, files,        *)
(* workers, slots and restarts, and the proof that it implements TaskTable. *)
(***************************************************************************)
EXTENDS UploadPipeline, FiniteSetTheorems, TLAPS

\* Where a request thread stands between its permit and the executor's future,
\* and where it has failed.
Staging == {"snapshot", "sweep", "stage", "submit"}
Submitted == {"record", "callback", "accepted"}
Failing == {"undo", "release", "failed"}

\* Who has a permit of _UPLOAD_SLOTS, and who has a batch open.
HasSlot(t) == \/ req[t] \in Staging \cup {"reserve", "record", "callback", "undo", "release"}
              \/ req[t] = "accepted" /\ run[t] # "over"
HasBatch(t) == req[t] \in Staging \cup {"undo"} \/ run[t] \in {"queued", "files"}

SlotHolders == {t \in Tasks : HasSlot(t)}
BatchHolders == {t \in Tasks : HasBatch(t)}

\* Request thread, worker, entry and future of a task go together.
InStep(t) ==
    /\ run[t] # "none" <=> req[t] \in Submitted
    /\ t \in futures <=> req[t] = "callback" \/ (req[t] = "accepted" /\ run[t] # "over")
    /\ req[t] \in {"new", "busy", "reserve", "dead"} => status[t] = "none"
    /\ req[t] \in Staging => status[t] = "pending"
    /\ req[t] \in Failing => status[t] \in {"error", "none"}
    /\ run[t] = "queued" => status[t] = "pending"
    /\ run[t] \in {"files", "cleanup", "publish"} => status[t] = "processing"
    /\ run[t] \in {"settle", "over"} => status[t] \in Terminal \cup {"none"}

\* What has become of the files at each point of the worker.
Faithful(t) ==
    /\ run[t] \in {"none", "queued"} => files[t] = AllTodo
    /\ run[t] \in {"cleanup", "publish"} /\ ~trouble[t] => AllFilesDone(t)
    /\ run[t] = "publish" /\ ~trouble[t] => dir[t] = NoDir
    /\ status[t] = "done" =>
          /\ \A i \in 1..FileCount : files[t][i] \in {"added", "skipped"}
          /\ dir[t] = NoDir
    /\ status[t] = "partial" => Some(t, {"added"})
    /\ status[t] = "error" => ~Some(t, {"added"})

\* The staged files of t are still needed.
Live(t) == /\ req[t] \in {"stage", "submit"} \cup Submitted
           /\ run[t] \in {"none", "queued", "files", "cleanup"}

\* A sweep that is under way spares them: it knows t, or t's directory is
\* younger than what it removes.
Spares(t, u) == u \in active[t] \/ dir[u] >= cutoff[t]

SweepInv ==
    /\ \A t \in Tasks : cutoff[t] <= clock
    /\ \A t \in Tasks : Live(t) => dir[t] # NoDir
    /\ \A t, u \in Tasks : req[t] = "sweep" /\ Live(u) => Spares(t, u)

Counted ==
    /\ slots + Cardinality(SlotHolders) = Capacity
    /\ depth = Cardinality(BatchHolders)
    /\ destructive => depth = 0

PipelineInv ==
    /\ TypeOK
    /\ \A t \in Tasks : InStep(t) /\ Faithful(t)
    /\ SweepInv
    /\ Counted
-----------------------------------------------------------------------------
(***************************************************************************)
(* Request thread, worker, entry and future.                               *)
(***************************************************************************)
LEMMA InStepNext ==
    ASSUME TypeOK, \A t \in Tasks : InStep(t), [Next]_vars
    PROVE  \A t \in Tasks : InStep(t)'
<1> USE DEF InStep, TypeOK, RequestLabels, RunLabels, Unfinished, Terminal,
            Staging, Submitted, Failing, ReqGoes, RunGoes, board, world, kbGate,
            sweeper, outcome
<1>1. ASSUME NEW t \in Tasks, AcquireSlot(t) \/ ReserveBatch(t)
      PROVE  \A u \in Tasks : InStep(u)'
  BY <1>1 DEF AcquireSlot, ReserveBatch
<1>2. ASSUME NEW t \in Tasks, SnapshotActive(t) \/ SweepOne(t) \/ MakeDir(t) \/ StageFiles(t)
      PROVE  \A u \in Tasks : InStep(u)'
  BY <1>2 DEF SnapshotActive, SweepOne, MakeDir, StageFiles
<1>3. ASSUME NEW t \in Tasks, SubmitTask(t) \/ RecordFuture(t)
      PROVE  \A u \in Tasks : InStep(u)'
  BY <1>3 DEF SubmitTask, RecordFuture
<1>4. ASSUME NEW t \in Tasks, AttachCallback(t)
      PROVE  \A u \in Tasks : InStep(u)'
  BY <1>4 DEF AttachCallback, ReleaseSlot
<1>5. ASSUME NEW t \in Tasks, FailRequest(t) \/ UndoBatch(t) \/ UndoSlot(t)
      PROVE  \A u \in Tasks : InStep(u)'
  BY <1>5 DEF FailRequest, UndoBatch, UndoSlot, Conclude
<1>6. CASE TakeTask
  BY <1>6 DEF TakeTask
<1>7. ASSUME NEW t \in Tasks, NextFile(t) \/ CloseBatch(t) \/ RemoveStaging(t)
      PROVE  \A u \in Tasks : InStep(u)'
  BY <1>7 DEF NextFile, CloseBatch, RemoveStaging
<1>8. ASSUME NEW t \in Tasks, PublishResult(t)
      PROVE  \A u \in Tasks : InStep(u)'
  BY <1>8 DEF PublishResult, Conclude, Verdict
<1>9. ASSUME NEW t \in Tasks, Settle(t)
      PROVE  \A u \in Tasks : InStep(u)'
  BY <1>9 DEF Settle, ReleaseSlot
<1>10. ASSUME NEW t \in Tasks, Poll(t)
       PROVE  \A u \in Tasks : InStep(u)'
  <2>1. PICK gone \in SUBSET Finished :
           /\ status' = [u \in Tasks |-> IF u \in gone THEN "none" ELSE status[u]]
           /\ UNCHANGED <<futures, req, run>>
    BY <1>10 DEF Poll
  <2>2. \A u \in gone : status[u] \in Terminal
    BY DEF Finished
  <2> QED
    BY <2>1, <2>2
<1>11. CASE BeginDestructive \/ EndDestructive \/ Tick
  BY <1>11 DEF BeginDestructive, EndDestructive, Tick
<1>12. CASE Restart
  BY <1>12 DEF Restart
<1>13. CASE UNCHANGED vars
  BY <1>13 DEF vars
<1> QED
  BY <1>1, <1>2, <1>3, <1>4, <1>5, <1>6, <1>7, <1>8, <1>9, <1>10, <1>11, <1>12, <1>13
     DEF Next, RequestStep, WorkerStep
-----------------------------------------------------------------------------
(***************************************************************************)
(* Files and statuses.                                                     *)
(***************************************************************************)
\* A step that neither touches the files of u nor publishes a result for it.
LEMMA FaithfulKept ==
    ASSUME NEW u \in Tasks, Faithful(u),
           files'[u] = files[u], trouble'[u] = trouble[u], dir'[u] \in {dir[u], NoDir},
           status'[u] \in Terminal => status'[u] = status[u],
           run'[u] \in {"none", "queued"} => run[u] \in {"none", "queued"},
           run'[u] \in {"cleanup", "publish"} => run'[u] = run[u]
    PROVE  Faithful(u)'
BY DEF Faithful, Terminal, AllFilesDone, Some, AllTodo

LEMMA FaithfulNext ==
    ASSUME TypeOK, \A t \in Tasks : InStep(t) /\ Faithful(t), [Next]_vars
    PROVE  \A t \in Tasks : Faithful(t)'
<1> SUFFICES ASSUME NEW u \in Tasks
             PROVE  Faithful(u)'
  OBVIOUS
<1> USE DEF TypeOK, RequestLabels, RunLabels, Terminal, ReqGoes, RunGoes, board, world,
            kbGate, sweeper, outcome
<1>1. ASSUME NEW t \in Tasks,
             \/ AcquireSlot(t) \/ ReserveBatch(t) \/ SnapshotActive(t) \/ SweepOne(t)
             \/ SubmitTask(t) \/ RecordFuture(t)
      PROVE  Faithful(u)'
  <2>1. \/ UNCHANGED run
        \/ run' = [run EXCEPT ![t] = "queued"] /\ run[t] = "none"
    <3>1. CASE SubmitTask(t)
      BY <3>1 DEF SubmitTask, InStep, Submitted
    <3>2. CASE ~SubmitTask(t)
      BY <1>1, <3>2 DEF AcquireSlot, ReserveBatch, SnapshotActive, SweepOne, RecordFuture
    <3> QED
      BY <3>1, <3>2
  <2>2. status' = status \/ status' = [status EXCEPT ![t] = "pending"]
    BY <1>1 DEF AcquireSlot, ReserveBatch, SnapshotActive, SweepOne, SubmitTask, RecordFuture
  <2>3. dir'[u] \in {dir[u], NoDir} /\ UNCHANGED <<files, trouble>>
    BY <1>1 DEF AcquireSlot, ReserveBatch, SnapshotActive, SweepOne, SubmitTask, RecordFuture
  <2>4. status'[u] \in Terminal => status'[u] = status[u]
    BY <2>2
  <2>5. /\ run'[u] \in {"none", "queued"} => run[u] \in {"none", "queued"}
        /\ run'[u] \in {"cleanup", "publish"} => run'[u] = run[u]
    BY <2>1
  <2> QED
    BY <2>3, <2>4, <2>5, FaithfulKept
<1>2. ASSUME NEW t \in Tasks, MakeDir(t) \/ StageFiles(t)
      PROVE  Faithful(u)'
  <2>1. /\ req[t] \in {"sweep", "stage"}
        /\ dir' = [dir EXCEPT ![t] = clock]
        /\ UNCHANGED <<run, status, files, trouble>>
    BY <1>2 DEF MakeDir, StageFiles
  <2>2. CASE u = t
    <3>1. run[u] = "none" /\ status[u] = "pending"
      BY <2>1, <2>2 DEF InStep, Staging, Submitted
    <3> QED
      BY <2>1, <3>1 DEF Faithful
  <2>3. CASE u # t
    BY <2>1, <2>3, FaithfulKept
  <2> QED
    BY <2>2, <2>3
<1>3. ASSUME NEW t \in Tasks, AttachCallback(t) \/ Settle(t) \/ UndoBatch(t) \/ UndoSlot(t)
      PROVE  Faithful(u)'
  <2>1. /\ run' = run \/ run' = [run EXCEPT ![t] = "over"]
        /\ UNCHANGED <<status, dir, files, trouble>>
    BY <1>3 DEF AttachCallback, Settle, UndoBatch, UndoSlot
  <2> QED
    BY <2>1, FaithfulKept
<1>4. ASSUME NEW t \in Tasks, FailRequest(t)
      PROVE  Faithful(u)'
  <2>1. /\ req[t] \in Staging
        /\ dir'[u] \in {dir[u], NoDir}
        /\ status' = [status EXCEPT ![t] = "error"]
        /\ UNCHANGED <<run, files, trouble>>
    BY <1>4 DEF FailRequest, Conclude, Staging
  <2>2. CASE u = t
    <3>1. run[u] = "none" /\ files[u] = AllTodo
      BY <2>1, <2>2 DEF InStep, Staging, Submitted, Faithful
    <3>2. ~Some(u, {"added"})'
      BY <2>1, <3>1 DEF Some, AllTodo
    <3> QED
      BY <2>1, <2>2, <3>1, <3>2 DEF Faithful
  <2>3. CASE u # t
    BY <2>1, <2>3, FaithfulKept
  <2> QED
    BY <2>2, <2>3
<1>5. CASE TakeTask
  <2>1. \E t \in Tasks : /\ run' = [run EXCEPT ![t] = "files"]
                         /\ status' = [status EXCEPT ![t] = "processing"]
    <3>1. Head(queue) \in Tasks
      BY <1>5 DEF TakeTask
    <3> QED
      BY <1>5, <3>1 DEF TakeTask
  <2>2. UNCHANGED <<dir, files, trouble>>
    BY <1>5 DEF TakeTask
  <2> QED
    BY <2>1, <2>2, FaithfulKept
<1>6. ASSUME NEW t \in Tasks, NextFile(t)
      PROVE  Faithful(u)'
  <2>1. /\ run[t] = "files"
        /\ \E i \in 1..FileCount, o \in FileStates : files' = [files EXCEPT ![t][i] = o]
        /\ UNCHANGED <<run, status, dir, trouble>>
    BY <1>6 DEF NextFile, FileStates, Outcomes
  <2>2. CASE u = t
    BY <2>1, <2>2 DEF InStep, Faithful
  <2>3. CASE u # t
    BY <2>1, <2>3, FaithfulKept
  <2> QED
    BY <2>2, <2>3
<1>7. ASSUME NEW t \in Tasks, CloseBatch(t)
      PROVE  Faithful(u)'
  <2>1. /\ run[t] = "files" /\ run' = [run EXCEPT ![t] = "cleanup"]
        /\ \/ AllFilesDone(t) /\ trouble' = trouble
           \/ trouble' = [trouble EXCEPT ![t] = TRUE]
        /\ UNCHANGED <<status, dir, files>>
    BY <1>7 DEF CloseBatch
  <2>2. CASE u = t
    BY <2>1, <2>2 DEF InStep, Faithful, AllFilesDone
  <2>3. CASE u # t
    BY <2>1, <2>3, FaithfulKept
  <2> QED
    BY <2>2, <2>3
<1>8. ASSUME NEW t \in Tasks, RemoveStaging(t)
      PROVE  Faithful(u)'
  <2>1. /\ run[t] = "cleanup" /\ run' = [run EXCEPT ![t] = "publish"]
        /\ \/ dir' = [dir EXCEPT ![t] = NoDir] /\ trouble' = trouble
           \/ dir' = dir /\ trouble' = [trouble EXCEPT ![t] = TRUE]
        /\ UNCHANGED <<status, files>>
    BY <1>8 DEF RemoveStaging
  <2>2. CASE u = t
    BY <2>1, <2>2 DEF InStep, Faithful, AllFilesDone
  <2>3. CASE u # t
    BY <2>1, <2>3, FaithfulKept
  <2> QED
    BY <2>2, <2>3
<1>9. ASSUME NEW t \in Tasks, PublishResult(t)
      PROVE  Faithful(u)'
  <2>1. /\ run[t] = "publish" /\ run' = [run EXCEPT ![t] = "settle"]
        /\ status' = [status EXCEPT ![t] = Verdict(t)]
        /\ UNCHANGED <<dir, files, trouble>>
    BY <1>9 DEF PublishResult, Conclude
  <2>2. CASE u = t
    <3>1. /\ Verdict(t) = "done" => /\ AllFilesDone(t) /\ ~Some(t, Failures)
                                    /\ dir[t] = NoDir
          /\ Verdict(t) = "partial" => Some(t, {"added"})
          /\ Verdict(t) = "error" => ~Some(t, {"added"})
      BY <2>1, <2>2 DEF Verdict, Faithful
    <3>2. AllFilesDone(t) /\ ~Some(t, Failures)
          => \A i \in 1..FileCount : files[t][i] \in {"added", "skipped"}
      <4>1. \A i \in 1..FileCount : files[t][i] \in FileStates
        OBVIOUS
      <4> QED
        BY <4>1 DEF AllFilesDone, Some, FileStates, Outcomes, Failures
    <3> QED
      BY <2>1, <2>2, <3>1, <3>2 DEF Faithful, Some
  <2>3. CASE u # t
    BY <2>1, <2>3, FaithfulKept
  <2> QED
    BY <2>2, <2>3
<1>10. ASSUME NEW t \in Tasks, Poll(t)
       PROVE  Faithful(u)'
  <2>1. /\ status'[u] \in {status[u], "none"}
        /\ UNCHANGED <<run, dir, files, trouble>>
    BY <1>10 DEF Poll
  <2> QED
    BY <2>1, FaithfulKept
<1>11. CASE BeginDestructive \/ EndDestructive \/ Tick \/ UNCHANGED vars
  <2>1. UNCHANGED <<status, run, dir, files, trouble>>
    BY <1>11 DEF BeginDestructive, EndDestructive, Tick, vars
  <2> QED
    BY <2>1, FaithfulKept
<1>12. CASE Restart
  BY <1>12 DEF Restart, Faithful
<1> QED
  BY <1>1, <1>2, <1>3, <1>4, <1>5, <1>6, <1>7, <1>8, <1>9, <1>10, <1>11, <1>12
     DEF Next, RequestStep, WorkerStep
-----------------------------------------------------------------------------
(***************************************************************************)
(* Staging directories.                                                    *)
(***************************************************************************)
\* What a new sweep takes for stale belongs to no upload that needs it.
LEMMA LiveIsActive ==
    ASSUME TypeOK, NEW u \in Tasks, InStep(u), Live(u)
    PROVE  u \in ActiveTasks
BY DEF TypeOK, RequestLabels, RunLabels, InStep, Live, ActiveTasks, Unfinished, Staging, Submitted

\* A step after which no more directories are needed, and none is older, and no
\* sweep has begun.
LEMMA SweepKept ==
    ASSUME TypeOK, SweepInv, clock' \in Nat, clock <= clock',
           \A t \in Tasks : Live(t)' => Live(t) /\ dir'[t] = dir[t],
           \A t \in Tasks : /\ req'[t] = "sweep" => req[t] = "sweep"
                            /\ \/ active'[t] = active[t] /\ cutoff'[t] = cutoff[t]
                               \/ req'[t] # "sweep" /\ cutoff'[t] = 0
    PROVE  SweepInv'
<1> USE UploadConstants DEF TypeOK
<1>1. ASSUME NEW t \in Tasks
      PROVE  cutoff'[t] <= clock'
  <2>1. clock \in Nat /\ cutoff[t] \in Nat /\ cutoff[t] <= clock
    BY DEF SweepInv
  <2>2. cutoff'[t] = cutoff[t] \/ cutoff'[t] = 0
    OBVIOUS
  <2> QED
    BY <2>1, <2>2
<1>2. \A t \in Tasks : Live(t)' => dir'[t] # NoDir
  BY DEF SweepInv
<1>3. ASSUME NEW t \in Tasks, NEW u \in Tasks, req'[t] = "sweep", Live(u)'
      PROVE  Spares(t, u)'
  BY <1>3 DEF SweepInv, Spares
<1> QED
  BY <1>1, <1>2, <1>3 DEF SweepInv

LEMMA SweepNext ==
    ASSUME TypeOK, \A t \in Tasks : InStep(t), SweepInv, [Next]_vars
    PROVE  SweepInv'
<1> USE UploadConstants
        DEF TypeOK, RequestLabels, RunLabels, Live, Staging, Submitted,
            ReqGoes, RunGoes, board, world, kbGate, sweeper, outcome
<1>1. ASSUME NEW t \in Tasks, AcquireSlot(t) \/ ReserveBatch(t)
      PROVE  SweepInv'
  BY SMTT(30), <1>1, SweepKept DEF AcquireSlot, ReserveBatch
<1>2. ASSUME NEW t \in Tasks, SnapshotActive(t)
      PROVE  SweepInv'
  BY <1>2, LiveIsActive DEF SnapshotActive, SweepInv, Spares
<1>3. ASSUME NEW t \in Tasks, SweepOne(t)
      PROVE  SweepInv'
  <2>1. PICK u \in Tasks : Stale(t, u) /\ dir' = [dir EXCEPT ![u] = NoDir]
    BY <1>3 DEF SweepOne
  <2>2. ~Live(u)
    BY <1>3, <2>1 DEF SweepOne, SweepInv, Spares, Stale
  <2> QED
    BY <1>3, <2>1, <2>2, SweepKept DEF SweepOne
<1>4. ASSUME NEW t \in Tasks, MakeDir(t) \/ StageFiles(t)
      PROVE  SweepInv'
  <2>1. /\ dir' = [dir EXCEPT ![t] = clock]
        /\ req'[t] # "sweep"
        /\ \A u \in Tasks : req'[u] = "sweep" => /\ req[u] = "sweep" /\ active'[u] = active[u]
                                               /\ cutoff'[u] = cutoff[u]
        /\ \A u \in Tasks : cutoff'[u] \in {cutoff[u], 0}
        /\ \A u \in Tasks : u # t /\ Live(u)' => Live(u)
        /\ clock' = clock
    BY <1>4 DEF MakeDir, StageFiles
  <2>2. clock \in Nat /\ \A u \in Tasks : cutoff[u] <= clock
    BY DEF SweepInv
  <2>3. \A u \in Tasks : Live(u)' => dir'[u] # NoDir
    BY <2>1, <2>2 DEF SweepInv
  <2>4. ASSUME NEW v \in Tasks, NEW u \in Tasks, req'[v] = "sweep", Live(u)'
        PROVE  Spares(v, u)'
    <3>1. CASE u = t
      BY <2>1, <2>2, <2>4, <3>1 DEF Spares
    <3>2. CASE u # t
      BY <2>1, <2>4, <3>2 DEF SweepInv, Spares
    <3> QED
      BY <3>1, <3>2
  <2>5. ASSUME NEW u \in Tasks
        PROVE  cutoff'[u] <= clock'
    <3>1. cutoff'[u] = cutoff[u] \/ cutoff'[u] = 0
      BY <2>1
    <3> QED
      BY <2>1, <2>2, <3>1
  <2> QED
    BY <2>3, <2>4, <2>5 DEF SweepInv
<1>5. ASSUME NEW t \in Tasks, SubmitTask(t) \/ RecordFuture(t) \/ AttachCallback(t)
      PROVE  SweepInv'
  BY SMTT(30), <1>5, SweepKept DEF SubmitTask, RecordFuture, AttachCallback, InStep
<1>6. ASSUME NEW t \in Tasks, FailRequest(t) \/ UndoBatch(t) \/ UndoSlot(t)
      PROVE  SweepInv'
  BY SMTT(30), <1>6, SweepKept DEF FailRequest, UndoBatch, UndoSlot
<1>7. CASE TakeTask
  BY <1>7, SweepKept DEF TakeTask
<1>8. ASSUME NEW t \in Tasks, NextFile(t) \/ CloseBatch(t) \/ RemoveStaging(t)
      PROVE  SweepInv'
  BY SMTT(30), <1>8, SweepKept DEF NextFile, CloseBatch, RemoveStaging
<1>9. ASSUME NEW t \in Tasks, PublishResult(t) \/ Settle(t) \/ Poll(t)
      PROVE  SweepInv'
  BY <1>9, SweepKept DEF PublishResult, Settle, Poll
<1>10. CASE BeginDestructive \/ EndDestructive \/ Tick
  BY <1>10, SweepKept DEF BeginDestructive, EndDestructive, Tick
<1>11. CASE Restart
  BY <1>11, SweepKept DEF Restart
<1>12. CASE UNCHANGED vars
  BY <1>12, SweepKept DEF vars
<1> QED
  BY <1>1, <1>2, <1>3, <1>4, <1>5, <1>6, <1>7, <1>8, <1>9, <1>10, <1>11, <1>12
     DEF Next, RequestStep, WorkerStep
-----------------------------------------------------------------------------
(***************************************************************************)
(* Permits and open batches are counted.                                   *)
(***************************************************************************)
LEMMA Holders == /\ IsFiniteSet(SlotHolders) /\ Cardinality(SlotHolders) \in Nat
                 /\ IsFiniteSet(BatchHolders) /\ Cardinality(BatchHolders) \in Nat
BY UploadConstants, FS_Subset, FS_CardinalityType DEF SlotHolders, BatchHolders

\* One holder comes, goes, or none does.
LEMMA SlotTaken ==
    ASSUME NEW t \in Tasks, ~HasSlot(t), HasSlot(t)',
           \A u \in Tasks \ {t} : HasSlot(u)' <=> HasSlot(u)
    PROVE  Cardinality(SlotHolders') = Cardinality(SlotHolders) + 1
<1>1. SlotHolders' = SlotHolders \cup {t} /\ t \notin SlotHolders
  BY DEF SlotHolders
<1> QED
  BY <1>1, Holders, FS_AddElement

LEMMA SlotReturned ==
    ASSUME NEW t \in Tasks, HasSlot(t), ~HasSlot(t)',
           \A u \in Tasks \ {t} : HasSlot(u)' <=> HasSlot(u)
    PROVE  Cardinality(SlotHolders') = Cardinality(SlotHolders) - 1
<1>1. SlotHolders' = SlotHolders \ {t} /\ t \in SlotHolders
  BY DEF SlotHolders
<1> QED
  BY <1>1, Holders, FS_RemoveElement

LEMMA SlotsHeld ==
    ASSUME \A u \in Tasks : HasSlot(u)' <=> HasSlot(u)
    PROVE  Cardinality(SlotHolders') = Cardinality(SlotHolders)
<1>1. SlotHolders' = SlotHolders
  BY DEF SlotHolders
<1> QED
  BY <1>1

LEMMA BatchOpened ==
    ASSUME NEW t \in Tasks, ~HasBatch(t), HasBatch(t)',
           \A u \in Tasks \ {t} : HasBatch(u)' <=> HasBatch(u)
    PROVE  Cardinality(BatchHolders') = Cardinality(BatchHolders) + 1
<1>1. BatchHolders' = BatchHolders \cup {t} /\ t \notin BatchHolders
  BY DEF BatchHolders
<1> QED
  BY <1>1, Holders, FS_AddElement

LEMMA BatchClosed ==
    ASSUME NEW t \in Tasks, HasBatch(t), ~HasBatch(t)',
           \A u \in Tasks \ {t} : HasBatch(u)' <=> HasBatch(u)
    PROVE  /\ Cardinality(BatchHolders') = Cardinality(BatchHolders) - 1
           /\ Cardinality(BatchHolders') \in Nat
<1>1. BatchHolders' = BatchHolders \ {t} /\ t \in BatchHolders
  BY DEF BatchHolders
<1>2. IsFiniteSet(BatchHolders')
  BY <1>1, Holders, FS_RemoveElement
<1> QED
  BY <1>1, <1>2, Holders, FS_RemoveElement, FS_CardinalityType

LEMMA BatchesHeld ==
    ASSUME \A u \in Tasks : HasBatch(u)' <=> HasBatch(u)
    PROVE  Cardinality(BatchHolders') = Cardinality(BatchHolders)
<1>1. BatchHolders' = BatchHolders
  BY DEF BatchHolders
<1> QED
  BY <1>1

LEMMA CountedNext ==
    ASSUME TypeOK, \A t \in Tasks : InStep(t), Counted, [Next]_vars
    PROVE  Counted'
<1> USE DEF TypeOK, RequestLabels, RunLabels, Staging, Submitted, HasSlot, HasBatch,
            ReqGoes, RunGoes, board, world, kbGate, sweeper, outcome
<1>0. /\ slots + Cardinality(SlotHolders) = Capacity /\ depth = Cardinality(BatchHolders)
      /\ destructive => depth = 0
      /\ slots \in Nat /\ depth \in Nat /\ Capacity \in Nat
      /\ Cardinality(SlotHolders) \in Nat /\ Cardinality(BatchHolders) \in Nat
  BY Holders, UploadConstants DEF Counted
<1>1. ASSUME NEW t \in Tasks, AcquireSlot(t)
      PROVE  Counted'
  <2>1. Cardinality(BatchHolders') = Cardinality(BatchHolders) /\ UNCHANGED kbGate
    BY <1>1, BatchesHeld DEF AcquireSlot
  <2>2. CASE slots > 0
    <3>1. slots' = slots - 1 /\ ReqGoes(t, "new", "reserve") /\ UNCHANGED run
      BY <1>0, <1>1, <2>2 DEF AcquireSlot
    <3>2. Cardinality(SlotHolders') = Cardinality(SlotHolders) + 1
      BY <3>1, SlotTaken
    <3> QED
      BY <1>0, <2>1, <3>1, <3>2 DEF Counted
  <2>3. CASE slots = 0
    <3>1. slots' = slots /\ Cardinality(SlotHolders') = Cardinality(SlotHolders)
      BY <1>1, <2>3, SlotsHeld DEF AcquireSlot
    <3> QED
      BY <1>0, <2>1, <3>1 DEF Counted
  <2> QED
    BY <1>0, <2>2, <2>3
<1>2. ASSUME NEW t \in Tasks, ReserveBatch(t)
      PROVE  Counted'
  <2>1. Cardinality(SlotHolders') = Cardinality(SlotHolders) /\ slots' = slots
    BY <1>2, SlotsHeld DEF ReserveBatch
  <2>2. run[t] = "none"
    BY <1>2 DEF ReserveBatch, InStep
  <2>3. /\ Cardinality(BatchHolders') = Cardinality(BatchHolders) + 1
        /\ depth' = depth + 1 /\ ~destructive /\ ~destructive'
    BY <1>2, <2>2, BatchOpened DEF ReserveBatch
  <2> QED
    BY <1>0, <2>1, <2>3 DEF Counted
\* Steps inside the request thread that keep what it has.
<1>3. ASSUME NEW t \in Tasks, \/ SnapshotActive(t) \/ SweepOne(t) \/ MakeDir(t) \/ StageFiles(t)
                              \/ SubmitTask(t) \/ RecordFuture(t) \/ FailRequest(t)
      PROVE  Counted'
  <2>1. run[t] = "queued" \/ run[t] = "files" => req[t] \in Submitted
    BY DEF InStep
  <2>2. /\ \A u \in Tasks : (HasSlot(u)' <=> HasSlot(u)) /\ (HasBatch(u)' <=> HasBatch(u))
        /\ UNCHANGED <<slots, kbGate>>
    BY <1>3, <2>1
       DEF SnapshotActive, SweepOne, MakeDir, StageFiles, SubmitTask, RecordFuture, FailRequest
  <2> QED
    BY <1>0, <2>2, SlotsHeld, BatchesHeld DEF Counted
<1>4. ASSUME NEW t \in Tasks, AttachCallback(t)
      PROVE  Counted'
  <2>1. Cardinality(BatchHolders') = Cardinality(BatchHolders) /\ UNCHANGED kbGate
    BY <1>4, BatchesHeld DEF AttachCallback
  <2>2. CASE run[t] = "over"
    <3>1. slots' = slots + 1 /\ Cardinality(SlotHolders') = Cardinality(SlotHolders) - 1
      BY <1>4, <2>2, SlotReturned DEF AttachCallback, ReleaseSlot
    <3> QED
      BY <1>0, <2>1, <3>1 DEF Counted
  <2>3. CASE run[t] # "over"
    <3>1. slots' = slots /\ Cardinality(SlotHolders') = Cardinality(SlotHolders)
      BY <1>4, <2>3, SlotsHeld DEF AttachCallback
    <3> QED
      BY <1>0, <2>1, <3>1 DEF Counted
  <2> QED
    BY <2>2, <2>3
<1>5. ASSUME NEW t \in Tasks, UndoBatch(t)
      PROVE  Counted'
  <2>1. Cardinality(SlotHolders') = Cardinality(SlotHolders) /\ slots' = slots
    BY <1>5, SlotsHeld DEF UndoBatch
  <2>2. run[t] = "none"
    BY <1>5 DEF UndoBatch, InStep
  <2>3. /\ Cardinality(BatchHolders') = Cardinality(BatchHolders) - 1
        /\ Cardinality(BatchHolders') \in Nat
        /\ depth' = depth - 1 /\ destructive' = destructive
    BY <1>5, <2>2, BatchClosed DEF UndoBatch
  <2> QED
    BY <1>0, <2>1, <2>3 DEF Counted
<1>6. ASSUME NEW t \in Tasks, UndoSlot(t)
      PROVE  Counted'
  <2>1. Cardinality(BatchHolders') = Cardinality(BatchHolders) /\ UNCHANGED kbGate
    BY <1>6, BatchesHeld DEF UndoSlot
  <2>2. slots' = slots + 1 /\ Cardinality(SlotHolders') = Cardinality(SlotHolders) - 1
    BY <1>6, SlotReturned DEF UndoSlot
  <2> QED
    BY <1>0, <2>1, <2>2 DEF Counted
\* Steps of the worker that keep what it has.
<1>7. CASE TakeTask
  <2>1. PICK t \in Tasks : /\ run[t] = "queued"
                           /\ run' = [run EXCEPT ![t] = "files"]
    <3>1. Head(queue) \in Tasks
      BY <1>7 DEF TakeTask
    <3> QED
      BY <1>7, <3>1 DEF TakeTask
  <2>2. UNCHANGED <<req, slots, kbGate>>
    BY <1>7 DEF TakeTask
  <2>3. \A u \in Tasks : (HasSlot(u)' <=> HasSlot(u)) /\ (HasBatch(u)' <=> HasBatch(u))
    BY <2>1, <2>2
  <2> QED
    BY <1>0, <2>2, <2>3, SlotsHeld, BatchesHeld DEF Counted
<1>8. ASSUME NEW t \in Tasks, NextFile(t) \/ RemoveStaging(t) \/ PublishResult(t) \/ Poll(t)
      PROVE  Counted'
  <2>1. /\ \A u \in Tasks : (HasSlot(u)' <=> HasSlot(u)) /\ (HasBatch(u)' <=> HasBatch(u))
        /\ UNCHANGED <<slots, kbGate>>
    BY <1>8 DEF NextFile, RemoveStaging, PublishResult, Poll
  <2> QED
    BY <1>0, <2>1, SlotsHeld, BatchesHeld DEF Counted
<1>9. ASSUME NEW t \in Tasks, CloseBatch(t)
      PROVE  Counted'
  <2>1. Cardinality(SlotHolders') = Cardinality(SlotHolders) /\ slots' = slots
    BY <1>9, SlotsHeld DEF CloseBatch
  <2>2. req[t] \in Submitted
    BY <1>9 DEF CloseBatch, InStep
  <2>3. /\ Cardinality(BatchHolders') = Cardinality(BatchHolders) - 1
        /\ Cardinality(BatchHolders') \in Nat
        /\ depth' = depth - 1 /\ destructive' = destructive
    BY <1>9, <2>2, BatchClosed DEF CloseBatch
  <2> QED
    BY <1>0, <2>1, <2>3 DEF Counted
<1>10. ASSUME NEW t \in Tasks, Settle(t)
       PROVE  Counted'
  <2>1. Cardinality(BatchHolders') = Cardinality(BatchHolders) /\ UNCHANGED kbGate
    BY <1>10, BatchesHeld DEF Settle
  <2>2. CASE req[t] = "accepted"
    <3>1. slots' = slots + 1 /\ Cardinality(SlotHolders') = Cardinality(SlotHolders) - 1
      BY <1>10, <2>2, SlotReturned DEF Settle, ReleaseSlot
    <3> QED
      BY <1>0, <2>1, <3>1 DEF Counted
  <2>3. CASE req[t] # "accepted"
    <3>1. slots' = slots /\ Cardinality(SlotHolders') = Cardinality(SlotHolders)
      BY <1>10, <2>3, SlotsHeld DEF Settle
    <3> QED
      BY <1>0, <2>1, <3>1 DEF Counted
  <2> QED
    BY <2>2, <2>3
<1>11. CASE BeginDestructive \/ EndDestructive \/ Tick \/ UNCHANGED vars
  <2>1. /\ UNCHANGED <<req, run, slots, depth>>
        /\ destructive' => destructive \/ depth = 0
    BY <1>11 DEF BeginDestructive, EndDestructive, Tick, vars
  <2> QED
    BY <1>0, <2>1, SlotsHeld, BatchesHeld DEF Counted
<1>12. CASE Restart
  <2>1. SlotHolders' = {} /\ BatchHolders' = {}
    BY <1>12 DEF Restart, SlotHolders, BatchHolders
  <2> QED
    BY <1>0, <1>12, <2>1, FS_EmptySet DEF Restart, Counted
<1> QED
  BY <1>1, <1>2, <1>3, <1>4, <1>5, <1>6, <1>7, <1>8, <1>9, <1>10, <1>11, <1>12
     DEF Next, RequestStep, WorkerStep
-----------------------------------------------------------------------------
(***************************************************************************)
(* Types.  Permits and batches stay in range because they are counted.     *)
(***************************************************************************)
LEMMA CountersTyped ==
    ASSUME TypeOK, Counted', [Next]_vars
    PROVE  slots' \in 0..Capacity /\ depth' \in Nat
<1>1. slots' \in Nat
  <2>1. slots' \in {slots, slots + 1, Capacity} \/ (slots > 0 /\ slots' = slots - 1)
    BY DEF Next, RequestStep, WorkerStep, AcquireSlot, ReserveBatch, SnapshotActive, SweepOne,
           MakeDir, StageFiles, SubmitTask, RecordFuture, AttachCallback, ReleaseSlot,
           FailRequest, UndoBatch, UndoSlot, TakeTask, NextFile, CloseBatch, RemoveStaging,
           PublishResult, Settle, Poll, BeginDestructive, EndDestructive, Tick, Restart, vars
  <2> QED
    BY <2>1, UploadConstants DEF TypeOK
<1>2. /\ IsFiniteSet(SlotHolders') /\ IsFiniteSet(BatchHolders')
      /\ Cardinality(SlotHolders') \in Nat /\ Cardinality(BatchHolders') \in Nat
  BY UploadConstants, FS_Subset, FS_CardinalityType DEF SlotHolders, BatchHolders
<1>3. slots' + Cardinality(SlotHolders') = Capacity /\ depth' = Cardinality(BatchHolders')
  BY DEF Counted
<1> QED
  BY <1>1, <1>2, <1>3, UploadConstants

LEMMA TypeNext ==
    ASSUME TypeOK, Counted', [Next]_vars
    PROVE  TypeOK'
<1>0. slots' \in 0..Capacity /\ depth' \in Nat
  BY CountersTyped
<1> USE UploadConstants, <1>0
        DEF TypeOK, RequestLabels, RunLabels, Unfinished, Terminal, FileStates, Outcomes, AllTodo,
            ReqGoes, RunGoes, board, world, kbGate, sweeper, outcome
<1>1. ASSUME NEW t \in Tasks, AcquireSlot(t)
      PROVE  TypeOK'
  <2>1. \E label \in RequestLabels : req' = [req EXCEPT ![t] = label]
    BY <1>1 DEF AcquireSlot
  <2> QED
    BY <1>1, <2>1 DEF AcquireSlot
<1>2. ASSUME NEW t \in Tasks, ReserveBatch(t)
      PROVE  TypeOK'
  BY <1>2 DEF ReserveBatch
<1>3. ASSUME NEW t \in Tasks, SnapshotActive(t)
      PROVE  TypeOK'
  BY <1>3 DEF SnapshotActive, ActiveTasks
<1>4. ASSUME NEW t \in Tasks, SweepOne(t)
      PROVE  TypeOK'
  BY <1>4 DEF SweepOne
<1>5. ASSUME NEW t \in Tasks, MakeDir(t)
      PROVE  TypeOK'
  BY <1>5 DEF MakeDir
<1>6. ASSUME NEW t \in Tasks, StageFiles(t)
      PROVE  TypeOK'
  BY <1>6 DEF StageFiles
<1>7. ASSUME NEW t \in Tasks, SubmitTask(t)
      PROVE  TypeOK'
  BY <1>7 DEF SubmitTask
<1>8. ASSUME NEW t \in Tasks, RecordFuture(t)
      PROVE  TypeOK'
  BY <1>8 DEF RecordFuture
<1>9. ASSUME NEW t \in Tasks, AttachCallback(t)
      PROVE  TypeOK'
  BY <1>9 DEF AttachCallback, ReleaseSlot
<1>10. ASSUME NEW t \in Tasks, FailRequest(t)
       PROVE  TypeOK'
  <2>1. /\ dir' \in [Tasks -> 0..MaxTime \cup {NoDir}]
        /\ older' \in [Tasks -> SUBSET Tasks]
    BY <1>10 DEF FailRequest, Conclude, Finished
  <2> QED
    BY <1>10, <2>1 DEF FailRequest, Conclude
<1>11. ASSUME NEW t \in Tasks, UndoBatch(t)
       PROVE  TypeOK'
  BY <1>11 DEF UndoBatch
<1>12. ASSUME NEW t \in Tasks, UndoSlot(t)
       PROVE  TypeOK'
  BY <1>12 DEF UndoSlot
<1>13. ASSUME NEW t \in Tasks, NextFile(t)
       PROVE  TypeOK'
  BY <1>13 DEF NextFile
<1>14. ASSUME NEW t \in Tasks, CloseBatch(t)
       PROVE  TypeOK'
  BY <1>14 DEF CloseBatch
<1>15. ASSUME NEW t \in Tasks, RemoveStaging(t)
       PROVE  TypeOK'
  BY <1>15 DEF RemoveStaging
<1>16. ASSUME NEW t \in Tasks, PublishResult(t)
       PROVE  TypeOK'
  BY <1>16 DEF PublishResult, Conclude, Verdict, Finished
<1>17. ASSUME NEW t \in Tasks, Settle(t)
       PROVE  TypeOK'
  BY <1>17 DEF Settle, ReleaseSlot
<1>18. ASSUME NEW t \in Tasks, Poll(t)
       PROVE  TypeOK'
  BY <1>18 DEF Poll
<1>19. CASE TakeTask
  <2>1. Head(queue) \in Tasks /\ Tail(queue) \in Seq(Tasks)
    BY <1>19 DEF TakeTask
  <2> QED
    BY <1>19, <2>1 DEF TakeTask
<1>20. CASE BeginDestructive
  BY <1>20 DEF BeginDestructive
<1>21. CASE EndDestructive
  BY <1>21 DEF EndDestructive
<1>22. CASE Tick
  BY <1>22 DEF Tick
<1>23. CASE Restart
  <2>1. queue' \in Seq(Tasks)
    BY <1>23 DEF Restart
  <2>2. files' \in [Tasks -> [1..FileCount -> FileStates]]
    BY <1>23 DEF Restart
  <2>3. crashes' \in 0..MaxCrashes /\ 0 \in 0..MaxTime
    BY <1>23 DEF Restart
  <2> QED
    BY <1>23, <2>1, <2>2, <2>3 DEF Restart
<1>24. CASE UNCHANGED vars
  BY <1>24 DEF vars
<1> QED
  BY <1>1, <1>2, <1>3, <1>4, <1>5, <1>6, <1>7, <1>8, <1>9, <1>10, <1>11, <1>12, <1>13,
     <1>14, <1>15, <1>16, <1>17, <1>18, <1>19, <1>20, <1>21, <1>22, <1>23, <1>24
     DEF Next, RequestStep, WorkerStep

LEMMA PipelineInit == Init => PipelineInv
<1> SUFFICES ASSUME Init
             PROVE  PipelineInv
  OBVIOUS
<1>1. TypeOK
  <2>1. queue \in Seq(Tasks)
    BY DEF Init
  <2>2. files \in [Tasks -> [1..FileCount -> FileStates]]
    BY DEF Init, AllTodo, FileStates, Outcomes
  <2>3. 0 \in 0..MaxTime /\ 0 \in 0..MaxCrashes /\ Capacity \in 0..Capacity
    BY UploadConstants
  <2> QED
    BY <2>1, <2>2, <2>3 DEF Init, TypeOK, RequestLabels, RunLabels
<1>2. \A t \in Tasks : InStep(t) /\ Faithful(t)
  BY DEF Init, InStep, Faithful, Staging, Submitted, Failing
<1>3. SweepInv
  BY DEF Init, SweepInv, Live, Submitted
<1>4. SlotHolders = {} /\ BatchHolders = {}
  BY DEF Init, SlotHolders, BatchHolders, HasSlot, HasBatch, Staging
<1>5. Counted
  BY <1>4, UploadConstants, FS_EmptySet DEF Init, Counted
<1> QED
  BY <1>1, <1>2, <1>3, <1>5 DEF PipelineInv

LEMMA PipelineNext == PipelineInv /\ [Next]_vars => PipelineInv'
BY InStepNext, FaithfulNext, SweepNext, CountedNext, TypeNext DEF PipelineInv

\* The invariant from which everything below follows: request thread, worker,
\* table entry and future of each task agree, files and status agree, sweeps
\* spare what is needed, and permits and batches add up
\* (document_service.py:126-154, 254-506, 510-636).
THEOREM Conservation == Spec => []PipelineInv
<1>1. Init => PipelineInv
  BY PipelineInit
<1>2. PipelineInv /\ [Next]_vars => PipelineInv'
  BY PipelineNext
<1> QED
  BY <1>1, <1>2, PTL DEF Spec

\* Type correctness of the pipeline.
THEOREM TypeCorrect == Spec => []TypeOK
BY Conservation, PTL DEF PipelineInv

\* No sweep takes files another upload still needs (document_service.py:126-154).
THEOREM Sweeping == Spec => []LiveDirsKept
<1>1. PipelineInv => LiveDirsKept
  BY DEF PipelineInv, SweepInv, Live, Submitted, LiveDirsKept
<1> QED
  BY <1>1, Conservation, PTL

\* Slots, batches and futures come back exactly once, whichever of request
\* thread and worker ends last (document_service.py:478-506, 616-636).
THEOREM NoLeak == Spec => []NothingLeaks
<1>1. ASSUME PipelineInv,
             \A t \in Tasks : /\ req[t] \in {"new", "busy", "accepted", "failed", "dead"}
                              /\ run[t] \in {"none", "over"}
      PROVE  slots = Capacity /\ depth = 0 /\ futures = {}
  <2>1. \A t \in Tasks : InStep(t)
    BY <1>1 DEF PipelineInv
  <2>2. SlotHolders = {} /\ BatchHolders = {}
    BY <1>1, <2>1 DEF SlotHolders, BatchHolders, HasSlot, HasBatch, InStep, Staging, Submitted
  <2>3. futures = {}
    BY <1>1, <2>1 DEF PipelineInv, TypeOK, InStep, Submitted
  <2> QED
    BY <1>1, <2>2, <2>3, UploadConstants, FS_EmptySet DEF PipelineInv, Counted, TypeOK
<1>2. PipelineInv => NothingLeaks
  BY <1>1 DEF NothingLeaks
<1> QED
  BY <1>2, Conservation, PTL

\* Nothing is deleted, cleared or rebuilt between the registration of an upload
\* and its last file (document_service.py:379-386, 560-561, 632-636).
THEOREM Shielded == Spec => []NoDestructionDuringUpload
<1>1. ASSUME PipelineInv, destructive
      PROVE  BatchHolders = {}
  <2>1. Cardinality(BatchHolders) = 0 /\ IsFiniteSet(BatchHolders)
    BY <1>1, Holders DEF PipelineInv, Counted
  <2> QED
    BY <2>1, FS_EmptySet
<1>2. PipelineInv => NoDestructionDuringUpload
  BY <1>1 DEF NoDestructionDuringUpload, BatchHolders, HasBatch, Staging
<1> QED
  BY <1>2, Conservation, PTL

\* "done" leaves out no file that has any text, "partial" has let one in, and
\* what "error" hides is what a commit stored whose call raised afterwards
\* (document_service.py:343-357, 401-406).
THEOREM Truthful == Spec => []StatusTellsOutcome
<1>1. PipelineInv => StatusTellsOutcome
  BY DEF PipelineInv, Faithful, StatusTellsOutcome
<1> QED
  BY <1>1, Conservation, PTL
-----------------------------------------------------------------------------
(***************************************************************************)
(* To its clients the pipeline is a TaskTable.                             *)
(***************************************************************************)
\* A step that changes neither statuses, as they are shown, nor who is tracked.
LEMMA TableSame ==
    ASSUME \A t \in Tasks : \/ status'[t] = status[t] /\ req'[t] = req[t]
                            \/ status'[t] = status[t] /\ status[t] # "none"
                            \/ /\ status'[t] = "none" /\ status[t] = "none"
                               /\ req'[t] \in {"new", "reserve"} <=> req[t] \in {"new", "reserve"},
           \A t \in Tasks : InFlight(t)' <=> InFlight(t)
    PROVE  UNCHANGED Table!tableVars
<1>1. Shown' = Shown
  BY DEF Shown
<1>2. Tracked' = Tracked
  BY DEF Tracked
<1> QED
  BY <1>1, <1>2 DEF Table!tableVars

LEMMA TableStarts == Init => Table!TableInit
<1> SUFFICES ASSUME Init
             PROVE  Table!TableInit
  OBVIOUS
<1>1. Shown = [t \in Tasks |-> "new"]
  BY DEF Init, Shown
<1>2. Tracked = {}
  BY DEF Init, Tracked, InFlight
<1> QED
  BY <1>1, <1>2 DEF Table!TableInit

\* The request thread.
LEMMA RequestRefines ==
    ASSUME PipelineInv, NEW t \in Tasks, AcquireSlot(t) \/ ReserveBatch(t) \/ RequestStep(t)
    PROVE  [Table!TableNext]_(Table!tableVars)
<1> USE DEF PipelineInv, TypeOK, RequestLabels, RunLabels, Staging, Submitted, Failing, InStep,
            ReqGoes, RunGoes, board, world, kbGate, sweeper, outcome
<1>1. CASE AcquireSlot(t)
  <2>1. Tracked' = Tracked
    BY <1>1 DEF AcquireSlot, Tracked, InFlight
  <2>2. CASE slots > 0
    BY <1>1, <2>2, TableSame DEF AcquireSlot, InFlight
  <2>3. CASE ~(slots > 0)
    <3>1. Shown[t] = "new" /\ Shown' = [Shown EXCEPT ![t] = "gone"]
      BY <1>1, <2>3 DEF AcquireSlot, Shown
    <3> QED
      BY <2>1, <3>1 DEF Table!Refuse, Table!TableNext
  <2> QED
    BY <2>2, <2>3
<1>2. CASE ReserveBatch(t)
  <2>1. Tracked' = Tracked
    BY <1>2 DEF ReserveBatch, Tracked, InFlight
  <2>2. Shown[t] = "new" /\ Shown' = [Shown EXCEPT ![t] = "pending"]
    BY <1>2 DEF ReserveBatch, Shown
  <2> QED
    BY <2>1, <2>2 DEF Table!Register, Table!TableNext
<1>3. CASE SnapshotActive(t) \/ SweepOne(t) \/ MakeDir(t) \/ StageFiles(t)
  <2>1. /\ req'[t] \notin {"new", "reserve"} /\ req[t] \notin {"new", "reserve"}
        /\ \A u \in Tasks \ {t} : req'[u] = req[u]
        /\ UNCHANGED <<status, futures, run>>
    BY <1>3 DEF SnapshotActive, SweepOne, MakeDir, StageFiles
  <2> QED
    BY <2>1, TableSame DEF InFlight
<1>4. CASE SubmitTask(t)
  <2>1. /\ req'[t] \notin {"new", "reserve"} /\ req[t] \notin {"new", "reserve"}
        /\ \A u \in Tasks \ {t} : req'[u] = req[u]
        /\ run[t] = "none" /\ run' = [run EXCEPT ![t] = "queued"]
        /\ UNCHANGED <<status, futures>>
    BY <1>4 DEF SubmitTask
  <2> QED
    BY <2>1, TableSame DEF InFlight
<1>5. CASE RecordFuture(t)
  <2>1. Shown' = Shown /\ Shown[t] # "new"
    BY <1>5 DEF RecordFuture, Shown, Unfinished, Terminal
  <2>2. CASE run[t] = "over"
    <3>1. Tracked' = Tracked
      BY <1>5, <2>2 DEF RecordFuture, Tracked, InFlight
    <3> QED
      BY <2>1, <3>1 DEF Table!tableVars
  <2>3. CASE run[t] # "over"
    <3>1. Tracked' = Tracked \cup {t}
      BY <1>5, <2>3 DEF RecordFuture, Tracked, InFlight
    <3> QED
      BY <2>1, <3>1 DEF Table!Track, Table!TableNext
  <2> QED
    BY <2>2, <2>3
<1>6. CASE AttachCallback(t)
  <2>1. /\ req'[t] \notin {"new", "reserve"} /\ req[t] \notin {"new", "reserve"}
        /\ \A u \in Tasks \ {t} : req'[u] = req[u]
        /\ UNCHANGED <<status, run>>
        /\ futures' = futures \/ (futures' = futures \ {t} /\ run[t] = "over")
    BY <1>6 DEF AttachCallback, ReleaseSlot
  <2> QED
    BY <2>1, TableSame DEF InFlight
<1>7. CASE FailRequest(t)
  <2>1. Tracked' = Tracked
    BY <1>7 DEF FailRequest, Tracked, InFlight
  <2>2. status[t] = "pending" /\ status' = [status EXCEPT ![t] = "error"]
    BY <1>7 DEF FailRequest, Conclude
  <2>3. Shown[t] = "pending" /\ Shown' = [Shown EXCEPT ![t] = "error"]
    BY <1>7, <2>2 DEF FailRequest, Shown
  <2> QED
    BY <2>1, <2>3 DEF Table!Conclude, Table!Unfinished, Table!TaskStep, Table!TableNext, Terminal
<1>8. CASE UndoBatch(t) \/ UndoSlot(t)
  <2>1. /\ req'[t] \notin {"new", "reserve"} /\ req[t] \notin {"new", "reserve"}
        /\ \A u \in Tasks \ {t} : req'[u] = req[u]
        /\ UNCHANGED <<status, futures, run>>
    BY <1>8 DEF UndoBatch, UndoSlot
  <2> QED
    BY <2>1, TableSame DEF InFlight
<1> QED
  BY <1>1, <1>2, <1>3, <1>4, <1>5, <1>6, <1>7, <1>8 DEF RequestStep

\* The worker.
LEMMA WorkerRefines ==
    ASSUME PipelineInv, TakeTask \/ \E t \in Tasks : WorkerStep(t)
    PROVE  [Table!TableNext]_(Table!tableVars)
<1> USE DEF PipelineInv, TypeOK, RequestLabels, RunLabels, Staging, Submitted, Failing, InStep,
            ReqGoes, RunGoes, board, world, kbGate, sweeper, outcome
<1>1. CASE TakeTask
  <2>1. PICK t \in Tasks : /\ run[t] = "queued" /\ run' = [run EXCEPT ![t] = "files"]
                           /\ status' = [status EXCEPT ![t] = "processing"]
    <3>1. Head(queue) \in Tasks
      BY <1>1 DEF TakeTask
    <3> QED
      BY <1>1, <3>1 DEF TakeTask
  <2>2. UNCHANGED <<req, futures>> /\ status[t] = "pending"
    BY <1>1, <2>1 DEF TakeTask
  <2>3. Tracked' = Tracked
    BY <2>1, <2>2 DEF Tracked, InFlight
  <2>4. Shown[t] = "pending" /\ Shown' = [Shown EXCEPT ![t] = "processing"]
    BY <2>1, <2>2 DEF Shown
  <2> QED
    BY <2>3, <2>4 DEF Table!Start, Table!TaskStep, Table!TableNext
<1>2. ASSUME NEW t \in Tasks, NextFile(t) \/ CloseBatch(t) \/ RemoveStaging(t)
      PROVE  UNCHANGED Table!tableVars
  <2>1. /\ run[t] # "over" /\ run'[t] # "over" /\ \A u \in Tasks \ {t} : run'[u] = run[u]
        /\ UNCHANGED <<status, req, futures>>
    BY <1>2 DEF NextFile, CloseBatch, RemoveStaging
  <2> QED
    BY <2>1, TableSame DEF InFlight
<1>3. ASSUME NEW t \in Tasks, PublishResult(t)
      PROVE  Table!TableNext
  <2>1. /\ run[t] = "publish" /\ run' = [run EXCEPT ![t] = "settle"]
        /\ status' = [status EXCEPT ![t] = Verdict(t)]
        /\ UNCHANGED <<req, futures>>
    BY <1>3 DEF PublishResult, Conclude
  <2>2. Verdict(t) \in Terminal /\ status[t] = "processing"
    BY <2>1 DEF Verdict, Terminal
  <2>3. Tracked' = Tracked
    BY <2>1 DEF Tracked, InFlight
  <2>4. Shown[t] = "processing" /\ Shown' = [Shown EXCEPT ![t] = Verdict(t)]
    BY <2>1, <2>2 DEF Shown, Terminal
  <2> QED
    BY <2>2, <2>3, <2>4 DEF Table!Conclude, Table!Unfinished, Table!TaskStep, Table!TableNext
<1>4. ASSUME NEW t \in Tasks, Settle(t)
      PROVE  Table!TableNext
  <2>1. /\ run' = [run EXCEPT ![t] = "over"]
        /\ futures' \in {futures, futures \ {t}}
        /\ UNCHANGED <<status, req>>
    BY <1>4 DEF Settle, ReleaseSlot
  <2>2. Tracked' = Tracked \ {t} /\ Shown' = Shown
    BY <2>1 DEF Tracked, InFlight, Shown
  <2> QED
    BY <2>2 DEF Table!Untrack, Table!TableNext
<1> QED
  BY <1>1, <1>2, <1>3, <1>4 DEF WorkerStep

\* The table counts as the pipeline does.
LEMMA SameCount == \A S : Table!Cardinality(S) = Cardinality(S)
BY DEF Table!Cardinality, Cardinality

\* A poll trims what the table lets it trim.
LEMMA PollRefines ==
    ASSUME PipelineInv, NEW t \in Tasks, Poll(t)
    PROVE  Table!TableNext
<1> USE DEF PipelineInv, TypeOK
<1>1. PICK gone \in SUBSET Finished :
         /\ Evicts(t, gone)
         /\ status' = [u \in Tasks |-> IF u \in gone THEN "none" ELSE status[u]]
         /\ UNCHANGED <<req, run, futures>>
  BY DEF Poll
<1>2. Tracked' = Tracked
  BY <1>1 DEF Tracked, InFlight
<1>3. Table!Finished = Finished
  BY DEF Table!Finished, Finished, Shown, Terminal
<1>4. gone \subseteq Finished \ (Tracked \cup {t})
  BY <1>1 DEF Evicts, Evictable, Tracked
<1>5. Cardinality(Finished \ gone) >= KeepLast
  <2>1. IsFiniteSet(Finished) /\ IsFiniteSet(gone)
    BY UploadConstants, FS_Subset DEF Finished
  <2>2. /\ Cardinality(Finished) \in Nat /\ Cardinality(gone) \in Nat
        /\ Cardinality(gone) <= Cardinality(Finished) - KeepLast
    BY <1>1, <2>1, FS_CardinalityType DEF Evicts, Excess
  <2>3. Cardinality(Finished \ gone) = Cardinality(Finished) - Cardinality(Finished \cap gone)
    BY <2>1, FS_Difference
  <2>4. Finished \cap gone = gone
    OBVIOUS
  <2>5. Cardinality(Finished \ gone) = Cardinality(Finished) - Cardinality(gone)
    BY <2>3, <2>4
  <2> QED
    BY <2>2, <2>5, UploadConstants
<1>6. Shown' = Table!Trimmed(gone)
  <2>1. \A u \in gone : u \in Tasks /\ req[u] \notin {"new", "reserve"}
    BY DEF Finished, InStep, Terminal
  <2> QED
    BY <1>1, <2>1 DEF Shown, Table!Trimmed
<1>7. Table!Trims(t, gone)
  BY <1>3, <1>4, <1>5, SameCount DEF Table!Trims
<1> QED
  BY <1>2, <1>3, <1>6, <1>7 DEF Table!Trim, Table!TableNext

LEMMA RestartRefines ==
    ASSUME PipelineInv, Restart
    PROVE  Table!TableNext
<1>1. DEFINE waiting == {u \in Tasks : req[u] = "new"}
<1>2. waiting \subseteq {u \in Tasks : Shown[u] = "new"}
  BY DEF PipelineInv, InStep, Shown
<1>3. Shown' = [u \in Tasks |-> IF u \in waiting THEN "new" ELSE "gone"]
  BY DEF Restart, Shown
<1>4. Tracked' = {}
  BY DEF Restart, Tracked, InFlight
<1> QED
  BY <1>2, <1>3, <1>4 DEF Table!TableRestart, Table!TableNext

\* What clients poll is a TaskTable: verdicts stand, no poll drops a task that
\* runs, and history keeps its length (document_service.py:254-475, 560-706).
THEOREM Refinement == Spec => RefinesTaskTable
<1>1. PipelineInv /\ [Next]_vars => [Table!TableNext]_(Table!tableVars)
  <2> SUFFICES ASSUME PipelineInv, [Next]_vars
               PROVE  [Table!TableNext]_(Table!tableVars)
    OBVIOUS
  <2>1. CASE BeginDestructive \/ EndDestructive \/ Tick \/ UNCHANGED vars
    <3>1. UNCHANGED <<status, req, run, futures>>
      BY <2>1 DEF BeginDestructive, EndDestructive, Tick, board, vars
    <3> QED
      BY <3>1, TableSame DEF InFlight
  <2> QED
    BY <2>1, RequestRefines, WorkerRefines, PollRefines, RestartRefines DEF Next
<1> QED
  BY <1>1, TableStarts, Conservation, PTL DEF Spec, RefinesTaskTable, Table!TableSpec
=============================================================================
