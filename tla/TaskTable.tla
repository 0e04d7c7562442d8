------------------------------ MODULE TaskTable ------------------------------
(***************************************************************************)
(* What the upload pipeline promises the clients that poll it: the life of *)
(* a task in _UPLOAD_TASKS (services/document_service.py) as GET           *)
(* /tasks/{id} shows it (backend/api/upload.py).  UploadPipeline           *)
(* implements it; TaskWatch, the browser, is built on it.                  *)
(***************************************************************************)
EXTENDS FiniteSets, Naturals

CONSTANTS Tasks,      \* task ids, finitely many
          Verdicts,   \* the terminal statuses
          KeepLast    \* _TASK_HISTORY_LIMIT

VARIABLES
    status,   \* status[t]: "new" before its upload, "gone" once no entry is left
    tracked   \* the tasks whose future has not ended

tableVars == <<status, tracked>>

Unfinished == {"pending", "processing"}
Statuses == {"new", "gone"} \cup Unfinished \cup Verdicts

TableInit ==
    /\ status = [t \in Tasks |-> "new"]
    /\ tracked = {}

\* process_uploads: the task is registered, or the queue is full.
Register(t) ==
    /\ status[t] = "new"
    /\ status' = [status EXCEPT ![t] = "pending"]
    /\ UNCHANGED tracked

Refuse(t) ==
    /\ status[t] = "new"
    /\ status' = [status EXCEPT ![t] = "gone"]
    /\ UNCHANGED tracked

\* _upload_worker begins.
Start(t) ==
    /\ status[t] = "pending"
    /\ status' = [status EXCEPT ![t] = "processing"]
    /\ UNCHANGED tracked

\* The worker publishes its result, or submitting the task failed.
Conclude(t) ==
    /\ status[t] \in Unfinished
    /\ \E verdict \in Verdicts : status' = [status EXCEPT ![t] = verdict]
    /\ UNCHANGED tracked

\* The future is recorded, and ends.
Track(t) ==
    /\ status[t] # "new"
    /\ tracked' = tracked \cup {t}
    /\ UNCHANGED status

Untrack(t) ==
    /\ tracked' = tracked \ {t}
    /\ UNCHANGED status

Finished == {t \in Tasks : status[t] \in Verdicts}

\* What a poll of t may take from the history: finished tasks whose future has
\* ended, never t, and never so many that fewer than KeepLast stay.
Trims(t, gone) ==
    /\ gone \subseteq Finished \ (tracked \cup {t})
    /\ gone # {} => Cardinality(Finished \ gone) >= KeepLast

Trimmed(gone) == [u \in Tasks |-> IF u \in gone THEN "gone" ELSE status[u]]

\* The poll of t as far as the table goes.
Trim(t) ==
    /\ \E gone \in SUBSET Finished : Trims(t, gone) /\ status' = Trimmed(gone)
    /\ UNCHANGED tracked

\* The process restarts: the table is in memory, and uploads that were about to
\* be registered are lost with it.
TableRestart ==
    /\ \E waiting \in SUBSET {t \in Tasks : status[t] = "new"} :
          status' = [t \in Tasks |-> IF t \in waiting THEN "new" ELSE "gone"]
    /\ tracked' = {}

TaskStep(t) == Start(t) \/ Conclude(t)

TableNext ==
    \/ \E t \in Tasks : \/ Register(t) \/ Refuse(t) \/ TaskStep(t)
                        \/ Track(t) \/ Untrack(t) \/ Trim(t)
    \/ TableRestart

TableSpec == TableInit /\ [][TableNext]_tableVars
=============================================================================
