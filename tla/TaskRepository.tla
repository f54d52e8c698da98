--------------------------- MODULE TaskRepository ---------------------------
(***************************************************************************)
(* The tasks table and the statements of task_repository_impl.go.  Each    *)
(* statement is one atomic step of Postgres; `ok' is whether the method    *)
(* returns a nil error.                                                    *)
(***************************************************************************)
EXTENDS Domain, Faults

VARIABLE tasks    \* the table: a function from the ids of the rows to the rows

(* A statement that takes the table to `table'. *)
Write(table, ok) ==
  \/ ok /\ tasks' = table /\ NoFault
  \/ ~ok /\ tasks' \in {tasks, table} /\ Fault("db")

(* A read that fails: the caller returns early. *)
ReadError == Fault("db") /\ UNCHANGED tasks

-----------------------------------------------------------------------------
(* Mutant of RowMatches: the UPDATE is keyed by the id alone. *)
RowMatchesAnyVersion(t, version) == t \in DOMAIN tasks

(* The optimistic lock: WHERE id = ? AND version = ?. *)
RowMatches(t, version) == tasks[t].version = version

(* Mutant of Claimed: the claim leaves the version as it was. *)
ClaimedSameVersion(t, version) == [tasks EXCEPT ![t].status = "RUNNING"]

Claimed(t, version) ==
  [tasks EXCEPT ![t].status = "RUNNING", ![t].version = version + 1]

(* No row affected is an error too, and changes nothing. *)
ClaimTask(t, version, ok) ==
  \/ RowMatches(t, version) /\ Write(Claimed(t, version), ok)
  \/ ~RowMatches(t, version) /\ ~ok /\ UNCHANGED tasks /\ NoFault

(* Mutant of Retried: a status outside the enumeration of task.go. *)
RetriedOddStatus(t, version) ==
  [tasks EXCEPT ![t].retryCount = @ + 1, ![t].status = "RETRYING",
                ![t].version = version + 1]

Retried(t, version) ==
  [tasks EXCEPT ![t].retryCount = @ + 1, ![t].status = "PENDING",
                ![t].version = version + 1]

IncrementRetryCount(t, version, ok) ==
  \/ RowMatches(t, version) /\ Write(Retried(t, version), ok)
  \/ ~RowMatches(t, version) /\ ~ok /\ UNCHANGED tasks /\ NoFault

Marked(t, status) == [tasks EXCEPT ![t].status = status]

MarkCompleted(t, ok) == Write(Marked(t, "COMPLETED"), ok)

MarkFailed(t, ok) == Write(Marked(t, "FAILED"), ok)

MarkSkipped(t, ok) == Write(Marked(t, "SKIPPED"), ok)

-----------------------------------------------------------------------------
(* Mutant of Children: the WHERE clause forgets the execution. *)
ChildrenOfAnyExecution(e, ref) ==
  {t \in DOMAIN tasks : ref \in tasks[t].dependencies}

Children(e, ref) ==
  {t \in DOMAIN tasks : tasks[t].executionID = e /\ ref \in tasks[t].dependencies}

(* Mutants of DecrementedRow: a completed parent clears the hint; every     *)
(* parent sets it.                                                          *)
DecrementedRowClearsHint(row, skip) ==
  [row EXCEPT !.inDegree = @ - 1,
              !.skipHint = skip,
              !.status   = IF row.inDegree - 1 = 0 THEN "QUEUED" ELSE @]

DecrementedRowAlwaysHints(row, skip) ==
  [row EXCEPT !.inDegree = @ - 1,
              !.skipHint = TRUE,
              !.status   = IF row.inDegree - 1 = 0 THEN "QUEUED" ELSE @]

DecrementedRow(row, skip) ==
  [row EXCEPT !.inDegree = @ - 1,
              !.skipHint = @ \/ skip,
              !.status   = IF row.inDegree - 1 = 0 THEN "QUEUED" ELSE @]

Decremented(e, ref, skip) ==
  [t \in DOMAIN tasks |-> IF t \in Children(e, ref)
                          THEN DecrementedRow(tasks[t], skip)
                          ELSE tasks[t]]

(* Mutants of ReadyTasks: every updated row is ready; in_degree is compared *)
(* before the decrement instead of after it.                                *)
ReadyTasksUnfiltered(e, ref) == Children(e, ref)

ReadyTasksStale(e, ref) == {t \in Children(e, ref) : tasks[t].inDegree = 0}

(* The rows of RETURNING whose in_degree has reached zero. *)
ReadyTasks(e, ref) ==
  {t \in Children(e, ref) : DecrementedRow(tasks[t], FALSE).inDegree = 0}

(* DecrementAndGetReadyTasks (skip = FALSE) and DecrementAndSetSkipHint     *)
(* (skip = TRUE).  A connection that breaks while the rows are read ends    *)
(* the loop early: rows.Err() is not consulted, and the caller gets some of *)
(* the ready tasks and a nil error.  (Postgres sends a result that fits its *)
(* output buffer after the commit, so whoever reads rows has the update.)   *)
DecrementInDegree(e, ref, skip, ready, ok) ==
  \/ ready = ReadyTasks(e, ref) /\ Write(Decremented(e, ref, skip), ok)
  \/ /\ ok
     /\ ready \in (SUBSET ReadyTasks(e, ref)) \ {ReadyTasks(e, ref)}
     /\ tasks' = Decremented(e, ref, skip)
     /\ Fault("db")

(* Mutant of AllTasksCompleted: counts the running tasks only. *)
NoTaskRunning(e) ==
  \A t \in DOMAIN tasks :
    tasks[t].executionID = e => tasks[t].status # "RUNNING"

AllTasksCompleted(e) ==
  \A t \in DOMAIN tasks :
    tasks[t].executionID = e => tasks[t].status = "COMPLETED"

-----------------------------------------------------------------------------
Inserted(e, req) ==
  [t \in DOMAIN tasks \cup TaskIDs(e, req) |->
     IF t \in TaskIDs(e, req) THEN ToTasks(e, req)[t] ELSE tasks[t]]

TaskRepositoryTypeOK ==
  /\ DOMAIN tasks \subseteq TaskID
  /\ tasks \in [DOMAIN tasks -> Task]

TaskRepositoryInit == tasks = [t \in {} |-> NoTask]
=============================================================================
