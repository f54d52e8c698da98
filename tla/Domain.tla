------------------------------- MODULE Domain -------------------------------
(***************************************************************************)
(* The entities of go-tempo: internal/domain, the request DTO and the      *)
(* mapper that turns a request into rows.                                  *)
(*                                                                         *)
(* A task's random UUID is abstracted to <<execution, position>>: the      *)
(* program only ever compares ids, and the position in the request is what *)
(* fixes the order of the root pushes.  A row leaves out the columns no    *)
(* code reads back (worker_id, output, last_error, input, timestamps), and *)
(* keeps `dependencies' as a set: the only query on that JSON column is    *)
(* containment of one element.                                             *)
(***************************************************************************)
EXTENDS Integers, Sequences

CONSTANTS
  Execution,    \* the workflow executions that may be submitted
  Ref,          \* RefIDs a request may use
  Action,       \* action names a request may use
  Requests,     \* the requests a client may POST, as sequences of TaskDTO
  MaxRetries,   \* the max_retries column (default 3)
  NoTask        \* what a worker thread holds between two tasks

TaskStatus == {"PENDING", "QUEUED", "RUNNING", "COMPLETED", "FAILED", "SKIPPED"}

WorkflowStatus == {"RUNNING", "COMPLETED", "FAILED"}

TaskDTO == [refID: Ref, action: Action, dependencies: Seq(Ref)]

TaskID == Execution \X (Nat \ {0})

Task == [executionID: Execution, refID: Ref, action: Action,
         status: TaskStatus, retryCount: Nat, dependencies: SUBSET Ref,
         inDegree: Int, skipHint: BOOLEAN, version: Nat]

(* The binding tags of the DTO reject an empty list of tasks, nothing else: *)
(* a reference may dangle, repeat or be part of a cycle.                    *)
ASSUME RequestsAssumption == Requests \subseteq Seq(TaskDTO) \ {<<>>}

ASSUME MaxRetriesAssumption == MaxRetries \in Nat

ASSUME NoTaskAssumption == NoTask \notin TaskID

TaskCompletedEvent ==
  [executionID: Execution, taskID: TaskID, refID: Ref, type: {"completed"}]

TaskTerminatedEvent ==
  [executionID: Execution, taskID: TaskID, refID: Ref, type: {"failed", "skipped"}]

(* A dependency list counts repetitions, the set of dependencies does not. *)
ToTask(e, dto) ==
  LET degree == Len(dto.dependencies)
  IN  [executionID  |-> e,
       refID        |-> dto.refID,
       action       |-> dto.action,
       status       |-> IF degree = 0 THEN "QUEUED" ELSE "PENDING",
       retryCount   |-> 0,
       dependencies |-> {dto.dependencies[i] : i \in DOMAIN dto.dependencies},
       inDegree     |-> degree,
       skipHint     |-> FALSE,
       version      |-> 1]

(* The ids ToWorkflowExecution hands out for request req of execution e. *)
TaskIDs(e, req) == {<<e, i>> : i \in DOMAIN req}

ToTasks(e, req) == [t \in TaskIDs(e, req) |-> ToTask(e, req[t[2]])]

(* Mutants of CanRetry: one retry too many, one too few. *)
CanRetryOnceMore(retryCount) == retryCount <= MaxRetries

CanRetryOnceLess(retryCount) == retryCount + 1 < MaxRetries

CanRetry(retryCount) == retryCount < MaxRetries

Event(t, row, type) ==
  [executionID |-> row.executionID, taskID |-> t, refID |-> row.refID,
   type |-> type]
=============================================================================
