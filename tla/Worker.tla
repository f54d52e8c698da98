------------------------------- MODULE Worker -------------------------------
(***************************************************************************)
(* The two worker pools of worker.go.  Every thread runs ProcessNextTask   *)
(* in a loop; thread[w].pc is the call the thread makes next, one per call *)
(* to Postgres or Redis, so that threads interleave between any two.       *)
(* What a thread keeps of the row it fetched is the snapshot the code      *)
(* uses later: the version and the retry count.                            *)
(***************************************************************************)
EXTENDS TaskRepository, WorkflowRepository, RedisQueue, RedisEventBus

CONSTANTS
  MainThread,    \* the pool that pops the main queue
  RetryThread,   \* the pool that pops the retry queue
  Registry       \* registered action -> what its handler may return

ASSUME RegistryAssumption ==
  /\ DOMAIN Registry \subseteq Action
  /\ \A a \in DOMAIN Registry : Registry[a] \in SUBSET {"success", "error"}

ASSUME ThreadAssumption == MainThread \cap RetryThread = {}

VARIABLE thread

Thread == MainThread \cup RetryThread

ThreadPC == {"pop", "find", "skip", "publishSkipped", "claim", "execute",
             "publishUnknown", "failUnknown", "retry", "pushRetry",
             "markFailed", "failWorkflow", "publishFailed",
             "markCompleted", "publishCompleted"}

Idle == [pc |-> "pop", task |-> NoTask, version |-> 0, retryCount |-> 0]

Holds(w, t) == thread[w].pc # "pop" /\ thread[w].task = t

Become(w, th) == thread' = [thread EXCEPT ![w] = th]

Goto(w, pc) == thread' = [thread EXCEPT ![w].pc = pc]

Return(w) == Become(w, Idle)

At(w, pc) == thread[w].pc = pc

Row(w) == tasks[thread[w].task]

-----------------------------------------------------------------------------
(* popAndFetchTask *)
SourceQueue(w) == IF w \in RetryThread THEN "retry" ELSE "main"

PopTask(w) ==
  /\ At(w, "pop")
  /\ \E t \in DOMAIN tasks :
       \/ Pop(SourceQueue(w), t, TRUE) /\ Become(w, [Idle EXCEPT !.pc = "find", !.task = t])
       \/ Pop(SourceQueue(w), t, FALSE) /\ Return(w)
  /\ UNCHANGED <<tasks, executions, busVars>>

(* The snapshot of the row, and what ProcessNextTask does with SkipHint. *)
Fetched(t) ==
  [pc |-> IF tasks[t].skipHint THEN "skip" ELSE "claim",
   task |-> t, version |-> tasks[t].version, retryCount |-> tasks[t].retryCount]

FindTask(w) ==
  /\ At(w, "find")
  /\ \/ Become(w, Fetched(thread[w].task)) /\ NoFault /\ UNCHANGED tasks
     \/ Return(w) /\ ReadError
  /\ UNCHANGED <<executions, queue, busVars>>

-----------------------------------------------------------------------------
(* handleSkippedTask: no event when the row could not be marked. *)
SkipTask(w) ==
  /\ At(w, "skip")
  /\ \/ MarkSkipped(thread[w].task, TRUE) /\ Goto(w, "publishSkipped")
     \/ MarkSkipped(thread[w].task, FALSE) /\ Return(w)
  /\ UNCHANGED <<executions, queue, busVars>>

PublishSkipped(w) ==
  /\ At(w, "publishSkipped")
  /\ PublishTaskTerminated(thread[w].task, Row(w), "skipped")
  /\ Return(w)
  /\ UNCHANGED <<tasks, executions, queue>>

-----------------------------------------------------------------------------
(* claimTask: the snapshot's version follows the row's. *)
AfterClaim(th) == [th EXCEPT !.pc = "execute", !.version = @ + 1]

Claim(w) ==
  /\ At(w, "claim")
  /\ \/ /\ ClaimTask(thread[w].task, thread[w].version, TRUE)
        /\ Become(w, AfterClaim(thread[w]))
     \/ ClaimTask(thread[w].task, thread[w].version, FALSE) /\ Return(w)
  /\ UNCHANGED <<executions, queue, busVars>>

(* Mutants of FailurePC: the permanent failure forgets MarkFailed; it       *)
(* publishes and nothing else.                                              *)
FailurePCUnmarked(th) == IF CanRetry(th.retryCount) THEN "retry" ELSE "failWorkflow"

FailurePCPublishOnly(th) == IF CanRetry(th.retryCount) THEN "retry" ELSE "publishFailed"

(* handleTaskFailure decides on the retry count of the snapshot. *)
FailurePC(th) == IF CanRetry(th.retryCount) THEN "retry" ELSE "markFailed"

(* executeTaskAction with a registered handler. *)
ExecuteHandler(w) ==
  /\ At(w, "execute")
  /\ Row(w).action \in DOMAIN Registry
  /\ \/ "success" \in Registry[Row(w).action] /\ Goto(w, "markCompleted")
     \/ "error" \in Registry[Row(w).action] /\ Goto(w, FailurePC(thread[w]))
  /\ NoFault
  /\ UNCHANGED <<tasks, executions, queue, busVars>>

(* executeTaskAction with an unknown action fails the task and the          *)
(* execution, and then returns an error like a handler would.               *)
MarkUnknown(w) ==
  /\ At(w, "execute")
  /\ Row(w).action \notin DOMAIN Registry
  /\ \E ok \in BOOLEAN : MarkFailed(thread[w].task, ok)
  /\ Goto(w, "publishUnknown")
  /\ UNCHANGED <<executions, queue, busVars>>

PublishUnknown(w) ==
  /\ At(w, "publishUnknown")
  /\ PublishTaskTerminated(thread[w].task, Row(w), "failed")
  /\ Goto(w, "failUnknown")
  /\ UNCHANGED <<tasks, executions, queue>>

FailUnknown(w) ==
  /\ At(w, "failUnknown")
  /\ \E ok \in BOOLEAN : UpdateStatus(Row(w).executionID, "FAILED", ok)
  /\ Goto(w, FailurePC(thread[w]))
  /\ UNCHANGED <<tasks, queue, busVars>>

-----------------------------------------------------------------------------
(* retryTask *)
Retry(w) ==
  /\ At(w, "retry")
  /\ \/ /\ IncrementRetryCount(thread[w].task, thread[w].version, TRUE)
        /\ Goto(w, "pushRetry")
     \/ /\ IncrementRetryCount(thread[w].task, thread[w].version, FALSE)
        /\ Return(w)
  /\ UNCHANGED <<executions, queue, busVars>>

PushRetry(w) ==
  /\ At(w, "pushRetry")
  /\ \E ok \in BOOLEAN : Push("retry", thread[w].task, ok)
  /\ Return(w)
  /\ UNCHANGED <<tasks, executions, busVars>>

-----------------------------------------------------------------------------
(* markTaskFailedPermanently *)
FailTask(w) ==
  /\ At(w, "markFailed")
  /\ \E ok \in BOOLEAN : MarkFailed(thread[w].task, ok)
  /\ Goto(w, "failWorkflow")
  /\ UNCHANGED <<executions, queue, busVars>>

FailWorkflow(w) ==
  /\ At(w, "failWorkflow")
  /\ \E ok \in BOOLEAN : UpdateStatus(Row(w).executionID, "FAILED", ok)
  /\ Goto(w, "publishFailed")
  /\ UNCHANGED <<tasks, queue, busVars>>

PublishFailed(w) ==
  /\ At(w, "publishFailed")
  /\ PublishTaskTerminated(thread[w].task, Row(w), "failed")
  /\ Return(w)
  /\ UNCHANGED <<tasks, executions, queue>>

-----------------------------------------------------------------------------
(* handleTaskSuccess: the event is published whatever MarkCompleted says. *)
CompleteTask(w) ==
  /\ At(w, "markCompleted")
  /\ \E ok \in BOOLEAN : MarkCompleted(thread[w].task, ok)
  /\ Goto(w, "publishCompleted")
  /\ UNCHANGED <<executions, queue, busVars>>

PublishCompleted(w) ==
  /\ At(w, "publishCompleted")
  /\ PublishTaskCompleted(thread[w].task, Row(w))
  /\ Return(w)
  /\ UNCHANGED <<tasks, executions, queue>>

-----------------------------------------------------------------------------
ProcessNextTask(w) ==
  \/ PopTask(w) \/ FindTask(w)
  \/ SkipTask(w) \/ PublishSkipped(w)
  \/ Claim(w) \/ ExecuteHandler(w)
  \/ MarkUnknown(w) \/ PublishUnknown(w) \/ FailUnknown(w)
  \/ Retry(w) \/ PushRetry(w)
  \/ FailTask(w) \/ FailWorkflow(w) \/ PublishFailed(w)
  \/ CompleteTask(w) \/ PublishCompleted(w)

WorkerTypeOK ==
  /\ thread \in [Thread -> [pc: ThreadPC, task: TaskID \cup {NoTask},
                            version: Nat, retryCount: Nat]]
  /\ \A w \in Thread : thread[w].pc # "pop" => thread[w].task \in DOMAIN tasks

WorkerInit == thread = [w \in Thread |-> Idle]
=============================================================================
