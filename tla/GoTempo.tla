------------------------------- MODULE GoTempo -------------------------------
(***************************************************************************)
(* The server of cmd/server/main.go: the submission service, the           *)
(* coordinator and the two worker pools in one process, sharing Postgres   *)
(* and Redis; the crash of that process; and what must hold of the whole.  *)
(***************************************************************************)
EXTENDS Worker, Coordinator, WorkflowService, FiniteSets

CONSTANT ColdStart   \* TRUE: from the start of main; FALSE: coordinator listening

ASSUME ColdStartAssumption == ColdStart \in BOOLEAN

vars == <<tasks, executions, queue, channel, subscription, faults,
          thread, coord, completionsTotal, submit>>

Init ==
  /\ faults = 0
  /\ TaskRepositoryInit /\ WorkflowRepositoryInit
  /\ RedisQueueInit /\ RedisEventBusInit(ColdStart)
  /\ WorkerInit /\ CoordinatorInit(ColdStart) /\ WorkflowServiceInit

WorkerAction(w) ==
  ProcessNextTask(w) /\ UNCHANGED <<coord, completionsTotal, submit>>

CoordinatorAction == CoordinatorStep /\ UNCHANGED <<thread, submit>>

ServiceAction(e) ==
  SubmitStep(e) /\ UNCHANGED <<busVars, thread, coord, completionsTotal>>

BusAction(ch) ==
  /\ Subscribed(ch) \/ Disconnect(ch)
  /\ UNCHANGED <<tasks, executions, queue, thread, coord, completionsTotal, submit>>

(* Postgres and the Redis lists survive; the subscribers, the threads and   *)
(* the requests in flight do not, and the metrics start again from zero.    *)
Crash ==
  /\ Fault("crash")
  /\ thread' = [w \in Thread |-> Idle]
  /\ coord' = Listening(TRUE) /\ completionsTotal' = NoOutcome
  /\ channel' = NoMessages /\ subscription' = Subscriptions(TRUE)
  /\ submit' = [e \in Execution |-> IF submit[e].pc = "push"
                                    THEN Submitted("error", {}) ELSE submit[e]]
  /\ UNCHANGED <<tasks, executions, queue>>

Next ==
  \/ \E w \in Thread : WorkerAction(w)
  \/ CoordinatorAction
  \/ \E e \in Execution : ServiceAction(e)
  \/ \E ch \in ChannelName : BusAction(ch)
  \/ Crash

Spec == Init /\ [][Next]_vars

(* Every goroutine is scheduled, every started request is carried on, and   *)
(* Redis answers a SUBSCRIBE; nobody has to submit a workflow.              *)
Fairness ==
  /\ \A w \in Thread : WF_vars(WorkerAction(w))
  /\ WF_vars(CoordinatorAction)
  /\ \A e \in Execution : WF_vars(submit[e].pc = "push" /\ ServiceAction(e))
  /\ \A ch \in ChannelName :
       WF_vars(subscription[ch] = "pending" /\ BusAction(ch))

FairSpec == Spec /\ Fairness

-----------------------------------------------------------------------------
(* Every variable holds what the program can put there. *)
TypeOK ==
  /\ faults \in 0..MaxFaults
  /\ TaskRepositoryTypeOK /\ WorkflowRepositoryTypeOK
  /\ RedisQueueTypeOK(DOMAIN tasks) /\ RedisEventBusTypeOK
  /\ WorkerTypeOK /\ CoordinatorTypeOK /\ WorkflowServiceTypeOK

-----------------------------------------------------------------------------
(* Where a task can be between its insertion and the end of its last run.   *)
Queued(t) == \E q \in QueueName : InQueue(q, t)

HeldByThread(t) == \E w \in Thread : Holds(w, t)

AwaitsSubmit(t) == \E e \in Execution : t \in submit[e].roots

UniqueInQueues ==
  \A q, r \in QueueName :
    \A i \in DOMAIN queue[q], j \in DOMAIN queue[r] :
      queue[q][i] = queue[r][j] => q = r /\ i = j

UniqueInThreads ==
  \A w, v \in Thread : \A t \in DOMAIN tasks : Holds(w, t) /\ Holds(v, t) => w = v

Nowhere(t) ==
  ~Queued(t) /\ ~HeldByThread(t) /\ t \notin coord.ready /\ ~AwaitsSubmit(t)

InOnePlace(t) ==
  /\ Queued(t) => ~HeldByThread(t) /\ t \notin coord.ready /\ ~AwaitsSubmit(t)
  /\ HeldByThread(t) => t \notin coord.ready /\ ~AwaitsSubmit(t)
  /\ t \in coord.ready => ~AwaitsSubmit(t)

(* A task is delivered by one hand at a time: it is in one list once, or    *)
(* with one thread, or about to be pushed by the coordinator or by the      *)
(* service.  ClaimTask does not look at the status, so this and nothing     *)
(* else keeps two threads from running the same task; it has to survive     *)
(* crashes, lost replies and duplicated events.                             *)
SingleDelivery ==
  /\ UniqueInQueues
  /\ UniqueInThreads
  /\ \A t \in DOMAIN tasks : InOnePlace(t)

(* No task is on its way to a worker, or with one, before its in-degree has *)
(* dropped to zero: the coordinator's reads and pushes race with workers    *)
(* and with new submissions.                                                *)
DeliveredOnlyWhenReady ==
  \A t \in DOMAIN tasks : tasks[t].inDegree > 0 => Nowhere(t)

(* version and retry_count never drift apart: every attempt is one claim,   *)
(* every retry one increment, whoever crashes or errs in between.           *)
VersionCountsAttempts ==
  \A t \in DOMAIN tasks :
    tasks[t].version = 2 * tasks[t].retryCount
                     + (IF tasks[t].status \in {"RUNNING", "COMPLETED", "FAILED"}
                        THEN 2 ELSE 1)

-----------------------------------------------------------------------------
Terminal == {"COMPLETED", "FAILED", "SKIPPED"}

TasksOf(e) == {t \in DOMAIN tasks : tasks[t].executionID = e}

Parents(t) ==
  {d \in TasksOf(tasks[t].executionID) : tasks[d].refID \in tasks[t].dependencies}

(* The coordinator has yet to learn that d ended. *)
EventPending(d) ==
  \/ tasks[d].status \notin Terminal
  \/ HeldByThread(d)
  \/ \E ch \in ChannelName : \E i \in DOMAIN channel[ch] : channel[ch][i].taskID = d
  \/ coord.pc = "decrement" /\ coord.event.taskID = d

PendingParents(t) == {d \in Parents(t) : EventPending(d)}

(* in_degree is exactly the number of parents whose end the coordinator has *)
(* not handled, at every point of the pipeline row - event - decrement.     *)
InDegreeExact ==
  \A t \in DOMAIN tasks : tasks[t].inDegree = Cardinality(PendingParents(t))

(* With events lost in crashes and disconnections in_degree may stay too    *)
(* high, and the task waits forever; it is never too low.                   *)
InDegreeNeverTooLow ==
  \A t \in DOMAIN tasks : tasks[t].inDegree >= Cardinality(PendingParents(t))

(* skip_hint is set exactly when a parent's failure or skip was handled,    *)
(* in whatever order the completions of the other parents arrive.           *)
SkipHintExact ==
  \A t \in DOMAIN tasks :
    tasks[t].skipHint <=>
      \E d \in Parents(t) \ PendingParents(t) : tasks[d].status \in {"FAILED", "SKIPPED"}

(* Nothing is skipped, or about to be, unless a parent failed or was.       *)
SkipIsJustified ==
  \A t \in DOMAIN tasks :
    tasks[t].skipHint \/ tasks[t].status = "SKIPPED" =>
      \E d \in Parents(t) : tasks[d].status \in {"FAILED", "SKIPPED"}

(* A task that was ever claimed has only completed parents (Kahn's          *)
(* algorithm, with workers and coordinator racing).                         *)
RunsAfterDependencies ==
  \A t \in DOMAIN tasks :
    tasks[t].version > 1 => \A d \in Parents(t) : tasks[d].status = "COMPLETED"

(* A task with a registered action fails for good only after all retries.   *)
FailsOnlyAfterAllRetries ==
  \A t \in DOMAIN tasks :
    /\ tasks[t].retryCount <= MaxRetries
    /\ tasks[t].status = "FAILED" => tasks[t].retryCount = MaxRetries

(* retry_count stays within the budget although CanRetry reads a snapshot.  *)
RetryBudget == \A t \in DOMAIN tasks : tasks[t].retryCount <= MaxRetries

Claimant(w, t) ==
  Holds(w, t) /\ thread[w].pc \notin {"find", "skip", "publishSkipped", "claim",
                                      "pushRetry"}

(* Two threads that run the same task hold different versions of it: of any *)
(* number of competing claims of one version, one succeeds.                 *)
ClaimsExclusivePerVersion ==
  \A t \in DOMAIN tasks : \A w, v \in Thread :
    w # v /\ Claimant(w, t) /\ Claimant(v, t) =>
      thread[w].version # thread[v].version

(* A thread that finds its claim conflicting lost to another thread; when   *)
(* deliveries are single that cannot happen.                                *)
ClaimsNeverConflict ==
  \A w \in Thread :
    At(w, "claim") => tasks[thread[w].task].version = thread[w].version

-----------------------------------------------------------------------------
EveryTaskIs(status, e) == \A t \in TasksOf(e) : tasks[t].status = status

(* A COMPLETED execution has only COMPLETED tasks: the check and the update *)
(* are two statements, with workers running in between.                     *)
CompletedMeansAllCompleted ==
  \A e \in Execution : executions[e] = "COMPLETED" => EveryTaskIs("COMPLETED", e)

(* An execution is FAILED exactly when one of its own tasks is, but for the *)
(* thread that has marked the task and not yet the execution.               *)
WorkflowFailsWithItsTasks ==
  \A e \in Execution :
    executions[e] = "FAILED" <=>
      \E t \in TasksOf(e) :
        /\ tasks[t].status = "FAILED"
        /\ \A w \in Thread : Holds(w, t) => ~At(w, "failWorkflow")

(* The outcome of an execution is never revised. *)
OutcomeIsFinal ==
  [][\A e \in Execution :
       executions[e] \in {"COMPLETED", "FAILED"} => executions'[e] = executions[e]]_executions

(* A task that ended is never run, retried, skipped or queued again.        *)
TerminalIsFinal ==
  [][\A t \in DOMAIN tasks :
       tasks[t].status \in Terminal =>
         /\ tasks'[t].status = tasks[t].status
         /\ tasks'[t].version = tasks[t].version]_tasks

Quiescent ==
  /\ \A w \in Thread : At(w, "pop")
  /\ \A q \in QueueName : queue[q] = <<>>
  /\ \A ch \in ChannelName : channel[ch] = <<>>
  /\ coord.pc = "select"
  /\ \A e \in Execution : submit[e].pc # "push"

(* When nobody has anything left to do, every execution has its outcome and *)
(* every task has ended: no task or event was forgotten on the way.         *)
QuiescentMeansDone ==
  Quiescent =>
    \A e \in Execution : executions[e] # "absent" =>
      /\ \A t \in TasksOf(e) : tasks[t].status \in Terminal
      /\ executions[e] = IF EveryTaskIs("COMPLETED", e) THEN "COMPLETED" ELSE "FAILED"

Unfinished(e) ==
  \/ executions[e] = "RUNNING"
  \/ \E t \in TasksOf(e) : tasks[t].status \notin Terminal

(* A lost push, pop or event strands the workflow it belongs to and no      *)
(* other: whatever else goes on, the rest is carried to its end.            *)
OneFaultStrandsOneWorkflow ==
  Quiescent => Cardinality({e \in Execution : Unfinished(e)}) <= faults

-----------------------------------------------------------------------------
(* Every workflow whose submission succeeded gets its outcome. *)
EveryWorkflowFinishes ==
  \A e \in Execution :
    submit[e].pc = "created" ~> executions[e] \in {"COMPLETED", "FAILED"}

(* A failure does not leave the rest of the workflow hanging: every task of *)
(* a submitted execution ends, completed, failed or skipped.                *)
EveryTaskEnds ==
  \A e \in Execution :
    submit[e].pc = "created" ~> \A t \in TasksOf(e) : tasks[t].status \in Terminal

-----------------------------------------------------------------------------
(* What the documentation says and the code does not do.                    *)

(* README.md:11 "Optimistic Locking: Prevents duplicate task execution": no *)
(* two threads execute the same task at the same time.                      *)
NoDuplicateExecution ==
  \A w, v \in Thread :
    At(w, "execute") /\ At(v, "execute") /\ w # v => thread[w].task # thread[v].task

(* workflow_repository_impl.go:53-57, coordinator.go:128-129: a workflow is *)
(* reported completed once, however many terminal tasks complete together.  *)
CompletionReportedOnce ==
  completionsTotal.completed <=
    Cardinality({e \in Execution : executions[e] = "COMPLETED"})

(* metrics.go:153: the counter of outcomes counts a failed workflow once.   *)
FailureReportedOnce ==
  completionsTotal.failed <=
    Cardinality({e \in Execution : executions[e] = "FAILED"})

(* events.go:21: a termination event is about a task that failed or was     *)
(* skipped, so it must not be out while the task is being retried.          *)
TerminatedMeansEnded ==
  \A i \in DOMAIN channel["terminated"] :
    tasks[channel["terminated"][i].taskID].status \in {"FAILED", "SKIPPED"}
=============================================================================
