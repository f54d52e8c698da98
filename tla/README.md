# go-tempo in TLA+

A TLA+ model of the go-tempo server (submission service, coordinator, worker
pools, Postgres and Redis as the code uses them), TLC runs over it, and TLAPS
proofs about it. Paths below are relative to the root of the repository.

## 1. The system

A client POSTs a workflow: a list of tasks with RefIDs, actions and
dependencies. The server stores it, runs every task after its dependencies,
retries failing tasks, and skips what depends on a failed one.

| Component | Code | State it keeps | Operations |
|---|---|---|---|
| Domain and mapper | `internal/domain`, `internal/mapper`, `internal/api/dto` | none | request to rows, `CanRetry`, events |
| Task repository | `internal/core/postgres/repository/task_repository_impl.go` | table `tasks` | create, find, claim, mark completed / failed / skipped, increment retry count, decrement in-degrees, count what is not completed |
| Workflow repository | `.../workflow_repository_impl.go` | table `workflow_executions` | `UpdateStatus` |
| Task queues | `internal/infrastructure/redis/queue.go` | lists `workflow:queue:pending`, `workflow:queue:retry` | `Push` (RPUSH), `Pop` (BLPOP) |
| Event bus | `internal/infrastructure/redis/event_bus.go` | subscriptions and messages of two Pub/Sub channels | publish, subscribe, forward |
| Worker pools | `internal/worker/worker.go` | per thread: the task row it fetched | `ProcessNextTask` in a loop; 9 threads on the main list, 1 on the retry list |
| Coordinator | `internal/coordinator/coordinator.go` | the event in hand, the ready ids still to push | Kahn's algorithm driven by events |
| Workflow service | `internal/service/workflow_service.go` | per request: the roots still to push | `SubmitWorkflow` |
| Server process | `cmd/server/main.go` | all of the above in one process | start-up; death and restart |
| Action registry | `internal/worker/registry.go` | none | which actions have a handler; success or error |
| HTTP handler, middleware | `internal/api/handler`, `internal/api/middleware` | none | bind the body, call the service, answer, count |
| Metrics | `internal/metrics` and its calls everywhere | the Prometheus series | increments; collectors that sample |
| Client construction, deployment | `internal/infrastructure/redis/client.go`, compose, dashboards, alerts | none | configuration |

How they interact:

1. The service inserts the execution and its tasks in one transaction, then
   pushes the ids of the roots to the main list.
2. A worker thread pops an id, reads the row, and by the row's `skip_hint`
   either marks it SKIPPED and publishes a termination, or claims it
   (`WHERE id = ? AND version = ?`) and runs its handler. Success: mark
   COMPLETED, publish a completion. Error: increment the retry count and push to
   the retry list, or mark FAILED, fail the execution, publish a termination.
3. The coordinator takes events from both channels, one at a time. It
   decrements the in-degree of the children in one statement (setting their
   `skip_hint` for a termination) and pushes those that reached zero to the main
   list. If a completion made nothing ready it checks whether the execution is
   complete.

Postgres and the Redis lists survive a crash of the server; Pub/Sub messages,
subscriptions and everything in memory do not.

### What is hard, and what makes each part correct

- **Who has the task.** `ClaimTask` does not look at the status, so a thread
  that fetches a RUNNING row may claim it again. That a task runs once at a time
  rests on every task being in *one place*: one list, once, or one thread, or the
  coordinator's ready ids, or the service's roots. Service, coordinator, retry
  push, BLPOP, lost replies and crashes all have to respect that.
- **In-degrees.** They are decremented by events that arrive on two channels in
  any order, while workers go on; exactly one decrement may see zero.
- **Completion.** The check runs only for events that unblocked nothing, in two
  statements, concurrently with workers that may fail the execution.
- **Snapshots.** Version, retry count and skip hint are read when the task is
  fetched and used several calls later.
- **Failures.** PUBLISH is at most once and its errors are dropped; RPUSH and
  BLPOP may fail after taking effect; go-redis re-sends commands whose reply it
  lost; a failed UPDATE may have been executed; several errors are ignored.
- **Inputs.** The binding accepts repeated and dangling references, repeated
  RefIDs, cycles and unknown actions.
- **Isolation.** Executions share the lists, the threads and the coordinator and
  often their RefIDs; what one of them loses must not stop another.
- **What is reported.** Every thread, the coordinator and the HTTP handler count
  on their own, before or after the call they count, from snapshots.

`PROJECT.json` lists these under "hazards", each at its line, with the
properties that would catch it going wrong.

## 2. The modules

| Module | Models | State |
|---|---|---|
| `Domain` | entities, request, mapper | constants only |
| `Faults` | what may go wrong outside | `faults`: how many faults so far |
| `TaskRepository` | the `tasks` table and its statements | `tasks` |
| `WorkflowRepository` | the executions' statuses | `executions` |
| `RedisQueue` | the two lists | `queue` |
| `RedisEventBus` | the two channels | `channel`, `subscription` |
| `Worker` | both pools | `thread` |
| `Coordinator` | the coordinator goroutine | `coord`, `completionsTotal` |
| `WorkflowService` | one goroutine per submission | `submit` |
| `GoTempo` | the composition, the crash, the safety and liveness properties | |
| `ActionRegistry` | the table of handlers | constants only |
| `TaskLifecycle` | abstract: what becomes of one task | `task` |
| `DagExecution` | abstract: what a submitted DAG is promised | `task`, `dag`, `workflow` |
| `GoTempoRefinement` | the refinement mappings from `GoTempo` to both | |
| `Metrics` | the Prometheus series over `GoTempo` | `metrics`, `readyTaskIDs` |
| `MCGoTempo`, `MCMetrics` | the requests, the registry and the symmetry of the TLC runs | |
| `GoTempoProofs` | types and deliveries | |
| `LockProofs` | what the optimistic lock gives under any fault | |
| `LifecycleProofs` | the life of a task, `TaskLifecycle` implemented | |
| `OutcomeProofs` | the outcomes of executions, and what an event says about its task | |
| `DagProofs` | in-degrees and skip hints, `DagExecution` implemented | |
| `ExactProofs` | what is exact when no event is lost | |
| `QuiescenceProofs` | what a server at rest has finished, and what a fault costs | |
| `MetricsProofs` | the dashboards against the tables | |

`Worker`, `Coordinator` and `WorkflowService` EXTEND the repositories, the queue
and the bus they call; `GoTempo` EXTENDS the three. `DagExecution` INSTANCEs
`TaskLifecycle`, whose steps it guards with the graph; `GoTempoRefinement`
INSTANCEs both under the mapping. The proof modules extend each other in the
order `GoTempoProofs`, `LifecycleProofs`, `OutcomeProofs`, `DagProofs`,
`ExactProofs`, `QuiescenceProofs`; `LockProofs` needs only the first, and
`MetricsProofs` EXTENDS `Metrics` and `QuiescenceProofs`.

**Grain.** One call to Postgres or Redis is one step, because each is atomic on
the server and other goroutines run between any two. `thread[w].pc` and
`coord.pc` name the call made next; what follows a call without another call
(the tests of `SkipHint`, `CanRetry` or `len(readyTaskIDs)`, the metric) belongs
to its step. Each action is named after the method whose code it stands for, and
"map" in `PROJECT.json` gives the lines of every definition.

**Data.** A task id is `<<execution, position in the request>>` instead of a
random UUID: the program only compares ids, and uses the position for the order
of the root pushes. A row keeps the columns that code reads back. `dependencies`
is a set because the only query on the JSON column is containment of one element,
while `inDegree` starts at the *length* of the list, repetitions included, as in
`workflow_mapper.go:32`. An event is `(execution, task, RefID, type)`. What a
handler computes is abstracted to success or error (`Registry`).

**Faults.** Every faulty outcome passes through `Fault(kind)`: `db` (a statement
returns an error, executed or not; the rows of RETURNING break off early), `queue`
(RPUSH or BLPOP returns an error, executed or not), `publish` (PUBLISH fails),
`disconnect` (a subscription breaks; the messages in it are lost, the one the
forwarding goroutine holds is not), `crash`, `dupPush` and `dupPublish` (go-redis
re-sends a command whose reply was lost; both copies enter at once, next to each
other, although others could come between them). An aborted HTTP request cancels the
context of `SubmitWorkflow` and looks like `db` or `queue`. A run names the kinds
it studies and bounds their number by `MaxFaults`.

**Bus.** `channel[ch]` stands for everything between Redis and the coordinator's
`select`: connection buffer, then at most one message in the goroutine of
`SubscribeToEvents`, handed over through an unbuffered Go channel. Order per
channel is kept; the two channels are independent.

**The abstract specifications.** `TaskLifecycle` knows five states of a task and a
number of retries: a task waits, runs, goes back to waiting at most `MaxRetries`
times, and ends once; it fails only after its last retry. `DagExecution` adds the
graph, fixed at the submission: a task starts when all its parents are completed,
is skipped when all of them ended and one did not complete, and the execution's
outcome is decided once, from the tasks. Neither has lists, events, counters,
versions or threads. The mapping (`AbstractTask`, `AbstractDag`, and `executions`
as it is) reads the two tables and nothing else: PENDING and QUEUED are both
waiting; the parents of a task are the tasks of its execution that its
dependencies name. A client of `DagExecution` may submit `RequestGraphs`, the
graphs of the requests.

`TaskLifecycle` is implemented under every fault except a re-sent push (two threads
run the task, and both end it) and for registered actions (an unknown one is
FAILED and then PENDING again). `DagExecution` asks for more: a failed statement
may lose a MarkCompleted whose completion is published all the same
(`worker.go:228`), so children start above a RUNNING parent, and a re-sent
PUBLISH is counted twice, so a child may start before its other parent has ended.
Both are consequences of the code, and `ImplementsDag` is checked and proved
without `db` and `dupPublish`.

**Metrics.** `Metrics` lays the series over `GoTempo`: each of its actions is an
action of the server together with what the code counts between that call and the
next. A histogram is the number of its observations, and labels by action or
worker are summed. The series die with the process, so a behaviour is one life of
it, with the subscriptions in place and no crash. A body that does not bind is a
request of its own (`RejectRequest`): it is answered 500 and reaches nobody.
`created`, `error` and `registryErrors` are modelled beside the others, but no table
records what they count, and no property speaks of them.

## 3. What TLC checks

All runs use `MCGoTempo`, `two_workflows` with the series of `MCMetrics` beside it.
Bounds: two main threads and one retry thread (two threads suffice for any race on
one task, the third makes a retry race with them), `MaxRetries = 1` (first attempt,
a retry, exhaustion; the default of 3 adds nothing but length), workflows of one to
four tasks, at most two faults. Main threads and executions are symmetric except in
`liveness` and `v_startup`. Deadlock checking is off: the server rests when every
workflow has ended and no request comes.

| Run | Instance | Distinct states | Shows |
|---|---|---|---|
| `dags` | the DAGs of four tasks with three dependencies or more, every handler may fail, no faults | 178 000 | `InDegreeExact`, `SkipHintExact`, `RunsAfterDependencies`, `FailsOnlyAfterAllRetries`, `CompletedMeansAllCompleted`, `QuiescentMeansDone`, `TypeOK` |
| `two_workflows` | two concurrent executions (a join, or a chain whose end always fails) with the same RefIDs; queue or publish, once; one body that does not bind | 202 000 | `MetricsBalance`, `NeverAhead`; isolation: `InDegreeNeverTooLow`, `WorkflowFailsWithItsTasks`, `OneFaultStrandsOneWorkflow`, `OutcomeIsFinal` |
| `faults` | the connected DAGs of three tasks, and one dependency beside a single task; crash, disconnect, publish, queue | 143 000 | `ImplementsDag`, `SingleDelivery`, `DeliveredOnlyWhenReady`, `VersionCountsAttempts`, `InDegreeNeverTooLow`, `SkipIsJustified`, `RunsAfterDependencies`, `ClaimsNeverConflict`, `OutcomeIsFinal`, `TerminalIsFinal` |
| `db_faults` | the same DAGs; db, dupPublish, crash | 325 000 | `ImplementsLifecycle`, `SingleDelivery`, `DeliveredOnlyWhenReady`, `VersionCountsAttempts`, `CompletedMeansAllCompleted`, `ClaimsNeverConflict`, `OutcomeIsFinal`, `TerminalIsFinal` |
| `malformed` | eight requests the binding accepts and no DAG would be; every fault but dupPush | 771 000 | `SingleDelivery`, `DeliveredOnlyWhenReady`, `VersionCountsAttempts`, `RetryBudget` |
| `dup_push` | a join and smaller ones; dupPush, queue, crash | 429 000 | `ClaimsExclusivePerVersion`, `RetryBudget`: what the optimistic lock does give when a task is in a list twice |
| `liveness` | the same DAGs of three tasks, `FairSpec`, no faults | 7 900 | `EveryWorkflowFinishes`, `EveryTaskEnds`, `ImplementsFairDag` |

Four tasks are the smallest number at which a DAG has a diamond, two sinks below a
join, and a skip that propagates past a task with a completed parent. A connected
DAG of four tasks has three dependencies at least, so every one of those is in
`dags`; one that falls apart behaves like its parts side by side, and what parts do
to each other is in `faults` (a bystander) and `two_workflows`. Three tasks are
enough for the fault runs: a parent, a child, and a third that depends on one, on
both or on none. Two faults allow a fault during the recovery from another. The state of a task is independent of
other executions except through `execution_id`, which two executions exercise.
The join and the chain of `two_workflows` have between them a root beside another,
a dependent with one and with two parents, a skip, and a failure after a retry.
A crash leads to the state `ColdStart` begins with (workers up, subscriptions not),
so the safety properties of `faults` cover the start-up as well.

**Reading the main properties.** `InDegreeExact` says that the in-degree of a task
is the number of its parents whose end the coordinator has not handled, counting
every stage in between (row not terminal, thread about to publish, event in the
channel, coordinator about to decrement). Lost events weaken it to
`InDegreeNeverTooLow`; a duplicated one breaks even that, and only
`SingleDelivery` remains: a child whose in-degree goes below zero is not pushed
again, because only the step from one to zero pushes. `QuiescentMeansDone` is the
safety face of liveness: if nobody has anything to do, nothing was forgotten.
`SingleDelivery` is what `ClaimTask`'s missing status check depends on.
`OneFaultStrandsOneWorkflow` says what a loss may cost: when the server rests, as
many executions are unfinished as there were faults, at most. `MetricsBalance`
compares the series with the tables when the server rests, `NeverAhead` at any
moment, with a push, a pop or an event lost as well.

**Fairness.** Weak fairness of each worker thread, of the coordinator, of a
started submission and of a pending SUBSCRIBE. The Go scheduler runs every
runnable goroutine, each of these loops has one next step at a time, and BLPOP
wakes a waiting client; no fairness for faults, for the choice of a handler
between success and error, or for clients. Strong fairness is not needed: while a
task is in its list, a thread of that pool stays able to pop or is busy with a
finite number of steps.

`DagExecution` states its own fairness, weak fairness of `Progress(e)`, with the
state predicate `Unfinished(e)` in the place of ENABLED (which TLC cannot evaluate
under a refinement mapping): an execution that stays unfinished makes progress.
`ImplementsFairDag` therefore says that no execution is ever stuck, one at a time,
where the leads-to properties only speak of the end.

### Runs that contradict the documentation

| Run | Says | Does |
|---|---|---|
| `v_duplicate_execution` | `README.md:11` optimistic locking prevents duplicate execution | with a re-sent RPUSH two threads run one task at once: the second fetched the row after the first claim |
| `v_completion_reported` | `workflow_repository_impl.go:57`, `coordinator.go:129` no duplicate completion reports | two sinks that complete together report the workflow twice: an UPDATE of no row is no error |
| `v_failure_reported` | `metrics.go:153` the counter tracks workflow outcomes | it counts failed tasks |
| `v_unknown_action_event` | `events.go:21` a termination is published when a task fails or is skipped | for an unknown action it is published and the task is then retried, once per attempt |
| `v_startup` | `README.md:226-227` the coordinator listens, repeat until all tasks complete | workers start before the subscriptions are live; an event published then is lost and the workflow never ends |

Further observations, without a run: for an unknown action the event is published
before the execution is marked FAILED (`worker.go:157-158`, against
`coordinator.go:183`); the error of `MarkCompleted` is dropped and the completion
published (`worker.go:228`); retries have no backoff (`README.md:9` announces an
exponential one); nothing picks up tasks lost in a crash (`tasks.txt:5`).
The worker timeout of 2 s (`spec.txt:14`) does not exist: `timeout_task` sleeps its
10 s and succeeds. On metrics: `STRESS_TESTING.md:124` lets
`coordinator_tasks_unblocked_total` match the task count, but roots are never
unblocked (`MetricsBalance` compares with the dependents); two collectors set the
one gauge `RedisQueueDepth` for two lists, the last one wins (`main.go:56-57`,
`collector.go:42`); `SkipPropagationsTotal` misses a skip whose last parent's event
is a completion; the `failed` series counts every attempt at an unknown action
(`worker.go:147`); `WorkflowsInProgress`, `TasksByStatus`,
`WorkflowExecutionDuration` and `DAGDepthLongestPath` are updated by nobody. On
contention: `STRESS_TESTING.md:255` expects claims to conflict more often with more
workers (so do lines 261 and 416, and `alerts.yml:56-62` watches the rate), but as
long as no push is re-sent no thread ever comes to a claim with an old version,
however many workers there are (`ClaimsNeverConflict`): what
`worker_claim_failures_total` then counts are errors of Postgres.

## 4. What is proved

Twenty-three theorems in eight modules, each for every value of the constants: any
requests, any numbers of threads and executions, any registry, any `MaxRetries`,
any bound on the number of faults and any set of fault kinds the theorem does not
exclude. They rest on the named assumptions of `Domain`, `Faults`, `Worker` and
`GoTempo` (requests are non-empty sequences of `TaskDTO`s, the registry is a
function on actions, the two pools share no thread), which TLC evaluates on every
run, and on the assumptions in the second column, each of which a theorem states.

| Theorem | Assumes | Property |
|---|---|---|
| `TypeCorrect` | nothing | `TypeOK` |
| `ClaimsAreExclusive`, `RetryBudgetHolds` | nothing | `ClaimsExclusivePerVersion`, `RetryBudget` |
| `DeliveriesAreSingle`, `DeliveriesAreReady` | no re-sent push | `SingleDelivery`, `DeliveredOnlyWhenReady` |
| `VersionsCountAttempts`, `NoClaimConflicts` | no re-sent push | `VersionCountsAttempts`, `ClaimsNeverConflict` |
| `CompletionIsTrue`, `OutcomesAreFinal` | no re-sent push | `CompletedMeansAllCompleted`, `OutcomeIsFinal` |
| `FailureOnlyAfterAllRetries`, `TerminalTasksStay`, `LifecycleRefinement` | no re-sent push, registered actions | `FailsOnlyAfterAllRetries`, `TerminalIsFinal`, `ImplementsLifecycle` |
| `InDegreesSuffice`, `SkipsAreJustified`, `DependenciesFirst`, `DagRefinement` | `Dependable`, `DistinctRefs` | `InDegreeNeverTooLow`, `SkipIsJustified`, `RunsAfterDependencies`, `ImplementsDag` |
| `FailuresAreRecorded` | `Dependable`, no crash | `WorkflowFailsWithItsTasks` |
| `InDegreesAreExact`, `HintsAreExact` | `Lossless`, `WellFormed` | `InDegreeExact`, `SkipHintExact` |
| `OneStrandedPerFault` | `Steady`, `WellFormed`, `Acyclic` | `OneFaultStrandsOneWorkflow` |
| `RestMeansDone` | registered actions, no faults, listening from the start, `WellFormed`, `Acyclic` | `QuiescentMeansDone` |
| `DashboardsNeverAhead` (of `MetricsSpec`) | `Dependable`, `DistinctRefs` | `NeverAhead` |
| `DashboardsBalance` (of `MetricsSpec`) | `Steady`, `WellFormed`, `Acyclic` | `MetricsBalance` |

`Dependable` (module `OutcomeProofs`): registered actions, and none of `db`,
`dupPush`, `dupPublish`; crashes, lost pushes, pops and events remain.
`DistinctRefs`: the RefIDs of a request are distinct; the lists of dependencies
may still repeat, dangle or form a cycle. Each exclusion is needed: section 2 gives
the behaviours for `db`, `dupPublish` and unknown actions,
`v_duplicate_execution` the one for `dupPush`; with a RefID used twice, one parent's
events decrement for the other. `Steady` (module `ExactProofs`) adds to
`Dependable` that the subscriptions are there from the start, none of them breaks
and the server lives: what is left of the faults is a push, a pop or a PUBLISH that
fails. A crash or a broken subscription is excluded because it loses many things at
once, and a start without subscriptions because it loses events although nothing
failed (`v_startup`). `Lossless` excludes a failing PUBLISH as well. `WellFormed` adds to `DistinctRefs` that a dependency is listed once and is
in the request: otherwise the in-degree starts above the number of parents. Cycles
and self-references are allowed, their tasks just wait. `Acyclic`, which excludes
them, says that every non-empty set of tasks of a request has one that depends on
none of the set: for the finite set of a request's tasks that is the absence of
cycles, in the form an induction along the graph needs.

None of these properties is inductive as it stands. The strengthenings, each
resting on those before:

- `TypeOK` says besides the types that every id in a list, a thread, the ready set
  or a submission is a row of the table.
- `LockInv`: a thread's snapshot is never newer than its row, and if it is as new,
  it has the row's retry count (`Snapshot`). Every UPDATE that touches the retry
  count also moves the version on (`Advances`), so an old snapshot is refused and a
  current one is right about the budget. No assumption on the faults is needed:
  this is what the lock gives by itself.
- `DeliveryInv`: besides single delivery, a task with a positive in-degree is
  nowhere, because a decrement makes ready only what it takes from one to zero; and
  a submission that has not started has no rows (`FreshSubmissions`). The lemma
  `Deliveries` reduces a step to the tasks it moves.
- `StageInv`: the columns of one row agree (`GoodRow`), a task on its way to a
  worker waits, and whoever holds a task knows its row: which statuses are
  possible at each `pc` (`StatusOK`) and that the snapshot is current (`SnapshotOK`,
  by single delivery nobody else can have moved the row). From it `TableMoves`
  classifies what any step does to the table: one row by one of five moves, a
  decrement, an insertion, or nothing. The simulation of `TaskLifecycle` is a
  case split over that classification.
- `RecordsInv` and `OutcomeInv`: rows, events and executions are about each other,
  and when the coordinator is about to complete an execution, all tasks of it are
  still completed: completed rows stay and no rows are added.
- `EndedInv` and `EventsInv`: an event's task has ended that way, no thread has it
  any more, and there is one event about it at most. This is where a failed
  statement or a re-sent PUBLISH would break the argument.
- `CountInv`: for each task there is a set of parents whose end has been handled
  (`Accounted`), all others are still in the in-degree, and the hint tells whether
  one of the handled ones failed or was skipped. The set is existentially
  quantified because events get lost: which parents were heard of is not a function
  of the state. `HintsInv` adds that a hinted task was never claimed and an
  unhinted one never skipped. When a task is held its in-degree is zero, so all its
  parents are handled and have ended (`AllLearned`), and the hint tells `Start` from
  `Skip`: that is the simulation of `DagExecution`.
- `Recorded`: a task is FAILED and no thread is on its way to fail the execution
  for it. Without crashes it becomes true by a `FailWorkflow` step of the thread that
  has the task and by nothing else, and never false again (`FailureRecorded`), which is
  just when `executions` changes to FAILED (`ExecutionFails`).
- `ExactInv`: `InDegreeExact` and `SkipHintExact` are inductive together, over all
  the invariants above and `Subscribers` (both subscriptions live). An end goes
  from the thread that has the task to the channel (`ReleaseAnnounces`), from there
  to the coordinator, and is forgotten only when the coordinator handles it or when
  the PUBLISH fails (`LearnedByHandling`), in the first case in the same step that counts it down in every child
  (`HandlingCountsDown`). A new task starts with all its parents pending, and
  there is a bijection between them and its list of dependencies
  (`ParentsAreNamed`, `ParentsAreNamedOnce`).
- `QuiescenceInv` is a budget. An execution is `Intact` while the counts and hints
  of its tasks are exact, every task of it that waits for nobody is on the way to a
  worker (`Reachable`), and, once all of them are completed, the execution is marked
  or an event or a check that will mark it is under way (`CompletionDue`). A step
  that loses nothing of an execution keeps it intact (`IntactStays`). A step that
  does lose something, a task's place on the way (`KeepsPlace`) or its event
  (`KeepsEvent`), takes a fault and hits one execution only (`OneLoss`). So the
  executions that are not intact are at most as many as the faults (`IntactInv`),
  whichever they are: the set is existentially quantified. At rest nothing is on
  the way and no event is pending; if an intact execution had tasks that have not
  ended, one of them would have no parent among them (`Grounded`, which the table
  inherits from `Acyclic`), so its in-degree would be zero and it would be on the
  way (`IntactAtRest`). With no faults at all, every execution is intact.
- `LedgerInv`: the series count, one by one, elements of sets that only grow: the
  completed tasks, the failed ones, the skipped ones no thread has any more, and
  the dependents whose in-degree is zero (`EndedStays`, `ReportedStays`,
  `FreedStays`). Each step that counts puts into its set what was not there before
  (`MarkEnds`, `AnnouncedSkip`, `LoopFrees`). The dependents are counted when the
  push loop ends and freed before it begins, hence `readyTaskIDs` in the invariant.
  A dependent is never freed twice because `CountInv` keeps an in-degree at zero
  there (`CountFixed`). `MetricsSpec` implies `Spec` (`MetricsImplement`), so
  everything proved of the server holds beside the series.
- `BalanceInv` turns those inequalities into equations, between any two calls and
  not only at rest, as long as nothing has failed: every series is the size of a set
  (of tasks, retries or submissions) that the state determines (`TaskBalance`, `EventBalance`,
  `RequestBalance`). The active attempts, for instance, are the tasks held at certain
  `pc`s, and the events taken are about the tasks that ended, that no thread has any
  more, and that are announced in no channel (`Received`). A step of a thread is
  about one task and moves no other (`About`, `OneMoves`); what it counts is that
  task's coming or going in each of those sets (`StepCounts`). The retries are the
  pairs of a task and a number up to its retry count (`RetriesMade`), not a sum over
  the tasks, so one retry adds one pair and no induction over the table is needed.
  The event the coordinator takes leaves the channel and nothing else there is about
  its task (`EventTaken`, from `EventsInv`). An intact execution at rest has only
  ended tasks, of in-degree zero (`RestedTasks`, from `QuiescenceInv`), and then the
  sets are those that `MetricsBalance` counts (`RestedBalance`).

Every invariant a passing run checks is stated by one of these theorems. Out of the
prover's reach and left to TLC: liveness, fairness and anything about ENABLED, hence
`EveryWorkflowFinishes`, `EveryTaskEnds` and `ImplementsFairDag`;
`QuiescentMeansDone` is the part of them that is proved. The runs that contradict
the documentation are counterexamples, found by TLC on their instances.

## 5. What is not modelled

- Time: handler durations, request durations and sizes, timeouts.
- Metrics: the database and Redis series other than the lock conflicts, which count
  calls and errors one by one; the collectors, which sample; the four series
  nobody updates.
- HTTP: routing, response bodies, health and readiness endpoints.
- Handlers' inputs and outputs; JSON that Postgres would refuse (an error message
  or a RefID with a quote in it is a statement that always fails).
- Loss of Postgres or Redis data; several servers on the same Redis.
- Shutdown: `main` never cancels the context.
- `FindChildren`, `Create`, `GetByID`, `IsFinished`, `WorkflowPaused`: no caller.
- Redis client construction, deployment, dashboards, migrations.

## 6. Plan

Done: the components, runs and theorems above. Left, in this order:

1. `OneFaultStrandsOneWorkflow` with crashes: a crash costs as many executions as
   have something in memory, at most the threads, the coordinator, the messages and
   the submissions in progress.
2. The remaining database and Redis series, if a property about them is worth
   stating.
