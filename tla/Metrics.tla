------------------------------- MODULE Metrics -------------------------------
(***************************************************************************)
(* The Prometheus series of internal/metrics, the middleware and the HTTP  *)
(* handler, laid over the server: a step of GoTempo and what the code      *)
(* counts in it, before the call it makes next.  A histogram is the number *)
(* of its observations; labels by action or worker are summed up.  The     *)
(* series live and die with the process: a behaviour is one life of it,    *)
(* its subscriptions in place.                                             *)
(***************************************************************************)
EXTENDS GoTempo

CONSTANT MaxRejected    \* bounds the requests that do not bind

ASSUME MaxRejectedAssumption == MaxRejected \in Nat

VARIABLES
  metrics,       \* series -> value
  readyTaskIDs   \* the length of readyTaskIDs while the coordinator pushes

(* The series, by the block of metrics.go that declares them. *)
HTTPRequests == {"created", "error"}

WorkflowsSubmitted == {"submitted"}

WorkerSeries == {"queueWaits", "claimFailures", "active", "handlerRuns", "registryErrors",
                 "retries", "success", "failed", "skipped"}

CoordinatorSeries == {"completedEvents", "terminatedEvents", "unblocked"}

SkipPropagations == {"skipPropagations"}

OptimisticLockConflicts == {"lockConflicts"}

RetryExhaustion == {"exhausted"}

Series ==
  UNION {HTTPRequests, WorkflowsSubmitted, WorkerSeries, CoordinatorSeries,
         SkipPropagations, OptimisticLockConflicts, RetryExhaustion}

Once(condition) == IF condition THEN 1 ELSE 0

(* The step adds added[s] to each of the series s it counts in. *)
Count(added) ==
  \E add \in {added} :
    metrics' = [s \in Series |-> metrics[s] + (IF s \in DOMAIN add THEN add[s] ELSE 0)]

-----------------------------------------------------------------------------
(* SubmitWorkflow of the handler: when the service returns, the handler     *)
(* counts the workflow and the middleware the response by its status.       *)
Responds(e, pc) == submit[e].pc # pc /\ submit'[e].pc = pc

CountRequest(e) ==
  Count([created   |-> Once(Responds(e, "created")),
         submitted |-> Once(Responds(e, "created")),
         error     |-> Once(Responds(e, "error"))])

(* A body that does not bind gets a 500 too, and reaches nobody. *)
RejectRequest ==
  /\ metrics.error < MaxRejected
  /\ Count([error |-> 1])
  /\ UNCHANGED <<vars, readyTaskIDs>>

-----------------------------------------------------------------------------
LockConflict(w) ==
  /\ At(w, "claim") \/ At(w, "retry")
  /\ ~RowMatches(thread[w].task, thread[w].version)

(* From a claim that succeeded to the return of ProcessNextTask. *)
InAttempt(th) == th.pc \notin {"pop", "find", "skip", "publishSkipped", "claim"}

UnknownAction(w) == At(w, "execute") /\ Row(w).action \notin DOMAIN Registry

(* Mutant of CountRetry: counted where the retry is pushed, as well. *)
CountRetryTwice(w) == Once(thread'[w].pc = "retry" \/ At(w, "pushRetry"))

(* Counted before IncrementRetryCount. *)
CountRetry(w) == Once(thread'[w].pc = "retry")

CountTask(w) ==
  Count([queueWaits     |-> Once(At(w, "find") /\ thread'[w].pc # "pop"),
         claimFailures  |-> Once(At(w, "claim") /\ thread'[w].pc = "pop"),
         lockConflicts  |-> Once(LockConflict(w)),
         active         |-> Once(InAttempt(thread'[w])) - Once(InAttempt(thread[w])),
         handlerRuns    |-> Once(At(w, "execute") /\ ~UnknownAction(w)),
         registryErrors |-> Once(UnknownAction(w)),
         retries        |-> CountRetry(w),
         exhausted      |-> Once(At(w, "markFailed")),
         success        |-> Once(At(w, "markCompleted")),
         failed         |-> Once(At(w, "markFailed") \/ UnknownAction(w)),
         skipped        |-> Once(At(w, "publishSkipped"))])

-----------------------------------------------------------------------------
(* One increment per element of readyTaskIDs, after the push loop. *)
LoopEnds == coord.pc = "push" /\ coord'.pc # "push"

Unblocked(type) ==
  IF LoopEnds /\ coord.event.type \in type THEN readyTaskIDs ELSE 0

Takes(ch) == channel'[ch] # channel[ch]

CountEvent ==
  /\ Count([completedEvents  |-> Once(Takes("completed")),
            terminatedEvents |-> Once(Takes("terminated")),
            unblocked        |-> Unblocked({"completed", "failed", "skipped"}),
            skipPropagations |-> Unblocked({"failed", "skipped"})])
  /\ readyTaskIDs' = CASE coord.pc = "decrement" -> Cardinality(coord'.ready)
                       [] LoopEnds -> 0
                       [] OTHER -> readyTaskIDs

-----------------------------------------------------------------------------
MetricsInit ==
  /\ Init
  /\ metrics = [s \in Series |-> 0]
  /\ readyTaskIDs = 0

MetricsNext ==
  \/ \E w \in Thread : WorkerAction(w) /\ CountTask(w) /\ UNCHANGED readyTaskIDs
  \/ CoordinatorAction /\ CountEvent
  \/ \E e \in Execution : ServiceAction(e) /\ CountRequest(e) /\ UNCHANGED readyTaskIDs
  \/ RejectRequest

MetricsSpec == MetricsInit /\ [][MetricsNext]_<<vars, metrics, readyTaskIDs>>

-----------------------------------------------------------------------------
Tasks(status) == Cardinality({t \in DOMAIN tasks : tasks[t].status = status})

(* A retry is a task and its number. *)
RetriesMade == UNION {{t} \X (1 .. tasks[t].retryCount) : t \in DOMAIN tasks}

Retries == Cardinality(RetriesMade)

Dependents == Cardinality({t \in DOMAIN tasks : tasks[t].dependencies # {}})

(* When the server rests and nothing failed around it, what it reports is   *)
(* what it did: every task was delivered once, and once more per retry (the *)
(* arithmetic of STRESS_TESTING.md:204); every end of a task was one event; *)
(* every dependent was unblocked once (STRESS_TESTING.md:124); nobody lost  *)
(* a claim; no attempt is left active.  The series are counted by threads,  *)
(* coordinator and handler on their own, from snapshots.                    *)
MetricsBalance ==
  Quiescent /\ faults = 0 =>
    /\ metrics.success = Tasks("COMPLETED")
    /\ metrics.failed = Tasks("FAILED") /\ metrics.exhausted = metrics.failed
    /\ metrics.skipped = Tasks("SKIPPED")
    /\ metrics.retries = Retries
    /\ metrics.queueWaits = Cardinality(DOMAIN tasks) + metrics.retries
    /\ metrics.handlerRuns = metrics.success + metrics.failed + metrics.retries
    /\ metrics.completedEvents = metrics.success
    /\ metrics.terminatedEvents = metrics.failed + metrics.skipped
    /\ metrics.unblocked = Dependents
    /\ metrics.claimFailures = 0 /\ metrics.lockConflicts = 0 /\ metrics.active = 0
    /\ metrics.submitted = Cardinality({e \in Execution : executions[e] # "absent"})

(* The dashboards are never ahead of the tables, at any moment: a task that *)
(* is reported as ended has ended, once, and a dependent that is reported   *)
(* as unblocked has no parent left to wait for.                             *)
NeverAhead ==
  /\ metrics.success <= Tasks("COMPLETED") /\ metrics.failed <= Tasks("FAILED")
  /\ metrics.skipped <= Tasks("SKIPPED") /\ metrics.skipPropagations <= metrics.unblocked
  /\ metrics.unblocked <=
       Cardinality({t \in DOMAIN tasks : tasks[t].dependencies # {} /\ tasks[t].inDegree = 0})
=============================================================================
