--------------------------- MODULE MetricsProofs ---------------------------
(***************************************************************************)
(* What the dashboards show against what the tables hold, in one life of   *)
(* the process, as long as actions are registered, the RefIDs of a request *)
(* are distinct, and neither a failing statement nor a re-sent RPUSH or    *)
(* PUBLISH disturbs it: never more than the tables hold, and exactly that  *)
(* when the server rests and nothing failed.                               *)
(***************************************************************************)
EXTENDS Metrics, QuiescenceProofs

MetricsTypeOK == metrics \in [Series -> Int] /\ readyTaskIDs \in Nat

Ended(status) == {t \in DOMAIN tasks : tasks[t].status = status}

(* A skip is counted after its event, when the thread lets go of the task.  *)
SkipsReported == {t \in Ended("SKIPPED") : Released(thread, t)}

(* The dependents that wait for nobody any more. *)
Freed == {t \in DOMAIN tasks : tasks[t].dependencies # {} /\ tasks[t].inDegree = 0}

(* What is reported has happened; the dependents the coordinator is pushing *)
(* are spoken for although their count comes after the loop.                *)
LedgerInv ==
  /\ MetricsTypeOK
  /\ IsFiniteSet(DOMAIN tasks)
  /\ metrics.success <= Cardinality(Ended("COMPLETED"))
  /\ metrics.failed <= Cardinality(Ended("FAILED"))
  /\ metrics.skipped <= Cardinality(SkipsReported)
  /\ metrics.skipPropagations <= metrics.unblocked
  /\ metrics.unblocked + readyTaskIDs <= Cardinality(Freed)
  /\ coord.pc # "push" => readyTaskIDs = 0

(* What the proofs about the tables say of every state. *)
Sound ==
  /\ TypeOK /\ DeliveryInv /\ StageInv /\ RecordsInv
  /\ EndedInv /\ EventsInv /\ CountInv

(* All the series in one set. *)
LEMMA SeriesNames ==
  Series = {"created", "error", "submitted",
            "queueWaits", "claimFailures", "lockConflicts", "active", "handlerRuns",
            "registryErrors", "retries", "exhausted", "success", "failed", "skipped",
            "completedEvents", "terminatedEvents", "unblocked", "skipPropagations"}
BY DEF Series, HTTPRequests, WorkflowsSubmitted, WorkerSeries, CoordinatorSeries,
       SkipPropagations, OptimisticLockConflicts, RetryExhaustion

-----------------------------------------------------------------------------
(* The metrics are laid over the server, they do not change what it does.   *)
LEMMA MetricsWatch ==
  ASSUME [MetricsNext]_<<vars, metrics, readyTaskIDs>>
  PROVE  [Next]_vars
BY DEF MetricsNext, RejectRequest, Next, vars

LEMMA MetricsImplement == MetricsSpec => Spec
<1>1. MetricsInit => Init
  BY DEF MetricsInit
<1>2. [MetricsNext]_<<vars, metrics, readyTaskIDs>> => [Next]_vars
  BY MetricsWatch
<1> QED BY <1>1, <1>2, PTL DEF MetricsSpec, Spec

(* The series a step does not name keep their values. *)
LEMMA CountAdds ==
  ASSUME metrics \in [Series -> Int], NEW added, Count(added)
  PROVE  /\ \A s \in Series \ DOMAIN added : metrics'[s] = metrics[s]
         /\ \A s \in Series \cap DOMAIN added : metrics'[s] = metrics[s] + added[s]
         /\ (\A s \in Series \cap DOMAIN added : added[s] \in Int) =>
              metrics' \in [Series -> Int]
<1>1. metrics' = [s \in Series |->
                    metrics[s] + (IF s \in DOMAIN added THEN added[s] ELSE 0)]
  BY DEF Count
<1>2. \A s \in Series : metrics[s] \in Int
  OBVIOUS
<1>3. \A s \in Series \ DOMAIN added : metrics'[s] = metrics[s]
  BY <1>1, <1>2
<1>4. \A s \in Series \cap DOMAIN added : metrics'[s] = metrics[s] + added[s]
  BY <1>1
<1>5. ASSUME \A s \in Series \cap DOMAIN added : added[s] \in Int
      PROVE  metrics' \in [Series -> Int]
  <2>1. \A s \in Series :
          metrics[s] + (IF s \in DOMAIN added THEN added[s] ELSE 0) \in Int
    BY <1>2, <1>5
  <2> QED BY <1>1, <2>1
<1> QED BY <1>3, <1>4, <1>5

(* What the threads count, and nobody else. *)
TaskSeriesNames == {"queueWaits", "claimFailures", "lockConflicts", "active", "handlerRuns",
                    "retries", "exhausted", "success", "failed", "skipped"}

LEMMA TaskSeries ==
  ASSUME MetricsTypeOK, NEW w \in Thread, CountTask(w)
  PROVE  /\ metrics' \in [Series -> Int]
         /\ metrics'.success = metrics.success + Once(At(w, "markCompleted"))
         /\ metrics'.failed = metrics.failed + Once(At(w, "markFailed") \/ UnknownAction(w))
         /\ metrics'.skipped = metrics.skipped + Once(At(w, "publishSkipped"))
         /\ metrics'.exhausted = metrics.exhausted + Once(At(w, "markFailed"))
         /\ metrics'.retries = metrics.retries + Once(thread'[w].pc = "retry")
         /\ metrics'.queueWaits =
              metrics.queueWaits + Once(At(w, "find") /\ thread'[w].pc # "pop")
         /\ metrics'.handlerRuns =
              metrics.handlerRuns + Once(At(w, "execute") /\ ~UnknownAction(w))
         /\ metrics'.active =
              metrics.active + (Once(InAttempt(thread'[w])) - Once(InAttempt(thread[w])))
         /\ metrics'.claimFailures =
              metrics.claimFailures + Once(At(w, "claim") /\ thread'[w].pc = "pop")
         /\ metrics'.lockConflicts = metrics.lockConflicts + Once(LockConflict(w))
         /\ \A s \in {"unblocked", "skipPropagations", "completedEvents",
                      "terminatedEvents", "submitted"} : metrics'[s] = metrics[s]
<1>1. \A condition : Once(condition) \in Int
  BY DEF Once
<1>2. PICK added :
        /\ Count(added)
        /\ DOMAIN added = {"queueWaits", "claimFailures", "lockConflicts", "active",
                           "handlerRuns", "registryErrors", "retries", "exhausted",
                           "success", "failed", "skipped"}
        /\ \A s \in DOMAIN added : added[s] \in Int
        /\ added["success"] = Once(At(w, "markCompleted"))
        /\ added["failed"] = Once(At(w, "markFailed") \/ UnknownAction(w))
        /\ added["skipped"] = Once(At(w, "publishSkipped"))
        /\ added["exhausted"] = Once(At(w, "markFailed"))
        /\ added["retries"] = Once(thread'[w].pc = "retry")
        /\ added["queueWaits"] = Once(At(w, "find") /\ thread'[w].pc # "pop")
        /\ added["handlerRuns"] = Once(At(w, "execute") /\ ~UnknownAction(w))
        /\ added["active"] = Once(InAttempt(thread'[w])) - Once(InAttempt(thread[w]))
        /\ added["claimFailures"] = Once(At(w, "claim") /\ thread'[w].pc = "pop")
        /\ added["lockConflicts"] = Once(LockConflict(w))
  <2> DEFINE record ==
        [queueWaits     |-> Once(At(w, "find") /\ thread'[w].pc # "pop"),
         claimFailures  |-> Once(At(w, "claim") /\ thread'[w].pc = "pop"),
         lockConflicts  |-> Once(LockConflict(w)),
         active         |-> Once(InAttempt(thread'[w])) - Once(InAttempt(thread[w])),
         handlerRuns    |-> Once(At(w, "execute") /\ ~UnknownAction(w)),
         registryErrors |-> Once(UnknownAction(w)),
         retries        |-> CountRetry(w),
         exhausted      |-> Once(At(w, "markFailed")),
         success        |-> Once(At(w, "markCompleted")),
         failed         |-> Once(At(w, "markFailed") \/ UnknownAction(w)),
         skipped        |-> Once(At(w, "publishSkipped"))]
  <2>1. Count(record)
    BY DEF CountTask
  <2>2. CountRetry(w) = Once(thread'[w].pc = "retry")
    BY DEF CountRetry
  <2> QED BY <1>1, <2>1, <2>2
<1> QED BY <1>2, CountAdds, SeriesNames DEF MetricsTypeOK

(* What the coordinator counts. *)
LEMMA EventSeries ==
  ASSUME MetricsTypeOK, CountEvent
  PROVE  /\ metrics' \in [Series -> Int]
         /\ metrics'.completedEvents = metrics.completedEvents + Once(Takes("completed"))
         /\ metrics'.terminatedEvents = metrics.terminatedEvents + Once(Takes("terminated"))
         /\ metrics'.unblocked = metrics.unblocked
                                 + Unblocked({"completed", "failed", "skipped"})
         /\ metrics'.skipPropagations = metrics.skipPropagations
                                        + Unblocked({"failed", "skipped"})
         /\ \A s \in TaskSeriesNames \cup {"submitted"} : metrics'[s] = metrics[s]
<1>1. \A condition : Once(condition) \in Int
  BY DEF Once
<1>2. \A type : Unblocked(type) \in Int
  BY DEF Unblocked, MetricsTypeOK
<1>3. PICK added :
        /\ Count(added)
        /\ DOMAIN added = {"completedEvents", "terminatedEvents", "unblocked",
                           "skipPropagations"}
        /\ \A s \in DOMAIN added : added[s] \in Int
        /\ added["completedEvents"] = Once(Takes("completed"))
        /\ added["terminatedEvents"] = Once(Takes("terminated"))
        /\ added["unblocked"] = Unblocked({"completed", "failed", "skipped"})
        /\ added["skipPropagations"] = Unblocked({"failed", "skipped"})
  <2> DEFINE record ==
        [completedEvents  |-> Once(Takes("completed")),
         terminatedEvents |-> Once(Takes("terminated")),
         unblocked        |-> Unblocked({"completed", "failed", "skipped"}),
         skipPropagations |-> Unblocked({"failed", "skipped"})]
  <2>1. Count(record)
    BY DEF CountEvent
  <2> QED BY <1>1, <1>2, <2>1
<1>4. /\ TaskSeriesNames \cup {"submitted"} \subseteq Series \ DOMAIN added
      /\ DOMAIN added \subseteq Series
  BY <1>3, SeriesNames DEF TaskSeriesNames
<1>5. /\ metrics' \in [Series -> Int]
      /\ \A s \in DOMAIN added : metrics'[s] = metrics[s] + added[s]
      /\ \A s \in Series \ DOMAIN added : metrics'[s] = metrics[s]
  BY <1>3, <1>4, CountAdds DEF MetricsTypeOK
<1> QED BY <1>3, <1>4, <1>5

(* What the handler counts. *)
LEMMA RequestSeries ==
  ASSUME MetricsTypeOK, RejectRequest \/ \E e \in Execution : CountRequest(e)
  PROVE  /\ metrics' \in [Series -> Int]
         /\ \A s \in TaskSeriesNames \cup {"unblocked", "skipPropagations",
                      "completedEvents", "terminatedEvents"} : metrics'[s] = metrics[s]
         /\ RejectRequest => metrics'.submitted = metrics.submitted
         /\ \A e \in Execution : CountRequest(e) =>
              metrics'.submitted = metrics.submitted + Once(Responds(e, "created"))
<1>1. \A condition : Once(condition) \in Int
  BY DEF Once
<1>2. ASSUME RejectRequest
      PROVE  /\ metrics' \in [Series -> Int]
             /\ \A s \in Series \ {"error"} : metrics'[s] = metrics[s]
  <2>1. PICK added : Count(added) /\ added = [error |-> 1]
    BY <1>2 DEF RejectRequest
  <2> QED BY <2>1, CountAdds DEF MetricsTypeOK
<1>3. ASSUME NEW e \in Execution, CountRequest(e)
      PROVE  /\ metrics' \in [Series -> Int]
             /\ \A s \in Series \ {"created", "submitted", "error"} : metrics'[s] = metrics[s]
             /\ metrics'.submitted = metrics.submitted + Once(Responds(e, "created"))
  <2>1. PICK added : /\ Count(added)
                     /\ added = [created   |-> Once(Responds(e, "created")),
                                 submitted |-> Once(Responds(e, "created")),
                                 error     |-> Once(Responds(e, "error"))]
    BY <1>3 DEF CountRequest
  <2> QED BY <1>1, <2>1, CountAdds, SeriesNames DEF MetricsTypeOK
<1>4. TaskSeriesNames \cup {"unblocked", "skipPropagations", "completedEvents",
                            "terminatedEvents"} \subseteq Series \ {"created", "submitted", "error"}
  BY SeriesNames DEF TaskSeriesNames
<1>5. "submitted" \in Series \ {"error"}
  BY SeriesNames
<1> QED BY <1>2, <1>3, <1>4, <1>5

-----------------------------------------------------------------------------
(* Nothing that was reported goes away again. *)
LEMMA RowsFinite ==
  ASSUME Sound, IsFiniteSet(DOMAIN tasks), [Next]_vars
  PROVE  IsFiniteSet(DOMAIN tasks')
<1>1. CASE DOMAIN tasks' \subseteq DOMAIN tasks
  BY <1>1, FS_Subset
<1>2. CASE ~(DOMAIN tasks' \subseteq DOMAIN tasks)
  <2>1. PICK e \in Execution, req \in Requests : Submits(e, req)
    BY <1>2, RowsAppear DEF Sound
  <2>2. DOMAIN tasks' = DOMAIN tasks \cup TaskIDs(e, req)
    BY <2>1 DEF Submits, Inserted
  <2>3. IsFiniteSet(TaskIDs(e, req))
    <3> DEFINE position == [t \in TaskIDs(e, req) |-> t[2]]
    <3>1. req \in Seq(TaskDTO)
      BY RequestsAssumption
    <3>2. Len(req) \in Nat /\ DOMAIN req = 1..Len(req)
      BY <3>1, LenProperties
    <3>3. position \in Injection(TaskIDs(e, req), 1..Len(req))
      BY <3>2 DEF TaskIDs, Injection, IsInjective
    <3>4. IsFiniteSet(1..Len(req))
      BY <3>2, FS_Interval
    <3> HIDE DEF position
    <3> QED BY <3>3, <3>4, FS_Injection
  <2> QED BY <2>2, <2>3, FS_Union
<1> QED BY <1>1, <1>2

LEMMA EndedStays ==
  ASSUME Dependable, Sound, [Next]_vars, NEW status \in Terminal
  PROVE  Ended(status) \subseteq Ended(status)'
<1>1. "dupPush" \notin FaultKinds /\ Registered
  BY DEF Dependable
<1> QED BY <1>1, TerminalStep, RowsStay DEF Sound, Ended

LEMMA ReportedStays ==
  ASSUME Dependable, Sound, [Next]_vars
  PROVE  SkipsReported \subseteq SkipsReported'
<1>1. "dupPush" \notin FaultKinds /\ Registered
  BY DEF Dependable
<1>2. ASSUME NEW t \in SkipsReported PROVE t \in SkipsReported'
  <2>1. t \in DOMAIN tasks /\ tasks[t].status = "SKIPPED" /\ Released(thread, t)
    BY <1>2 DEF SkipsReported, Ended
  <2>2. tasks'[t].status = "SKIPPED" /\ Released(thread', t)
    BY <1>1, <2>1, DoneStays DEF Sound, Terminal
  <2>3. t \in DOMAIN tasks'
    BY <2>1, RowsStay DEF Sound
  <2> QED BY <2>2, <2>3 DEF SkipsReported, Ended
<1> QED BY <1>2

LEMMA FreedStays ==
  ASSUME Dependable, Sound, [Next]_vars
  PROVE  Freed \subseteq Freed'
<1>1. ASSUME NEW t \in Freed PROVE t \in Freed'
  <2>1. t \in DOMAIN tasks /\ tasks[t].dependencies # {} /\ tasks[t].inDegree = 0
    BY <1>1 DEF Freed
  <2>2. tasks'[t].inDegree = 0
    BY <2>1, CountFixed DEF Sound, SameCount
  <2>3. t \in DOMAIN tasks' /\ tasks'[t].dependencies = tasks[t].dependencies
    BY <2>1, RowsStay DEF Sound, SameName
  <2> QED BY <2>1, <2>2, <2>3 DEF Freed
<1> QED BY <1>1

(* The program counter says which call a thread makes. *)
LEMMA CallMade ==
  ASSUME NEW w \in Thread, WorkerAction(w)
  PROVE  /\ At(w, "markCompleted") => CompleteTask(w)
         /\ At(w, "markFailed") => FailTask(w)
         /\ At(w, "publishSkipped") => PublishSkipped(w)
<1>1. PopTask(w) \/ FindTask(w) \/ SkipTask(w) \/ Claim(w) \/ ExecuteHandler(w)
        \/ MarkUnknown(w) \/ PublishUnknown(w) \/ FailUnknown(w)
      => thread[w].pc \in {"pop", "find", "skip", "claim", "execute", "publishUnknown",
                           "failUnknown"}
  BY DEF PopTask, FindTask, SkipTask, Claim, ExecuteHandler, MarkUnknown, PublishUnknown,
     FailUnknown, At
<1>2. Retry(w) \/ PushRetry(w) \/ FailWorkflow(w) \/ PublishFailed(w) \/ PublishCompleted(w)
      => thread[w].pc \in {"retry", "pushRetry", "failWorkflow", "publishFailed",
                           "publishCompleted"}
  BY DEF Retry, PushRetry, FailWorkflow, PublishFailed, PublishCompleted, At
<1>3. /\ CompleteTask(w) => thread[w].pc = "markCompleted"
      /\ FailTask(w) => thread[w].pc = "markFailed"
      /\ PublishSkipped(w) => thread[w].pc = "publishSkipped"
  BY DEF CompleteTask, FailTask, PublishSkipped, At
<1> QED BY <1>1, <1>2, <1>3 DEF WorkerAction, ProcessNextTask, At

(* Each of the steps that count makes true what it reports. *)
LEMMA MarkEnds ==
  ASSUME Dependable, Sound, NEW w \in Thread, WorkerAction(w),
         At(w, "markCompleted") \/ At(w, "markFailed")
  PROVE  \E t \in DOMAIN tasks :
           /\ tasks[t].status = "RUNNING"
           /\ At(w, "markCompleted") => t \in Ended("COMPLETED")'
           /\ At(w, "markFailed") => t \in Ended("FAILED")'
<1>1. PICK t : t = thread[w].task
  OBVIOUS
<1>2. t \in DOMAIN tasks /\ tasks[t].status = "RUNNING"
  BY <1>1 DEF Sound, TypeOK, WorkerTypeOK, StageInv, StatusOK, Dependable, At
<1>3. \A status : tasks' = Marked(t, status) => t \in Ended(status)'
  BY <1>2 DEF Sound, Marked, TypeOK, TaskRepositoryTypeOK, Task, Ended
<1>4. CASE At(w, "markCompleted")
  <2>1. CompleteTask(w)
    BY <1>4, CallMade
  <2>2. tasks' = Marked(t, "COMPLETED")
    BY <1>1, <2>1 DEF CompleteTask, MarkCompleted, Write, Fault, Dependable
  <2> QED BY <1>2, <1>3, <1>4, <2>2 DEF At
<1>5. CASE At(w, "markFailed")
  <2>1. FailTask(w) /\ ~At(w, "markCompleted")
    BY <1>5, CallMade DEF At
  <2>2. tasks' = Marked(t, "FAILED")
    BY <1>1, <2>1 DEF FailTask, MarkFailed, Write, Fault, Dependable
  <2> QED BY <1>2, <1>3, <2>1, <2>2
<1> QED BY <1>4, <1>5

LEMMA AnnouncedSkip ==
  ASSUME Dependable, Sound, NEW w \in Thread, WorkerAction(w), At(w, "publishSkipped")
  PROVE  \E t \in DOMAIN tasks : t \notin SkipsReported /\ t \in SkipsReported'
<1>1. PICK t : t = thread[w].task
  OBVIOUS
<1>2. t \in DOMAIN tasks /\ tasks[t].status = "SKIPPED" /\ thread[w].pc # "pop"
  BY <1>1 DEF Sound, TypeOK, WorkerTypeOK, StageInv, StatusOK, At
<1>3. t \notin SkipsReported
  BY <1>1, <1>2 DEF SkipsReported, Released
<1>4. PublishSkipped(w)
  BY CallMade
<1>5. UNCHANGED tasks /\ Return(w)
  BY <1>4 DEF PublishSkipped
<1>6. thread'[w].pc = "pop" /\ \A v \in Thread \ {w} : thread'[v] = thread[v]
  BY <1>5, ThreadMoves DEF Sound, TypeOK
<1>7. \A v \in Thread \ {w} : thread[v].pc # "pop" => thread[v].task # t
  BY <1>1, <1>2 DEF Sound, DeliveryInv, SingleDelivery, UniqueInThreads, Holds
<1>8. Released(thread', t)
  BY <1>6, <1>7 DEF Released
<1> QED BY <1>2, <1>3, <1>5, <1>8 DEF SkipsReported, Ended

LEMMA LoopFrees ==
  ASSUME Dependable, Sound, CoordinatorAction, coord.pc = "decrement"
  PROVE  /\ coord'.ready \subseteq Freed' /\ coord'.ready \cap Freed = {}
         /\ Freed' \subseteq Freed \cup coord'.ready
         /\ coord'.pc # "push" => coord'.ready = {}
<1> DEFINE e == coord.event.executionID
           ref == coord.event.refID
           skip == coord.event.type # "completed"
<1>1. PICK ready \in SUBSET DOMAIN tasks :
        /\ ready = ReadyTasks(e, ref) /\ tasks' = Decremented(e, ref, skip)
        /\ coord' = AfterDecrement(coord.event, ready) \/ (Select /\ ready = {})
  <2>1. \A r, s, ok : DecrementInDegree(e, ref, s, r, ok) =>
          ok /\ r = ReadyTasks(e, ref) /\ tasks' = Decremented(e, ref, s)
    BY DEF DecrementInDegree, Write, Fault, Dependable
  <2>2. CASE HandleTaskCompleted
    BY <2>1, <2>2 DEF HandleTaskCompleted, Handling
  <2>3. CASE HandleTaskTerminated
    <3>1. PICK now \in SUBSET DOMAIN tasks, ok \in BOOLEAN :
            /\ DecrementInDegree(e, ref, TRUE, now, ok)
            /\ IF ok /\ now # {} THEN coord' = AfterDecrement(coord.event, now) ELSE Select
      BY <2>3 DEF HandleTaskTerminated
    <3>2. skip = TRUE
      BY <2>3 DEF HandleTaskTerminated
    <3>3. now = ReadyTasks(e, ref) /\ tasks' = Decremented(e, ref, skip) /\ ok
      BY <2>1, <3>1, <3>2
    <3> QED BY <3>1, <3>3
  <2>4. HandleTaskCompleted \/ HandleTaskTerminated
    BY DEF CoordinatorAction, CoordinatorStep, SubscribeToEvents, SubscribeToTerminationEvents,
       ReceiveEvent, PushReady, CheckIfWorkflowFinished, CompleteWorkflow
  <2> QED BY <2>2, <2>3, <2>4
<1>2. coord'.ready = ready /\ (coord'.pc # "push" => ready = {})
  BY <1>1 DEF AfterDecrement, Select, CoordinatorAt
<1>3. ASSUME NEW t \in ReadyTasks(e, ref) PROVE t \in Freed' /\ t \notin Freed
  <2>1. t \in DOMAIN tasks /\ ref \in tasks[t].dependencies /\ t \in Children(e, ref)
        /\ DecrementedRow(tasks[t], FALSE).inDegree = 0
    BY <1>3 DEF ReadyTasks, Children
  <2>2. tasks[t] \in Task
    BY <2>1 DEF Sound, TypeOK, TaskRepositoryTypeOK
  <2>3. tasks[t].inDegree = 1
    BY <2>1, <2>2 DEF DecrementedRow, Task
  <2>4. t \in DOMAIN tasks' /\ tasks'[t] = DecrementedRow(tasks[t], skip)
    BY <1>1, <2>1 DEF Decremented
  <2>5. tasks'[t].inDegree = 0 /\ tasks'[t].dependencies = tasks[t].dependencies
    BY <2>2, <2>3, <2>4 DEF DecrementedRow, Task
  <2> QED BY <2>1, <2>3, <2>4, <2>5 DEF Freed
<1>4. ASSUME NEW t \in Freed', t \notin Freed PROVE t \in ReadyTasks(e, ref)
  <2>1. /\ t \in DOMAIN tasks /\ tasks[t] \in Task
        /\ tasks'[t] = IF t \in Children(e, ref) THEN DecrementedRow(tasks[t], skip) ELSE tasks[t]
    BY <1>1, <1>4 DEF Freed, Decremented, Sound, TypeOK, TaskRepositoryTypeOK
  <2>2. \A s : /\ DecrementedRow(tasks[t], s).inDegree = tasks[t].inDegree - 1
               /\ DecrementedRow(tasks[t], s).dependencies = tasks[t].dependencies
    BY <2>1 DEF DecrementedRow, Task
  <2>3. tasks'[t].inDegree = 0 /\ tasks'[t].dependencies # {}
    BY <1>4 DEF Freed
  <2> QED BY <1>4, <2>1, <2>2, <2>3 DEF Freed, ReadyTasks
<1> QED BY <1>1, <1>2, <1>3, <1>4

-----------------------------------------------------------------------------
(* Counting what has happened for the first time. *)
LEMMA Growth ==
  ASSUME NEW S, NEW T, IsFiniteSet(T), S \subseteq T
  PROVE  /\ IsFiniteSet(S) /\ Cardinality(S) \in Nat /\ Cardinality(T) \in Nat
         /\ Cardinality(S) <= Cardinality(T)
         /\ S # T => Cardinality(S) + 1 <= Cardinality(T)
         /\ \A A \in SUBSET T : A \cap S = {} =>
              Cardinality(A) \in Nat /\ Cardinality(S) + Cardinality(A) <= Cardinality(T)
<1>1. /\ IsFiniteSet(S) /\ Cardinality(S) \in Nat /\ Cardinality(T) \in Nat
      /\ Cardinality(S) <= Cardinality(T) /\ (Cardinality(S) = Cardinality(T) => S = T)
  BY FS_Subset, FS_CardinalityType
<1>2. ASSUME NEW A \in SUBSET T, A \cap S = {}
      PROVE  Cardinality(A) \in Nat /\ Cardinality(S) + Cardinality(A) <= Cardinality(T)
  <2>1. IsFiniteSet(A) /\ Cardinality(A) \in Nat
    BY FS_Subset, FS_CardinalityType
  <2>2. Cardinality(S \cup A) = Cardinality(S) + Cardinality(A) - Cardinality(S \cap A)
    BY <1>1, <2>1, FS_Union
  <2>3. Cardinality(S \cap A) = 0
    BY <1>2, FS_EmptySet
  <2>4. Cardinality(S \cup A) <= Cardinality(T)
    BY FS_Subset
  <2> QED BY <1>1, <2>1, <2>2, <2>3, <2>4
<1> QED BY <1>1, <1>2

LEMMA TablesGrow ==
  ASSUME Dependable, Sound, LedgerInv, [Next]_vars
  PROVE  /\ \A S \in {Ended("COMPLETED"), Ended("FAILED"), SkipsReported, Freed} :
              Cardinality(S) \in Nat
         /\ Cardinality(Ended("COMPLETED")) <= Cardinality(Ended("COMPLETED")')
         /\ Cardinality(Ended("FAILED")) <= Cardinality(Ended("FAILED")')
         /\ Cardinality(SkipsReported) <= Cardinality(SkipsReported')
         /\ Cardinality(Freed) <= Cardinality(Freed')
         /\ \A S \in {Ended("COMPLETED")', Ended("FAILED")', SkipsReported', Freed'} :
              IsFiniteSet(S) /\ Cardinality(S) \in Nat
<1>1. IsFiniteSet(DOMAIN tasks')
  BY RowsFinite DEF LedgerInv
<1>2. \A S \in {Ended("COMPLETED")', Ended("FAILED")', SkipsReported', Freed'} :
        IsFiniteSet(S) /\ Cardinality(S) \in Nat
  <2>1. /\ Ended("COMPLETED")' \subseteq DOMAIN tasks' /\ Ended("FAILED")' \subseteq DOMAIN tasks'
        /\ SkipsReported' \subseteq DOMAIN tasks' /\ Freed' \subseteq DOMAIN tasks'
    BY DEF Ended, SkipsReported, Freed
  <2> QED BY <1>1, <2>1, FS_Subset, FS_CardinalityType
<1>3. /\ Ended("COMPLETED") \subseteq Ended("COMPLETED")' /\ Ended("FAILED") \subseteq Ended("FAILED")'
      /\ SkipsReported \subseteq SkipsReported' /\ Freed \subseteq Freed'
  BY EndedStays, ReportedStays, FreedStays DEF Terminal
<1> QED BY <1>2, <1>3, Growth

LEMMA TaskLedger ==
  ASSUME Dependable, Sound, LedgerInv, NEW w \in Thread,
         WorkerAction(w), CountTask(w), UNCHANGED readyTaskIDs
  PROVE  LedgerInv'
<1> DEFINE completed == Cardinality(Ended("COMPLETED"))
           failures == Cardinality(Ended("FAILED"))
           skips == Cardinality(SkipsReported)
<1>1. [Next]_vars
  BY DEF Next
<1>2. MetricsTypeOK /\ \A s \in Series : metrics[s] \in Int
  BY DEF LedgerInv, MetricsTypeOK
<1>3. metrics.success + Once(At(w, "markCompleted")) <= completed'
  <2>1. CASE At(w, "markCompleted")
    <3>1. Ended("COMPLETED") # Ended("COMPLETED")'
      BY <2>1, MarkEnds DEF Ended
    <3>2. completed + 1 <= completed'
      BY <1>1, <3>1, TablesGrow, EndedStays, Growth DEF Terminal
    <3> QED BY <1>1, <1>2, <2>1, <3>2, TablesGrow, SeriesNames DEF LedgerInv, Once
  <2>2. CASE ~At(w, "markCompleted")
    BY <1>1, <1>2, <2>2, TablesGrow, SeriesNames DEF LedgerInv, Once
  <2> QED BY <2>1, <2>2
<1>4. metrics.failed + Once(At(w, "markFailed") \/ UnknownAction(w)) <= failures'
  <2>1. ~UnknownAction(w)
    BY DEF UnknownAction, At, Row, Sound, TypeOK, WorkerTypeOK, StageInv, GoodRow, Dependable
  <2>2. CASE At(w, "markFailed")
    <3>1. Ended("FAILED") # Ended("FAILED")'
      BY <2>2, MarkEnds DEF Ended
    <3>2. failures + 1 <= failures'
      BY <1>1, <3>1, TablesGrow, EndedStays, Growth DEF Terminal
    <3> QED BY <1>1, <1>2, <2>2, <3>2, TablesGrow, SeriesNames DEF LedgerInv, Once
  <2>3. CASE ~At(w, "markFailed")
    BY <1>1, <1>2, <2>1, <2>3, TablesGrow, SeriesNames DEF LedgerInv, Once
  <2> QED BY <2>2, <2>3
<1>5. metrics.skipped + Once(At(w, "publishSkipped")) <= skips'
  <2>1. CASE At(w, "publishSkipped")
    <3>1. SkipsReported # SkipsReported'
      BY <2>1, AnnouncedSkip
    <3>2. skips + 1 <= skips'
      BY <1>1, <3>1, TablesGrow, ReportedStays, Growth
    <3> QED BY <1>1, <1>2, <2>1, <3>2, TablesGrow, SeriesNames DEF LedgerInv, Once
  <2>2. CASE ~At(w, "publishSkipped")
    BY <1>1, <1>2, <2>2, TablesGrow, SeriesNames DEF LedgerInv, Once
  <2> QED BY <2>1, <2>2
<1>6. metrics.unblocked + readyTaskIDs <= Cardinality(Freed')
  BY <1>1, <1>2, TablesGrow, SeriesNames DEF LedgerInv, MetricsTypeOK
<1>7. UNCHANGED <<coord, readyTaskIDs>>
  BY DEF WorkerAction
<1>8. IsFiniteSet(DOMAIN tasks')
  BY <1>1, RowsFinite DEF LedgerInv
<1> QED
  BY <1>2, <1>3, <1>4, <1>5, <1>6, <1>7, <1>8, TaskSeries DEF LedgerInv, MetricsTypeOK

LEMMA EventLedger ==
  ASSUME Dependable, Sound, LedgerInv, CoordinatorAction, CountEvent
  PROVE  LedgerInv'
<1>1. [Next]_vars
  BY DEF Next
<1>2. MetricsTypeOK /\ (\A s \in Series : metrics[s] \in Int) /\ readyTaskIDs \in Nat
  BY DEF LedgerInv, MetricsTypeOK
<1>3. /\ metrics'.success <= Cardinality(Ended("COMPLETED")')
      /\ metrics'.failed <= Cardinality(Ended("FAILED")')
      /\ metrics'.skipped <= Cardinality(SkipsReported')
  BY <1>1, <1>2, EventSeries, TablesGrow, SeriesNames DEF LedgerInv, TaskSeriesNames
<1>4. metrics'.skipPropagations <= metrics'.unblocked
  BY <1>2, EventSeries, SeriesNames DEF LedgerInv, Unblocked
<1>5. /\ readyTaskIDs' \in Nat
      /\ metrics'.unblocked + readyTaskIDs' <= Cardinality(Freed')
      /\ coord'.pc # "push" => readyTaskIDs' = 0
  <2>1. CASE coord.pc = "decrement"
    <3>1. coord'.ready \subseteq Freed' /\ coord'.ready \cap Freed = {}
          /\ (coord'.pc # "push" => coord'.ready = {})
      BY <2>1, LoopFrees
    <3>2. /\ Cardinality(coord'.ready) \in Nat
          /\ Cardinality(Freed) + Cardinality(coord'.ready) <= Cardinality(Freed')
      BY <1>1, <3>1, TablesGrow, FreedStays, Growth
    <3>3. readyTaskIDs' = Cardinality(coord'.ready) /\ readyTaskIDs = 0
      BY <2>1 DEF CountEvent, LoopEnds, LedgerInv
    <3>4. metrics'.unblocked = metrics.unblocked
      BY <1>2, <2>1, EventSeries, SeriesNames DEF Unblocked, LoopEnds
    <3>5. metrics.unblocked <= Cardinality(Freed)
      BY <1>2, <3>3, SeriesNames DEF LedgerInv
    <3>6. Cardinality({}) = 0
      BY FS_EmptySet
    <3>7. Cardinality(Freed) \in Nat /\ Cardinality(Freed') \in Nat /\ metrics.unblocked \in Int
      BY <1>1, <1>2, TablesGrow, SeriesNames
    <3>8. metrics'.unblocked + readyTaskIDs' <= Cardinality(Freed')
      BY <3>2, <3>3, <3>4, <3>5, <3>7
    <3>9. coord'.pc # "push" => Cardinality(coord'.ready) = 0
      <4> SUFFICES ASSUME coord'.pc # "push" PROVE Cardinality(coord'.ready) = 0
        OBVIOUS
      <4>1. coord'.ready = {}
        BY <3>1
      <4> QED BY <3>6, <4>1
    <3> QED BY <3>2, <3>3, <3>8, <3>9
  <2>2. CASE LoopEnds
    <3>1. readyTaskIDs' = 0
      BY <2>2 DEF CountEvent, LoopEnds
    <3>2. metrics'.unblocked <= metrics.unblocked + readyTaskIDs
      BY <1>2, EventSeries, SeriesNames DEF Unblocked
    <3>3. /\ metrics.unblocked + readyTaskIDs <= Cardinality(Freed)
          /\ Cardinality(Freed) <= Cardinality(Freed')
          /\ Cardinality(Freed) \in Nat /\ Cardinality(Freed') \in Nat
      BY <1>1, TablesGrow DEF LedgerInv
    <3>4. metrics.unblocked \in Int /\ metrics'.unblocked \in Int
      BY <1>2, EventSeries, SeriesNames
    <3> QED BY <1>2, <3>1, <3>2, <3>3, <3>4
  <2>3. CASE coord.pc # "decrement" /\ ~LoopEnds
    <3>1. readyTaskIDs' = readyTaskIDs
      BY <2>3 DEF CountEvent
    <3>2. metrics'.unblocked = metrics.unblocked
      BY <1>2, <2>3, EventSeries, SeriesNames DEF Unblocked
    <3>3. coord'.pc # "push" => coord.pc # "push"
      BY <2>3 DEF LoopEnds
    <3>4. /\ metrics.unblocked + readyTaskIDs <= Cardinality(Freed)
          /\ Cardinality(Freed) <= Cardinality(Freed')
          /\ Cardinality(Freed) \in Nat /\ Cardinality(Freed') \in Nat
      BY <1>1, TablesGrow DEF LedgerInv
    <3>5. metrics.unblocked \in Int
      BY <1>2, SeriesNames
    <3> QED BY <1>2, <3>1, <3>2, <3>3, <3>4, <3>5 DEF LedgerInv
  <2> QED BY <2>1, <2>2, <2>3
<1>6. IsFiniteSet(DOMAIN tasks')
  BY <1>1, RowsFinite DEF LedgerInv
<1> QED BY <1>2, <1>3, <1>4, <1>5, <1>6, EventSeries DEF LedgerInv, MetricsTypeOK

LEMMA RequestLedger ==
  ASSUME Dependable, Sound, LedgerInv, UNCHANGED readyTaskIDs,
         \/ RejectRequest
         \/ \E e \in Execution : ServiceAction(e) /\ CountRequest(e)
         \/ UNCHANGED <<vars, metrics, readyTaskIDs>>
  PROVE  LedgerInv'
<1>1. [Next]_vars /\ UNCHANGED coord
  BY DEF Next, RejectRequest, ServiceAction, vars
<1>2. MetricsTypeOK /\ \A s \in Series : metrics[s] \in Int
  BY DEF LedgerInv, MetricsTypeOK
<1>3. /\ metrics' \in [Series -> Int]
      /\ \A s \in {"success", "failed", "skipped", "unblocked", "skipPropagations"} :
           metrics'[s] = metrics[s]
  <2>1. CASE UNCHANGED metrics
    BY <1>2, <2>1 DEF MetricsTypeOK
  <2>2. CASE RejectRequest \/ \E e \in Execution : CountRequest(e)
    BY <1>2, <2>2, RequestSeries DEF TaskSeriesNames
  <2> QED BY <2>1, <2>2
<1>4. /\ metrics'.success <= Cardinality(Ended("COMPLETED")')
      /\ metrics'.failed <= Cardinality(Ended("FAILED")')
      /\ metrics'.skipped <= Cardinality(SkipsReported')
      /\ metrics'.skipPropagations <= metrics'.unblocked
      /\ metrics'.unblocked + readyTaskIDs <= Cardinality(Freed')
  BY <1>1, <1>2, <1>3, TablesGrow, SeriesNames DEF LedgerInv, MetricsTypeOK
<1>5. IsFiniteSet(DOMAIN tasks')
  BY <1>1, RowsFinite DEF LedgerInv
<1> QED BY <1>1, <1>2, <1>3, <1>4, <1>5 DEF LedgerInv, MetricsTypeOK

LEMMA LedgerStep ==
  ASSUME Dependable, Sound, LedgerInv, [MetricsNext]_<<vars, metrics, readyTaskIDs>>
  PROVE  LedgerInv'
<1>1. ASSUME NEW w \in Thread, WorkerAction(w) /\ CountTask(w) /\ UNCHANGED readyTaskIDs
      PROVE  LedgerInv'
  BY <1>1, TaskLedger
<1>2. CASE CoordinatorAction /\ CountEvent
  BY <1>2, EventLedger
<1>3. CASE /\ \/ RejectRequest
              \/ \E e \in Execution : ServiceAction(e) /\ CountRequest(e)
              \/ UNCHANGED <<vars, metrics, readyTaskIDs>>
           /\ UNCHANGED readyTaskIDs
  BY <1>3, RequestLedger
<1> QED BY <1>1, <1>2, <1>3 DEF MetricsNext, RejectRequest

LEMMA SoundAlways ==
  ASSUME Dependable, DistinctRefs
  PROVE  Spec => []Sound
<1>1. TypeOK /\ DeliveryInv /\ StageInv /\ (RecordsInv /\ OutcomeInv)
        /\ (EndedInv /\ EventsInv) /\ (CountInv /\ HintsInv) => Sound
  BY DEF Sound
<1>2. "dupPush" \notin FaultKinds
  BY DEF Dependable
<1> QED
  BY <1>1, <1>2, TypeCorrect, DeliveryInvariant, StageInvariant, OutcomeInvariant,
     EventsInvariant, CountInvariant, PTL

LEMMA LedgerInvariant ==
  ASSUME Dependable, DistinctRefs
  PROVE  MetricsSpec => [](Sound /\ LedgerInv)
<1>1. MetricsInit => LedgerInv
  <2> SUFFICES ASSUME MetricsInit PROVE LedgerInv
    OBVIOUS
  <2>1. DOMAIN tasks = {} /\ coord.pc # "push"
    BY DEF MetricsInit, Init, TaskRepositoryInit, CoordinatorInit, Listening, CoordinatorAt
  <2>2. metrics = [s \in Series |-> 0] /\ readyTaskIDs = 0
    BY DEF MetricsInit
  <2>3. /\ Ended("COMPLETED") = {} /\ Ended("FAILED") = {}
        /\ SkipsReported = {} /\ Freed = {}
    BY <2>1 DEF Ended, SkipsReported, Freed
  <2>4. \A s \in Series : metrics[s] = 0
    BY <2>2
  <2>5. MetricsTypeOK
    BY <2>2 DEF MetricsTypeOK
  <2>6. /\ metrics.success = 0 /\ metrics.failed = 0 /\ metrics.skipped = 0
        /\ metrics.skipPropagations = 0 /\ metrics.unblocked = 0
    BY <2>4, SeriesNames
  <2>7. IsFiniteSet({}) /\ Cardinality({}) = 0 /\ readyTaskIDs = 0
    BY <2>2, FS_EmptySet
  <2>8. IsFiniteSet(DOMAIN tasks)
    BY <2>1, <2>7
  <2>9. /\ metrics.success <= Cardinality(Ended("COMPLETED"))
        /\ metrics.failed <= Cardinality(Ended("FAILED"))
        /\ metrics.skipped <= Cardinality(SkipsReported)
        /\ metrics.skipPropagations <= metrics.unblocked
        /\ metrics.unblocked + readyTaskIDs <= Cardinality(Freed)
    BY <2>3, <2>6, <2>7
  <2> QED BY <2>5, <2>7, <2>8, <2>9 DEF LedgerInv
<1>2. Sound /\ LedgerInv /\ [MetricsNext]_<<vars, metrics, readyTaskIDs>> => LedgerInv'
  BY LedgerStep
<1> QED
  BY <1>1, <1>2, MetricsImplement, SoundAlways, PTL DEF MetricsSpec

(* The dashboards are never ahead of the tables: for any requests with      *)
(* distinct RefIDs, any number of workers, lost pushes and lost events, a   *)
(* task is reported as ended, and a dependent as unblocked, only after it   *)
(* is, and once.                                                            *)
THEOREM DashboardsNeverAhead ==
  ASSUME Dependable, DistinctRefs
  PROVE  MetricsSpec => []NeverAhead
<1>1. Sound /\ LedgerInv => NeverAhead
  <2> SUFFICES ASSUME Sound, LedgerInv PROVE NeverAhead
    OBVIOUS
  <2>1. SkipsReported \subseteq Ended("SKIPPED") /\ Ended("SKIPPED") \subseteq DOMAIN tasks
        /\ Freed \subseteq DOMAIN tasks
    BY DEF SkipsReported, Ended, Freed
  <2>2. /\ IsFiniteSet(Ended("SKIPPED")) /\ Cardinality(Freed) \in Nat
    BY <2>1, FS_Subset, FS_CardinalityType DEF LedgerInv
  <2>3. /\ Cardinality(SkipsReported) <= Cardinality(Ended("SKIPPED"))
        /\ Cardinality(SkipsReported) \in Nat /\ Cardinality(Ended("SKIPPED")) \in Nat
    BY <2>1, <2>2, Growth
  <2>4. metrics.skipped <= Cardinality(Ended("SKIPPED"))
    BY <2>3, SeriesNames DEF LedgerInv, MetricsTypeOK
  <2>5. metrics.unblocked <= Cardinality(Freed)
    BY <2>2, SeriesNames DEF LedgerInv, MetricsTypeOK
  <2>6. \A status : Tasks(status) = Cardinality(Ended(status))
    BY DEF Tasks, Ended
  <2> QED BY <2>4, <2>5, <2>6 DEF LedgerInv, NeverAhead, Freed
<1> QED
  BY <1>1, LedgerInvariant, PTL

-----------------------------------------------------------------------------
(* What the dashboards and the tables owe each other, as long as nothing   *)
(* has failed: every series is the size of a set of tasks, between any two  *)
(* calls of any thread, not only at rest.                                   *)
HeldAt(pcs) == {t \in DOMAIN tasks : \E w \in Thread : Holds(w, t) /\ thread[w].pc \in pcs}

(* The wait in the list that led to the present attempt has been counted.   *)
Attended ==
  {t \in DOMAIN tasks : tasks[t].status \in Terminal}
    \cup HeldAt(ThreadPC \ {"pop", "find", "retry", "pushRetry"})

(* The handler has returned from its last run. *)
Ran == Ended("COMPLETED") \cup Ended("FAILED") \cup HeldAt({"markFailed", "markCompleted"})

Attempts == HeldAt(ThreadPC \ {"pop", "find", "skip", "publishSkipped", "claim"})

(* The event of its end is in a channel. *)
Announced(t) == \E c \in ChannelName : \E i \in DOMAIN channel[c] : channel[c][i].taskID = t

(* The coordinator has taken that event. *)
Received(ends) ==
  {t \in DOMAIN tasks : tasks[t].status \in ends /\ Released(thread, t) /\ ~Announced(t)}

Created == {e \in Execution : submit[e].pc = "created"}

TaskBalance ==
  /\ metrics.success = Cardinality(Ended("COMPLETED"))
  /\ metrics.failed = Cardinality(Ended("FAILED"))
  /\ metrics.exhausted = Cardinality(Ended("FAILED"))
  /\ metrics.skipped = Cardinality(SkipsReported)
  /\ IsFiniteSet(RetriesMade)
  /\ metrics.retries = Cardinality(RetriesMade) + Cardinality(HeldAt({"retry"}))
  /\ metrics.queueWaits = metrics.retries + Cardinality(Attended)
  /\ metrics.handlerRuns = metrics.retries + Cardinality(Ran)
  /\ metrics.active = Cardinality(Attempts)
  /\ metrics.claimFailures = 0 /\ metrics.lockConflicts = 0

EventBalance ==
  /\ metrics.completedEvents = Cardinality(Received({"COMPLETED"}))
  /\ metrics.terminatedEvents = Cardinality(Received({"FAILED", "SKIPPED"}))
  /\ metrics.unblocked + readyTaskIDs = Cardinality(Freed)

RequestBalance ==
  /\ IsFiniteSet(Created) /\ metrics.submitted = Cardinality(Created)
  /\ \A e \in Execution :
       submit[e].pc # "error" /\ (submit[e].pc # "new" => executions[e] # "absent")

(* Each channel carries its own kind of event. *)
SortedEvents ==
  /\ \A i \in DOMAIN channel["completed"] : channel["completed"][i].type = "completed"
  /\ \A i \in DOMAIN channel["terminated"] : channel["terminated"][i].type # "completed"

BalanceInv ==
  faults = 0 => TaskBalance /\ EventBalance /\ RequestBalance /\ SortedEvents

(* The state in which the balance is kept. *)
Running == Sound /\ LedgerInv /\ Subscribers

-----------------------------------------------------------------------------
(* One element enters a set, leaves it, or neither. *)
LEMMA OneMoves ==
  ASSUME NEW S, NEW T, NEW x, IsFiniteSet(S), T \ {x} = S \ {x}
  PROVE  /\ IsFiniteSet(T) /\ Cardinality(S) \in Nat /\ Cardinality(T) \in Nat
         /\ Cardinality(T) + Once(x \in S) = Cardinality(S) + Once(x \in T)
<1>1. IsFiniteSet(S \ {x}) /\ Cardinality(S \ {x}) \in Nat /\ Cardinality(S) \in Nat
  BY FS_RemoveElement, FS_CardinalityType
<1>2. T = S \ {x} \/ T = (S \ {x}) \cup {x}
  OBVIOUS
<1>3. IsFiniteSet(T) /\ Cardinality(T) \in Nat
  BY <1>1, <1>2, FS_AddElement, FS_CardinalityType
<1>4. /\ Cardinality(S \ {x}) = Cardinality(S) - Once(x \in S)
      /\ Cardinality(T \ {x}) = Cardinality(T) - Once(x \in T)
  BY <1>1, <1>3, FS_RemoveElement DEF Once
<1>5. Cardinality(T \ {x}) = Cardinality(S \ {x})
  OBVIOUS
<1>6. Cardinality(T) + Once(x \in S) = Cardinality(S) + Once(x \in T)
  BY <1>1, <1>3, <1>4, <1>5 DEF Once
<1> QED BY <1>1, <1>3, <1>6

(* A thread's step is about one task: the one it pops, or the one it has.   *)
About(w, t) ==
  /\ t \in DOMAIN tasks /\ DOMAIN tasks' = DOMAIN tasks
  /\ \A u \in DOMAIN tasks \ {t} : tasks'[u] = tasks[u]
  /\ \A v \in Thread \ {w} : thread'[v] = thread[v] /\ ~Holds(v, t)
  /\ thread[w].pc # "pop" => thread[w].task = t
  /\ thread'[w].pc # "pop" => thread'[w].task = t

LEMMA ThreadSubject ==
  ASSUME Sound, NEW w \in Thread, WorkerAction(w)
  PROVE  \E t : About(w, t)
<1>1. WorkerTypeOK /\ \A v \in Thread \ {w} : thread'[v] = thread[v]
  BY OthersRest DEF Sound, TypeOK
<1>2. CASE PopTask(w)
  <2>1. PICK t \in DOMAIN tasks :
          \/ /\ Pop(SourceQueue(w), t, TRUE)
             /\ Become(w, [Idle EXCEPT !.pc = "find", !.task = t])
          \/ Pop(SourceQueue(w), t, FALSE) /\ Return(w)
    BY <1>2 DEF PopTask
  <2>2. Queued(t)
    <3>1. SourceQueue(w) \in QueueName /\ RedisQueueTypeOK(DOMAIN tasks)
      BY DEF SourceQueue, QueueName, Sound, TypeOK
    <3> QED BY <2>1, <3>1, PopUnique DEF Sound, DeliveryInv, SingleDelivery
  <2>3. \A v \in Thread : ~Holds(v, t)
    BY <2>2 DEF Sound, DeliveryInv, SingleDelivery, InOnePlace, HeldByThread
  <2>4. thread[w].pc = "pop" /\ UNCHANGED tasks
    BY <1>2 DEF PopTask, At
  <2>5. thread'[w].pc # "pop" => thread'[w].task = t
    <3>1. PICK th : th = [Idle EXCEPT !.pc = "find", !.task = t]
      OBVIOUS
    <3>2. th.task = t
      BY <3>1 DEF Idle
    <3> QED BY <1>1, <2>1, <3>1, <3>2, ThreadMoves
  <2> QED BY <1>1, <2>3, <2>4, <2>5 DEF About
<1>3. CASE ~PopTask(w)
  <2>1. PICK t : t = thread[w].task
    OBVIOUS
  <2>2. thread[w].pc # "pop"
    BY <1>3 DEF WorkerAction, ProcessNextTask, FindTask, SkipTask, PublishSkipped, Claim,
       ExecuteHandler, MarkUnknown, PublishUnknown, FailUnknown, Retry, PushRetry, FailTask,
       FailWorkflow, PublishFailed, CompleteTask, PublishCompleted, At
  <2>3. t \in DOMAIN tasks /\ Holds(w, t)
    BY <1>1, <2>1, <2>2 DEF WorkerTypeOK, Holds
  <2>4. \A v \in Thread \ {w} : ~Holds(v, t)
    BY <2>3 DEF Sound, DeliveryInv, SingleDelivery, UniqueInThreads
  <2>5. DOMAIN tasks' = DOMAIN tasks /\ \A u \in DOMAIN tasks \ {t} : tasks'[u] = tasks[u]
    BY <2>1, WorkerMoves DEF Sound, Holds, RowBecomes
  <2>6. thread'[w].pc # "pop" => thread'[w].task = t
    <3>1. CASE PushRetry(w)
      BY <1>1, <3>1, ThreadMoves DEF PushRetry
    <3>2. CASE ~PushRetry(w)
      BY <1>3, <2>1, <3>2, WorkerKeepsPlaces DEF WorkerAction, KeepsPlaces, Sound
    <3> QED BY <3>1, <3>2
  <2> QED BY <1>1, <2>1, <2>3, <2>4, <2>5, <2>6 DEF About
<1> QED BY <1>2, <1>3

(* What a step that meets no fault does to that task. *)
Passes(w, t) ==
  LET pc == thread[w].pc
      next == thread'[w].pc
      row == tasks[t]
      new == tasks'[t]
  IN
  \/ /\ new = row
     /\ \/ pc = "pop" /\ next = "find" /\ row.status \in Waiting
        \/ pc = "find" /\ next \in {"skip", "claim"}
        \/ pc = "execute" /\ next \in {"markCompleted", "retry", "markFailed"}
        \/ pc = "failWorkflow" /\ next = "publishFailed"
        \/ pc = "pushRetry" /\ next = "pop"
        \/ pc \in {"publishSkipped", "publishFailed", "publishCompleted"} /\ next = "pop"
  \/ /\ new.retryCount = row.retryCount
     /\ \/ pc = "skip" /\ next = "publishSkipped" /\ new.status = "SKIPPED"
        \/ pc = "claim" /\ next = "execute" /\ new.status = "RUNNING"
        \/ pc = "markCompleted" /\ next = "publishCompleted" /\ new.status = "COMPLETED"
        \/ pc = "markFailed" /\ next = "failWorkflow" /\ new.status = "FAILED"
  \/ /\ pc = "retry" /\ next = "pushRetry" /\ new.status = "PENDING"
     /\ new.retryCount = row.retryCount + 1

LEMMA FaultFree ==
  ASSUME TypeOK, NoFault
  PROVE  \A kind : ~Fault(kind)
BY FaultsAssumption DEF TypeOK, NoFault, Fault

LEMMA FaultFreeStep ==
  ASSUME Dependable, Sound, NEW w \in Thread, WorkerAction(w), NoFault, NEW t, About(w, t)
  PROVE  Passes(w, t)
<1>1. /\ WorkerTypeOK /\ t \in DOMAIN tasks /\ tasks[t] \in Task
      /\ thread[w].pc # "pop" => /\ thread[w].task = t /\ StatusOK(thread[w].pc, tasks[t].status)
                                 /\ SnapshotOK(thread[w], tasks[t])
  BY DEF Sound, TypeOK, TaskRepositoryTypeOK, About, StageInv
<1>2. \A kind : ~Fault(kind)
  BY FaultFree DEF Sound
<1>3. /\ \A pc : Goto(w, pc) => thread'[w].pc = pc
      /\ Return(w) => thread'[w].pc = "pop"
      /\ \A th : Become(w, th) => thread'[w] = th
  BY <1>1, ThreadMoves
<1>4. \A table, ok : Write(table, ok) => ok /\ tasks' = table
  BY <1>2 DEF Write
<1>5. \A status : Marked(t, status)[t].status = status
                  /\ Marked(t, status)[t].retryCount = tasks[t].retryCount
  BY <1>1 DEF Marked, Task
<1>6. CASE PopTask(w)
  <2>1. PICK u \in DOMAIN tasks :
          /\ Pop(SourceQueue(w), u, TRUE)
          /\ Become(w, [Idle EXCEPT !.pc = "find", !.task = u])
    BY <1>2, <1>6 DEF PopTask, Pop
  <2>2. PICK th : th = [Idle EXCEPT !.pc = "find", !.task = u]
    OBVIOUS
  <2>3. th.pc = "find" /\ th.task = u
    BY <2>2 DEF Idle
  <2>4. thread'[w].pc = "find" /\ u = t
    BY <1>3, <2>1, <2>2, <2>3 DEF About
  <2>5. Queued(t)
    <3>1. SourceQueue(w) \in QueueName /\ RedisQueueTypeOK(DOMAIN tasks)
      BY DEF SourceQueue, QueueName, Sound, TypeOK
    <3> QED BY <2>1, <2>4, <3>1, PopUnique DEF Sound, DeliveryInv, SingleDelivery
  <2>6. tasks[t].status \in Waiting
    BY <1>1, <2>5 DEF Sound, StageInv, OnItsWay
  <2>7. thread[w].pc = "pop" /\ tasks' = tasks
    BY <1>6 DEF PopTask, At
  <2> QED BY <2>4, <2>6, <2>7 DEF Passes
<1>7. CASE FindTask(w)
  <2>1. thread[w].pc = "find" /\ Become(w, Fetched(t)) /\ UNCHANGED tasks
    BY <1>1, <1>2, <1>7 DEF FindTask, ReadError, At
  <2>2. Fetched(t).pc \in {"skip", "claim"}
    BY DEF Fetched
  <2> QED BY <1>3, <2>1, <2>2 DEF Passes
<1>8. CASE SkipTask(w)
  <2>1. /\ thread[w].pc = "skip" /\ tasks' = Marked(t, "SKIPPED")
        /\ Goto(w, "publishSkipped")
    BY <1>1, <1>4, <1>8 DEF SkipTask, At, MarkSkipped
  <2> QED BY <1>3, <1>5, <2>1 DEF Passes
<1>9. CASE Claim(w)
  <2>1. thread[w].pc = "claim" /\ RowMatches(t, thread[w].version)
    BY <1>1, <1>9 DEF Claim, At, SnapshotOK, RowMatches
  <2>2. tasks' = Claimed(t, thread[w].version) /\ Become(w, AfterClaim(thread[w]))
    BY <1>1, <1>4, <1>9, <2>1 DEF Claim, ClaimTask
  <2>3. AfterClaim(thread[w]).pc = "execute"
    BY <1>1 DEF AfterClaim, WorkerTypeOK
  <2>4. /\ Claimed(t, thread[w].version)[t].status = "RUNNING"
        /\ Claimed(t, thread[w].version)[t].retryCount = tasks[t].retryCount
    BY <1>1 DEF Claimed, Task
  <2> QED BY <1>3, <2>1, <2>2, <2>3, <2>4 DEF Passes
<1>10. CASE ExecuteHandler(w)
  <2>1. thread[w].pc = "execute" /\ UNCHANGED tasks
    BY <1>10 DEF ExecuteHandler, At
  <2>2. thread'[w].pc \in {"markCompleted", "retry", "markFailed"}
    BY <1>3, <1>10 DEF ExecuteHandler, FailurePC
  <2> QED BY <2>1, <2>2 DEF Passes
<1>11. ~(MarkUnknown(w) \/ PublishUnknown(w) \/ FailUnknown(w))
  <2>1. ~MarkUnknown(w)
    BY <1>1 DEF MarkUnknown, At, Row, Sound, StageInv, GoodRow, Dependable
  <2> QED BY <1>1, <2>1 DEF PublishUnknown, FailUnknown, At, StatusOK, Dependable
<1>12. CASE Retry(w)
  <2>1. thread[w].pc = "retry" /\ RowMatches(t, thread[w].version)
    BY <1>1, <1>12 DEF Retry, At, SnapshotOK, RowMatches
  <2>2. tasks' = Retried(t, thread[w].version) /\ Goto(w, "pushRetry")
    BY <1>1, <1>4, <1>12, <2>1 DEF Retry, IncrementRetryCount
  <2>3. /\ Retried(t, thread[w].version)[t].status = "PENDING"
        /\ Retried(t, thread[w].version)[t].retryCount = tasks[t].retryCount + 1
    BY <1>1 DEF Retried, Task
  <2> QED BY <1>3, <2>1, <2>2, <2>3 DEF Passes
<1>13. CASE PushRetry(w)
  BY <1>3, <1>13 DEF PushRetry, At, Passes
<1>14. CASE FailTask(w)
  <2>1. thread[w].pc = "markFailed" /\ tasks' = Marked(t, "FAILED") /\ Goto(w, "failWorkflow")
    BY <1>1, <1>4, <1>14 DEF FailTask, At, MarkFailed
  <2> QED BY <1>3, <1>5, <2>1 DEF Passes
<1>15. CASE FailWorkflow(w)
  BY <1>3, <1>15 DEF FailWorkflow, At, Passes
<1>16. CASE CompleteTask(w)
  <2>1. /\ thread[w].pc = "markCompleted" /\ tasks' = Marked(t, "COMPLETED")
        /\ Goto(w, "publishCompleted")
    BY <1>1, <1>4, <1>16 DEF CompleteTask, At, MarkCompleted
  <2> QED BY <1>3, <1>5, <2>1 DEF Passes
<1>17. CASE PublishSkipped(w) \/ PublishFailed(w) \/ PublishCompleted(w)
  BY <1>3, <1>17 DEF PublishSkipped, PublishFailed, PublishCompleted, At, Passes
<1> QED
  BY <1>6, <1>7, <1>8, <1>9, <1>10, <1>11, <1>12, <1>13, <1>14, <1>15, <1>16, <1>17
  DEF WorkerAction, ProcessNextTask

-----------------------------------------------------------------------------
(* A thread's step can move its own task into the sets that are counted, or *)
(* out of them, and no other task.                                          *)
LEMMA HeldMoves ==
  ASSUME Sound, NEW w \in Thread, NEW t, About(w, t)
  PROVE  /\ \A u \in DOMAIN tasks \ {t} :
              /\ \A pcs : u \in HeldAt(pcs)' <=> u \in HeldAt(pcs)
              /\ Released(thread', u) <=> Released(thread, u)
         /\ \A pcs : /\ t \in HeldAt(pcs) <=> thread[w].pc \in pcs \ {"pop"}
                     /\ t \in HeldAt(pcs)' <=> thread'[w].pc \in pcs \ {"pop"}
                     /\ HeldAt(pcs) \subseteq DOMAIN tasks
                     /\ HeldAt(pcs)' \subseteq DOMAIN tasks
         /\ Released(thread, t) <=> thread[w].pc = "pop"
         /\ Released(thread', t) <=> thread'[w].pc = "pop"
<1>1. ASSUME NEW u \in DOMAIN tasks \ {t}, NEW v \in Thread
      PROVE  (thread'[v].pc # "pop" /\ thread'[v].task = u)
               <=> (thread[v].pc # "pop" /\ thread[v].task = u)
  BY DEF About
<1>2. ASSUME NEW u \in DOMAIN tasks \ {t}, NEW v \in Thread,
             thread[v].pc # "pop" /\ thread[v].task = u
      PROVE  thread'[v] = thread[v]
  BY <1>2 DEF About
<1>3. ASSUME NEW u \in DOMAIN tasks \ {t}
      PROVE  /\ \A pcs : u \in HeldAt(pcs)' <=> u \in HeldAt(pcs)
             /\ Released(thread', u) <=> Released(thread, u)
  <2>1. ASSUME NEW pcs PROVE u \in HeldAt(pcs)' <=> u \in HeldAt(pcs)
    BY <1>1, <1>2 DEF HeldAt, Holds, About
  <2>2. Released(thread', u) <=> Released(thread, u)
    BY <1>1 DEF Released
  <2> QED BY <2>1, <2>2
<1>4. \A v \in Thread \ {w} : /\ ~(thread[v].pc # "pop" /\ thread[v].task = t)
                              /\ ~(thread'[v].pc # "pop" /\ thread'[v].task = t)
  BY DEF About, Holds
<1>5. ASSUME NEW pcs
      PROVE  /\ t \in HeldAt(pcs) <=> thread[w].pc \in pcs \ {"pop"}
             /\ t \in HeldAt(pcs)' <=> thread'[w].pc \in pcs \ {"pop"}
             /\ HeldAt(pcs) \subseteq DOMAIN tasks
             /\ HeldAt(pcs)' \subseteq DOMAIN tasks
  BY <1>4 DEF HeldAt, Holds, About
<1>6. /\ Released(thread, t) <=> thread[w].pc = "pop"
      /\ Released(thread', t) <=> thread'[w].pc = "pop"
  BY <1>4 DEF Released, About
<1> QED BY <1>3, <1>5, <1>6

(* The retries of other tasks stay what they are. *)
LEMMA RetriesMove ==
  ASSUME TableOK(tasks), DOMAIN tasks' = DOMAIN tasks, NEW t \in DOMAIN tasks,
         \A u \in DOMAIN tasks \ {t} : tasks'[u].retryCount = tasks[u].retryCount
  PROVE  /\ tasks'[t].retryCount = tasks[t].retryCount => RetriesMade' = RetriesMade
         /\ tasks'[t].retryCount = tasks[t].retryCount + 1 =>
              \E retry : /\ retry \notin RetriesMade /\ retry \in RetriesMade'
                         /\ RetriesMade' \ {retry} = RetriesMade \ {retry}
<1>1. \A u \in DOMAIN tasks : tasks[u].retryCount \in Nat
  BY DEF TableOK, Task
<1>2. \A p : /\ p \in RetriesMade <=>
                  \E u \in DOMAIN tasks : \E n \in 1 .. tasks[u].retryCount : p = <<u, n>>
             /\ p \in RetriesMade' <=>
                  \E u \in DOMAIN tasks : \E n \in 1 .. tasks'[u].retryCount : p = <<u, n>>
  BY DEF RetriesMade
<1>3. ASSUME tasks'[t].retryCount = tasks[t].retryCount
      PROVE  RetriesMade' = RetriesMade
  <2>1. \A u \in DOMAIN tasks : tasks'[u].retryCount = tasks[u].retryCount
    BY <1>3
  <2> QED BY <2>1 DEF RetriesMade
<1>4. ASSUME tasks'[t].retryCount = tasks[t].retryCount + 1
      PROVE  \E retry : /\ retry \notin RetriesMade /\ retry \in RetriesMade'
                        /\ RetriesMade' \ {retry} = RetriesMade \ {retry}
  <2>1. PICK n \in Nat : n = tasks[t].retryCount + 1
    BY <1>1
  <2>2. \A k : /\ k \in 1 .. tasks'[t].retryCount <=> k \in 1 .. tasks[t].retryCount \/ k = n
               /\ k = n => k \notin 1 .. tasks[t].retryCount
    BY <1>1, <1>4, <2>1
  <2>3. <<t, n>> \notin RetriesMade /\ <<t, n>> \in RetriesMade'
    BY <1>2, <2>2
  <2>4. ASSUME NEW p, p # <<t, n>> PROVE p \in RetriesMade' <=> p \in RetriesMade
    BY <1>2, <2>2, <2>4
  <2>5. RetriesMade' \ {<<t, n>>} = RetriesMade \ {<<t, n>>}
    BY <2>4
  <2> QED BY <2>3, <2>5
<1> QED BY <1>3, <1>4

(* How one element's coming and going changes the size of a set. *)
Turns(S, T, x) ==
  /\ IsFiniteSet(T) /\ Cardinality(S) \in Nat /\ Cardinality(T) \in Nat
  /\ Cardinality(T) + Once(x \in S) = Cardinality(S) + Once(x \in T)

LEMMA TaskSetsTurn ==
  ASSUME Sound, LedgerInv, NEW w \in Thread, NEW t, About(w, t)
  PROVE  /\ \A status : Turns(Ended(status), Ended(status)', t)
         /\ \A pcs : Turns(HeldAt(pcs), HeldAt(pcs)', t)
         /\ Turns(SkipsReported, SkipsReported', t)
         /\ Turns(Attended, Attended', t)
         /\ Turns(Ran, Ran', t)
         /\ Turns(Attempts, Attempts', t)
<1>1. ASSUME NEW S \in SUBSET DOMAIN tasks, NEW T \in SUBSET DOMAIN tasks,
             \A u \in DOMAIN tasks \ {t} : u \in T <=> u \in S
      PROVE  Turns(S, T, t)
  <2>1. IsFiniteSet(S)
    BY FS_Subset DEF LedgerInv
  <2>2. T \ {t} = S \ {t}
    BY <1>1
  <2> QED BY <2>1, <2>2, OneMoves DEF Turns
<1>2. /\ DOMAIN tasks' = DOMAIN tasks
      /\ \A u \in DOMAIN tasks \ {t} : tasks'[u] = tasks[u]
  BY DEF About
<1>3. \A u \in DOMAIN tasks \ {t} :
        /\ \A pcs : u \in HeldAt(pcs)' <=> u \in HeldAt(pcs)
        /\ Released(thread', u) <=> Released(thread, u)
  BY HeldMoves
<1>4. \A pcs : HeldAt(pcs) \subseteq DOMAIN tasks /\ HeldAt(pcs)' \subseteq DOMAIN tasks
  BY HeldMoves
<1>5. ASSUME NEW status PROVE Turns(Ended(status), Ended(status)', t)
  BY <1>1, <1>2 DEF Ended
<1>6. ASSUME NEW pcs PROVE Turns(HeldAt(pcs), HeldAt(pcs)', t)
  BY <1>1, <1>3, <1>4
<1>7. Turns(SkipsReported, SkipsReported', t)
  BY <1>1, <1>2, <1>3 DEF SkipsReported, Ended
<1>8. Turns(Attended, Attended', t)
  BY <1>1, <1>2, <1>3, <1>4 DEF Attended
<1>9. Turns(Ran, Ran', t)
  BY <1>1, <1>2, <1>3, <1>4 DEF Ran, Ended
<1>10. Turns(Attempts, Attempts', t)
  BY <1>6 DEF Attempts
<1> QED BY <1>5, <1>6, <1>7, <1>8, <1>9, <1>10

(* Where the thread's task is counted, by the call the thread makes next.   *)
LEMMA SubjectCounted ==
  ASSUME Sound, NEW w \in Thread, NEW t, About(w, t)
  PROVE  /\ \A status : /\ t \in Ended(status) <=> tasks[t].status = status
                        /\ t \in Ended(status)' <=> tasks'[t].status = status
         /\ t \in SkipsReported <=> tasks[t].status = "SKIPPED" /\ thread[w].pc = "pop"
         /\ t \in SkipsReported' <=> tasks'[t].status = "SKIPPED" /\ thread'[w].pc = "pop"
         /\ t \in Attended <=>
              \/ tasks[t].status \in Terminal
              \/ thread[w].pc \in ThreadPC \ {"pop", "find", "retry", "pushRetry"}
         /\ t \in Attended' <=>
              \/ tasks'[t].status \in Terminal
              \/ thread'[w].pc \in ThreadPC \ {"pop", "find", "retry", "pushRetry"}
         /\ t \in Ran <=> \/ tasks[t].status \in {"COMPLETED", "FAILED"}
                          \/ thread[w].pc \in {"markFailed", "markCompleted"}
         /\ t \in Ran' <=> \/ tasks'[t].status \in {"COMPLETED", "FAILED"}
                           \/ thread'[w].pc \in {"markFailed", "markCompleted"}
         /\ t \in Attempts <=>
              thread[w].pc \in ThreadPC \ {"pop", "find", "skip", "publishSkipped", "claim"}
         /\ t \in Attempts' <=>
              thread'[w].pc \in ThreadPC \ {"pop", "find", "skip", "publishSkipped", "claim"}
<1>1. t \in DOMAIN tasks /\ t \in DOMAIN tasks'
  BY DEF About
<1>2. \A pcs : /\ t \in HeldAt(pcs) <=> thread[w].pc \in pcs \ {"pop"}
               /\ t \in HeldAt(pcs)' <=> thread'[w].pc \in pcs \ {"pop"}
  BY HeldMoves
<1>3. /\ Released(thread, t) <=> thread[w].pc = "pop"
      /\ Released(thread', t) <=> thread'[w].pc = "pop"
  BY HeldMoves
<1>4. \A status : /\ t \in Ended(status) <=> tasks[t].status = status
                  /\ t \in Ended(status)' <=> tasks'[t].status = status
  BY <1>1 DEF Ended
<1>5. /\ t \in SkipsReported <=> tasks[t].status = "SKIPPED" /\ thread[w].pc = "pop"
      /\ t \in SkipsReported' <=> tasks'[t].status = "SKIPPED" /\ thread'[w].pc = "pop"
  BY <1>3, <1>4 DEF SkipsReported
<1>6. /\ t \in Attended <=>
           \/ tasks[t].status \in Terminal
           \/ thread[w].pc \in ThreadPC \ {"pop", "find", "retry", "pushRetry"}
      /\ t \in Attended' <=>
           \/ tasks'[t].status \in Terminal
           \/ thread'[w].pc \in ThreadPC \ {"pop", "find", "retry", "pushRetry"}
  BY <1>1, <1>2 DEF Attended
<1>7. /\ t \in Ran <=> \/ tasks[t].status \in {"COMPLETED", "FAILED"}
                       \/ thread[w].pc \in {"markFailed", "markCompleted"}
      /\ t \in Ran' <=> \/ tasks'[t].status \in {"COMPLETED", "FAILED"}
                        \/ thread'[w].pc \in {"markFailed", "markCompleted"}
  BY <1>2, <1>4 DEF Ran
<1>8. /\ t \in Attempts <=>
           thread[w].pc \in ThreadPC \ {"pop", "find", "skip", "publishSkipped", "claim"}
      /\ t \in Attempts' <=>
           thread'[w].pc \in ThreadPC \ {"pop", "find", "skip", "publishSkipped", "claim"}
  BY <1>2 DEF Attempts
<1> QED BY <1>4, <1>5, <1>6, <1>7, <1>8

(* What the thread counts in the step is that coming and going.             *)
LEMMA StepCounts ==
  ASSUME Dependable, Sound, NEW w \in Thread, WorkerAction(w), NoFault, NEW t, About(w, t)
  PROVE  /\ Once(t \in Ended("COMPLETED")') =
              Once(t \in Ended("COMPLETED")) + Once(At(w, "markCompleted"))
         /\ Once(t \in Ended("FAILED")') = Once(t \in Ended("FAILED")) + Once(At(w, "markFailed"))
         /\ Once(t \in SkipsReported') = Once(t \in SkipsReported) + Once(At(w, "publishSkipped"))
         /\ Once(t \in Attended') + Once(thread'[w].pc = "retry") =
              Once(t \in Attended) + Once(At(w, "find") /\ thread'[w].pc # "pop")
         /\ Once(t \in Ran') + Once(thread'[w].pc = "retry") =
              Once(t \in Ran) + Once(At(w, "execute"))
         /\ Once(t \in Attempts') + Once(InAttempt(thread[w])) =
              Once(t \in Attempts) + Once(InAttempt(thread'[w]))
         /\ ~(At(w, "claim") /\ thread'[w].pc = "pop") /\ ~LockConflict(w) /\ ~UnknownAction(w)
<1> DEFINE pc == thread[w].pc
           next == thread'[w].pc
           old == tasks[t].status
           new == tasks'[t].status
<1>1. Passes(w, t)
  BY FaultFreeStep
<1>2. /\ pc \in {"skip", "find", "claim", "pushRetry"} => old \in Waiting
      /\ pc \in {"execute", "retry", "markFailed", "markCompleted"} => old = "RUNNING"
      /\ pc = "publishSkipped" => old = "SKIPPED"
      /\ pc = "publishCompleted" => old = "COMPLETED"
      /\ pc \in {"failWorkflow", "publishFailed"} => old = "FAILED"
  <2>1. pc # "pop" => thread[w].task = t
    BY DEF About
  <2>2. pc # "pop" => StatusOK(pc, old)
    BY <2>1 DEF Sound, StageInv
  <2>3. /\ pc = "publishCompleted" => old = "COMPLETED"
        /\ pc \in {"failWorkflow", "publishFailed"} => old = "FAILED"
    BY <2>1 DEF Sound, EndedInv, Row
  <2> QED BY <2>2, <2>3 DEF StatusOK, Dependable
<1>3. \/ pc = "pop" /\ next = "find" /\ new = old /\ old \in Waiting
      \/ pc = "find" /\ next \in {"skip", "claim"} /\ new = old
      \/ pc = "execute" /\ next \in {"markCompleted", "retry", "markFailed"} /\ new = old
      \/ pc = "failWorkflow" /\ next = "publishFailed" /\ new = old
      \/ pc = "pushRetry" /\ next = "pop" /\ new = old
      \/ pc \in {"publishSkipped", "publishFailed", "publishCompleted"} /\ next = "pop"
           /\ new = old
      \/ pc = "skip" /\ next = "publishSkipped" /\ new = "SKIPPED"
      \/ pc = "claim" /\ next = "execute" /\ new = "RUNNING"
      \/ pc = "markCompleted" /\ next = "publishCompleted" /\ new = "COMPLETED"
      \/ pc = "markFailed" /\ next = "failWorkflow" /\ new = "FAILED"
      \/ pc = "retry" /\ next = "pushRetry" /\ new = "PENDING"
  BY <1>1 DEF Passes
<1>4. /\ \A name : At(w, name) <=> pc = name
      /\ InAttempt(thread[w]) <=> pc \notin {"pop", "find", "skip", "publishSkipped", "claim"}
      /\ InAttempt(thread'[w]) <=> next \notin {"pop", "find", "skip", "publishSkipped", "claim"}
      /\ pc \in ThreadPC /\ next \in ThreadPC
  BY <1>3 DEF At, InAttempt, ThreadPC
<1>5. /\ t \in Ended("COMPLETED") <=> old = "COMPLETED"
      /\ t \in Ended("COMPLETED")' <=> new = "COMPLETED"
      /\ t \in Ended("FAILED") <=> old = "FAILED"
      /\ t \in Ended("FAILED")' <=> new = "FAILED"
      /\ t \in SkipsReported <=> old = "SKIPPED" /\ pc = "pop"
      /\ t \in SkipsReported' <=> new = "SKIPPED" /\ next = "pop"
      /\ t \in Attended <=>
           old \in Terminal \/ pc \notin {"pop", "find", "retry", "pushRetry"}
      /\ t \in Attended' <=>
           new \in Terminal \/ next \notin {"pop", "find", "retry", "pushRetry"}
      /\ t \in Ran <=> old \in {"COMPLETED", "FAILED"} \/ pc \in {"markFailed", "markCompleted"}
      /\ t \in Ran' <=> new \in {"COMPLETED", "FAILED"} \/ next \in {"markFailed", "markCompleted"}
      /\ t \in Attempts <=> pc \notin {"pop", "find", "skip", "publishSkipped", "claim"}
      /\ t \in Attempts' <=> next \notin {"pop", "find", "skip", "publishSkipped", "claim"}
  BY <1>4, SubjectCounted
<1>6. ~LockConflict(w) /\ ~UnknownAction(w)
  <2>1. thread[w].pc # "pop" =>
          /\ thread[w].task = t /\ t \in DOMAIN tasks
          /\ GoodRow(tasks[t]) /\ SnapshotOK(thread[w], tasks[t])
    BY DEF About, Sound, StageInv
  <2>2. ~LockConflict(w)
    BY <2>1 DEF LockConflict, At, SnapshotOK, RowMatches
  <2> QED BY <2>1, <2>2 DEF UnknownAction, At, Row, GoodRow, Dependable
<1> HIDE DEF pc, next, old, new
<1>7. Once(t \in Ended("COMPLETED")') =
        Once(t \in Ended("COMPLETED")) + Once(At(w, "markCompleted"))
  BY <1>2, <1>3, <1>4, <1>5 DEF Once, Waiting
<1>8. Once(t \in Ended("FAILED")') = Once(t \in Ended("FAILED")) + Once(At(w, "markFailed"))
  BY <1>2, <1>3, <1>4, <1>5 DEF Once, Waiting
<1>9. Once(t \in SkipsReported') = Once(t \in SkipsReported) + Once(At(w, "publishSkipped"))
  BY <1>2, <1>3, <1>4, <1>5 DEF Once, Waiting
<1>10. Once(t \in Attended') + Once(thread'[w].pc = "retry") =
         Once(t \in Attended) + Once(At(w, "find") /\ thread'[w].pc # "pop")
  BY <1>2, <1>3, <1>4, <1>5 DEF Once, Waiting, Terminal, next
<1>11. Once(t \in Ran') + Once(thread'[w].pc = "retry") =
         Once(t \in Ran) + Once(At(w, "execute"))
  BY <1>2, <1>3, <1>4, <1>5 DEF Once, Waiting, next
<1>12. Once(t \in Attempts') + Once(InAttempt(thread[w])) =
         Once(t \in Attempts) + Once(InAttempt(thread'[w]))
  BY <1>4, <1>5 DEF Once
<1>13. ~(At(w, "claim") /\ thread'[w].pc = "pop")
  BY <1>3, <1>4 DEF next
<1> QED BY <1>6, <1>7, <1>8, <1>9, <1>10, <1>11, <1>12, <1>13

LEMMA RetryCounts ==
  ASSUME Dependable, Sound, NEW w \in Thread, WorkerAction(w), NoFault,
         NEW t, About(w, t), IsFiniteSet(RetriesMade)
  PROVE  /\ IsFiniteSet(RetriesMade')
         /\ Cardinality(RetriesMade) \in Nat /\ Cardinality(RetriesMade') \in Nat
         /\ Cardinality(RetriesMade') = Cardinality(RetriesMade) + Once(At(w, "retry"))
<1>1. Passes(w, t)
  BY FaultFreeStep
<1>2. /\ TableOK(tasks) /\ DOMAIN tasks' = DOMAIN tasks /\ t \in DOMAIN tasks
      /\ \A u \in DOMAIN tasks \ {t} : tasks'[u].retryCount = tasks[u].retryCount
  BY DEF About, Sound, TypeOK, TaskRepositoryTypeOK, TableOK
<1>3. IF At(w, "retry") THEN tasks'[t].retryCount = tasks[t].retryCount + 1
      ELSE tasks'[t].retryCount = tasks[t].retryCount
  BY <1>1 DEF Passes, At
<1>4. CASE ~At(w, "retry")
  <2>1. RetriesMade' = RetriesMade
    BY <1>2, <1>3, <1>4, RetriesMove
  <2> QED BY <1>4, <2>1, FS_CardinalityType DEF Once
<1>5. CASE At(w, "retry")
  <2>1. PICK retry : /\ retry \notin RetriesMade /\ retry \in RetriesMade'
                     /\ RetriesMade' \ {retry} = RetriesMade \ {retry}
    BY <1>2, <1>3, <1>5, RetriesMove
  <2>2. /\ IsFiniteSet(RetriesMade')
        /\ Cardinality(RetriesMade) \in Nat /\ Cardinality(RetriesMade') \in Nat
        /\ Cardinality(RetriesMade') + Once(retry \in RetriesMade) =
             Cardinality(RetriesMade) + Once(retry \in RetriesMade')
    BY <2>1, OneMoves
  <2> QED BY <1>5, <2>1, <2>2 DEF Once
<1> QED BY <1>4, <1>5

LEMMA ThreadKeepsTaskBalance ==
  ASSUME Dependable, Sound, LedgerInv, TaskBalance, NEW w \in Thread, WorkerAction(w),
         CountTask(w), NoFault
  PROVE  TaskBalance'
<1>1. PICK t : About(w, t)
  BY ThreadSubject
<1>2. /\ \A s \in Series : metrics[s] \in Int
      /\ metrics'.success = metrics.success + Once(At(w, "markCompleted"))
      /\ metrics'.failed = metrics.failed + Once(At(w, "markFailed") \/ UnknownAction(w))
      /\ metrics'.skipped = metrics.skipped + Once(At(w, "publishSkipped"))
      /\ metrics'.exhausted = metrics.exhausted + Once(At(w, "markFailed"))
      /\ metrics'.retries = metrics.retries + Once(thread'[w].pc = "retry")
      /\ metrics'.queueWaits = metrics.queueWaits + Once(At(w, "find") /\ thread'[w].pc # "pop")
      /\ metrics'.handlerRuns = metrics.handlerRuns + Once(At(w, "execute") /\ ~UnknownAction(w))
      /\ metrics'.active =
           metrics.active + (Once(InAttempt(thread'[w])) - Once(InAttempt(thread[w])))
      /\ metrics'.claimFailures =
           metrics.claimFailures + Once(At(w, "claim") /\ thread'[w].pc = "pop")
      /\ metrics'.lockConflicts = metrics.lockConflicts + Once(LockConflict(w))
  BY TaskSeries DEF LedgerInv, MetricsTypeOK
<1>3. /\ Once(t \in Ended("COMPLETED")') =
           Once(t \in Ended("COMPLETED")) + Once(At(w, "markCompleted"))
      /\ Once(t \in Ended("FAILED")') = Once(t \in Ended("FAILED")) + Once(At(w, "markFailed"))
      /\ Once(t \in SkipsReported') = Once(t \in SkipsReported) + Once(At(w, "publishSkipped"))
      /\ Once(t \in Attended') + Once(thread'[w].pc = "retry") =
           Once(t \in Attended) + Once(At(w, "find") /\ thread'[w].pc # "pop")
      /\ Once(t \in Ran') + Once(thread'[w].pc = "retry") =
           Once(t \in Ran) + Once(At(w, "execute"))
      /\ Once(t \in Attempts') + Once(InAttempt(thread[w])) =
           Once(t \in Attempts) + Once(InAttempt(thread'[w]))
      /\ ~(At(w, "claim") /\ thread'[w].pc = "pop") /\ ~LockConflict(w) /\ ~UnknownAction(w)
  BY <1>1, StepCounts
<1>4. /\ Turns(Ended("COMPLETED"), Ended("COMPLETED")', t)
      /\ Turns(Ended("FAILED"), Ended("FAILED")', t)
      /\ Turns(HeldAt({"retry"}), HeldAt({"retry"})', t)
      /\ Turns(SkipsReported, SkipsReported', t)
      /\ Turns(Attended, Attended', t) /\ Turns(Ran, Ran', t) /\ Turns(Attempts, Attempts', t)
  BY <1>1, TaskSetsTurn
<1>5. /\ IsFiniteSet(RetriesMade')
      /\ Cardinality(RetriesMade) \in Nat /\ Cardinality(RetriesMade') \in Nat
      /\ Cardinality(RetriesMade') = Cardinality(RetriesMade) + Once(At(w, "retry"))
  BY <1>1, RetryCounts DEF TaskBalance
<1>6. /\ Once(t \in HeldAt({"retry"})) = Once(At(w, "retry"))
      /\ Once(t \in HeldAt({"retry"})') = Once(thread'[w].pc = "retry")
  BY <1>1, HeldMoves DEF Once, At
<1>7. /\ metrics.success \in Int /\ metrics.failed \in Int /\ metrics.skipped \in Int
      /\ metrics.exhausted \in Int /\ metrics.retries \in Int /\ metrics.queueWaits \in Int
      /\ metrics.handlerRuns \in Int /\ metrics.active \in Int
      /\ metrics.claimFailures \in Int /\ metrics.lockConflicts \in Int
  BY <1>2, SeriesNames
<1>8. metrics'.success = Cardinality(Ended("COMPLETED")')
  BY <1>2, <1>3, <1>4, <1>7 DEF Turns, TaskBalance, Once
<1>9. /\ metrics'.failed = Cardinality(Ended("FAILED")')
      /\ metrics'.exhausted = Cardinality(Ended("FAILED")')
  BY <1>2, <1>3, <1>4, <1>7 DEF Turns, TaskBalance, Once
<1>10. metrics'.skipped = Cardinality(SkipsReported')
  BY <1>2, <1>3, <1>4, <1>7 DEF Turns, TaskBalance, Once
<1>11. metrics'.retries = Cardinality(RetriesMade') + Cardinality(HeldAt({"retry"})')
  BY <1>2, <1>4, <1>5, <1>6, <1>7 DEF Turns, TaskBalance, Once
<1>12. metrics'.queueWaits = metrics'.retries + Cardinality(Attended')
  BY <1>2, <1>3, <1>4, <1>7 DEF Turns, TaskBalance, Once
<1>13. metrics'.handlerRuns = metrics'.retries + Cardinality(Ran')
  BY <1>2, <1>3, <1>4, <1>7 DEF Turns, TaskBalance, Once
<1>14. metrics'.active = Cardinality(Attempts')
  BY <1>2, <1>3, <1>4, <1>7 DEF Turns, TaskBalance, Once
<1>15. metrics'.claimFailures = 0 /\ metrics'.lockConflicts = 0
  BY <1>2, <1>3, <1>7 DEF TaskBalance, Once
<1> QED BY <1>5, <1>8, <1>9, <1>10, <1>11, <1>12, <1>13, <1>14, <1>15 DEF TaskBalance

-----------------------------------------------------------------------------
(* A thread publishes about its own task, each kind of event in its channel. *)
Publishes(w) ==
  \E c \in ChannelName, type \in {"completed", "failed", "skipped"} :
    /\ thread[w].pc # "pop" /\ (c = "completed" <=> type = "completed")
    /\ Publish(c, Event(thread[w].task, tasks[thread[w].task], type))

LEMMA ThreadPublishes ==
  ASSUME NEW w \in Thread, WorkerAction(w)
  PROVE  UNCHANGED channel \/ Publishes(w)
<1>1. CASE PublishCompleted(w)
  <2>1. "completed" \in ChannelName
    BY DEF ChannelName
  <2> QED BY <1>1, <2>1 DEF PublishCompleted, PublishTaskCompleted, Row, At, Publishes
<1>2. CASE PublishSkipped(w) \/ PublishFailed(w) \/ PublishUnknown(w)
  <2>1. "terminated" \in ChannelName
    BY DEF ChannelName
  <2> QED BY <1>2, <2>1 DEF PublishSkipped, PublishFailed, PublishUnknown,
             PublishTaskTerminated, Row, At, Publishes
<1>3. CASE ~(PublishCompleted(w) \/ PublishSkipped(w) \/ PublishFailed(w) \/ PublishUnknown(w))
  BY <1>3 DEF WorkerAction, ProcessNextTask, PopTask, FindTask, SkipTask, Claim, ExecuteHandler,
     MarkUnknown, FailUnknown, Retry, PushRetry, FailTask, FailWorkflow, CompleteTask, busVars
<1> QED BY <1>1, <1>2, <1>3

LEMMA ThreadKeepsChannels ==
  ASSUME Steady, Sound, Subscribers, NEW w \in Thread, WorkerAction(w), NEW t, About(w, t)
  PROVE  /\ \A u \in DOMAIN tasks \ {t} : Announced(u)' <=> Announced(u)
         /\ SortedEvents => SortedEvents'
<1>1. CASE UNCHANGED channel
  BY <1>1 DEF Announced, SortedEvents
<1>2. CASE Publishes(w)
  <2>1. PICK ch \in ChannelName, type \in {"completed", "failed", "skipped"} :
          /\ thread[w].task = t /\ (ch = "completed" <=> type = "completed")
          /\ Publish(ch, Event(t, tasks[t], type))
    BY <1>2 DEF Publishes, About
  <2> DEFINE event == Event(t, tasks[t], type)
  <2>2. event.taskID = t /\ event.type = type
    BY DEF Event
  <2> HIDE DEF event
  <2>3. /\ RedisEventBusTypeOK /\ "dupPublish" \notin FaultKinds
    BY DEF Sound, TypeOK, Steady, Dependable
  <2>4. \A c \in ChannelName : \A i \in DOMAIN channel'[c] :
          \/ i \in DOMAIN channel[c] /\ channel'[c][i] = channel[c][i]
          \/ channel'[c][i] = event /\ c = ch
    BY <2>1, <2>3, OneMessage DEF event
  <2>5. \A c \in ChannelName : \A i \in DOMAIN channel[c] :
          i \in DOMAIN channel'[c] /\ channel'[c][i] = channel[c][i]
    BY <2>1, PublishArrives DEF Sound, event
  <2>6. \A u \in DOMAIN tasks \ {t} : Announced(u)' <=> Announced(u)
    BY <2>2, <2>4, <2>5 DEF Announced
  <2>7. SortedEvents => SortedEvents'
    BY <2>1, <2>2, <2>4 DEF SortedEvents, ChannelName
  <2> QED BY <2>6, <2>7
<1> QED BY <1>1, <1>2, ThreadPublishes

LEMMA ThreadKeepsReceived ==
  ASSUME Steady, Sound, Subscribers, NEW w \in Thread, WorkerAction(w), NoFault,
         NEW ends \in SUBSET Terminal
  PROVE  Received(ends)' = Received(ends)
<1>1. PICK t : About(w, t)
  BY ThreadSubject
<1>2. DOMAIN tasks' = DOMAIN tasks /\ t \in DOMAIN tasks
      /\ \A u \in DOMAIN tasks \ {t} : tasks'[u] = tasks[u]
  BY <1>1 DEF About
<1>3. \A u \in DOMAIN tasks \ {t} : u \in Received(ends)' <=> u \in Received(ends)
  BY <1>1, <1>2, HeldMoves, ThreadKeepsChannels DEF Received
<1>4. /\ Released(thread, t) <=> thread[w].pc = "pop"
      /\ Released(thread', t) <=> thread'[w].pc = "pop"
  BY <1>1, HeldMoves
<1>5. Passes(w, t)
  BY <1>1, FaultFreeStep DEF Steady
<1>6. t \notin Received(ends)
  BY <1>4, <1>5 DEF Received, Passes, Waiting, Terminal
<1>7. t \notin Received(ends)'
  <2> SUFFICES ASSUME tasks'[t].status \in Terminal, thread'[w].pc = "pop" PROVE Announced(t)'
    BY <1>4 DEF Received
  <2>1. thread[w].pc # "pop" /\ Holds(w, t) /\ ~Holds(w, t)'
    BY <1>1, <1>5 DEF Passes, About, Holds
  <2>2. ~Fault("publish")
    BY FaultFree DEF Sound
  <2> QED BY <1>2, <2>1, <2>2, ReleaseAnnounces DEF Sound, Announced
<1> QED BY <1>2, <1>3, <1>6, <1>7 DEF Received

(* A step that leaves the tables' graph and the in-degrees alone frees nobody. *)
LEMMA NobodyFreed ==
  ASSUME Sound, [Next]_vars, DOMAIN tasks' = DOMAIN tasks, SameInDegrees(tasks')
  PROVE  Freed' = Freed
<1>1. \A t \in DOMAIN tasks : /\ tasks'[t].dependencies = tasks[t].dependencies
                              /\ tasks'[t].inDegree = tasks[t].inDegree
  BY RowsStay DEF Sound, SameName, SameInDegrees
<1> QED BY <1>1 DEF Freed

(* A row of the executions' table never goes away. *)
LEMMA ExecutionsStay ==
  ASSUME Sound, [Next]_vars, NEW e \in Execution, executions[e] # "absent"
  PROVE  executions'[e] # "absent"
<1>1. WorkflowRepositoryTypeOK
  BY DEF Sound, TypeOK
<1>2. \A d, status : status # "absent" /\ executions' = Updated(d, status) =>
        executions'[e] # "absent"
  BY <1>1 DEF Updated, WorkflowRepositoryTypeOK
<1> QED
  BY <1>1, <1>2, ExecutionMoves DEF FailsExecution, CompletesExecution,
     WorkflowRepositoryTypeOK

LEMMA ThreadKeepsBalance ==
  ASSUME Steady, Running, BalanceInv, NEW w \in Thread, WorkerAction(w), CountTask(w),
         UNCHANGED readyTaskIDs, NoFault
  PROVE  BalanceInv'
<1> SUFFICES ASSUME faults = 0
             PROVE  TaskBalance' /\ EventBalance' /\ RequestBalance' /\ SortedEvents'
  BY DEF BalanceInv, NoFault
<1>1. /\ Sound /\ LedgerInv /\ Subscribers /\ Dependable
      /\ TaskBalance /\ EventBalance /\ RequestBalance /\ SortedEvents
  BY DEF Running, BalanceInv, Steady
<1>2. PICK t : About(w, t)
  BY <1>1, ThreadSubject
<1>3. TaskBalance'
  BY <1>1, ThreadKeepsTaskBalance
<1>4. SortedEvents'
  BY <1>1, <1>2, ThreadKeepsChannels
<1>5. \A s \in {"unblocked", "completedEvents", "terminatedEvents", "submitted"} :
        metrics'[s] = metrics[s]
  BY <1>1, TaskSeries DEF LedgerInv
<1>6. [Next]_vars /\ UNCHANGED <<coord, submit>>
  BY DEF Next, WorkerAction
<1>7. EventBalance'
  <2>1. /\ Received({"COMPLETED"})' = Received({"COMPLETED"})
        /\ Received({"FAILED", "SKIPPED"})' = Received({"FAILED", "SKIPPED"})
    BY <1>1, ThreadKeepsReceived DEF Terminal
  <2>2. ASSUME NEW u \in DOMAIN tasks PROVE tasks'[u].inDegree = tasks[u].inDegree
    BY <1>1, <1>6, <2>2, CountMoves DEF Sound, SameCount, CountedDown, Dependable
  <2>3. Freed' = Freed
    BY <1>1, <1>2, <1>6, <2>2, NobodyFreed DEF About, SameInDegrees
  <2> QED BY <1>1, <1>5, <2>1, <2>3 DEF EventBalance
<1>8. RequestBalance'
  <2>1. Created' = Created
    BY <1>6 DEF Created
  <2>2. \A e \in Execution : executions[e] # "absent" => executions'[e] # "absent"
    BY <1>1, <1>6, ExecutionsStay
  <2> QED BY <1>1, <1>5, <1>6, <2>1, <2>2 DEF RequestBalance
<1> QED BY <1>3, <1>4, <1>7, <1>8

-----------------------------------------------------------------------------
(* The coordinator ends no task and retries none: what threads count stays. *)
LEMMA CoordinatorKeepsRows ==
  ASSUME Sound, CoordinatorAction
  PROVE  /\ UNCHANGED <<thread, submit>> /\ DOMAIN tasks' = DOMAIN tasks
         /\ \A t \in DOMAIN tasks : /\ tasks'[t].retryCount = tasks[t].retryCount
                                    /\ \A status \in Terminal :
                                         tasks'[t].status = status <=> tasks[t].status = status
<1>1. UNCHANGED <<thread, submit>>
  BY DEF CoordinatorAction
<1>2. CASE UNCHANGED tasks
  BY <1>1, <1>2
<1>3. ASSUME NEW skip \in BOOLEAN, CountsDown(skip)
      PROVE  /\ DOMAIN tasks' = DOMAIN tasks
             /\ \A t \in DOMAIN tasks :
                  /\ tasks'[t].retryCount = tasks[t].retryCount
                  /\ \A status \in Terminal :
                       tasks'[t].status = status <=> tasks[t].status = status
  <2>1. DOMAIN tasks' = DOMAIN tasks
    BY <1>3 DEF CountsDown
  <2>2. ASSUME NEW t \in DOMAIN tasks, tasks'[t] # tasks[t]
        PROVE  /\ tasks'[t].retryCount = tasks[t].retryCount
               /\ \A status \in Terminal :
                    tasks'[t].status = status <=> tasks[t].status = status
    <3>1. tasks[t] \in Task /\ GoodRow(tasks[t]) /\ tasks'[t] = DecrementedRow(tasks[t], skip)
      BY <1>3, <2>2 DEF Sound, TypeOK, TaskRepositoryTypeOK, StageInv, CountsDown
    <3>2. /\ tasks'[t].retryCount = tasks[t].retryCount
          /\ tasks[t].inDegree > 0 => tasks'[t].status \in Waiting
          /\ tasks[t].inDegree <= 0 => tasks'[t].status = tasks[t].status
      BY <3>1, DecrementedRows
    <3>3. tasks[t].inDegree > 0 => tasks[t].status = "PENDING"
      BY <3>1 DEF GoodRow
    <3>4. tasks[t].inDegree > 0 \/ tasks[t].inDegree <= 0
      BY <3>1 DEF Task
    <3> QED BY <3>2, <3>3, <3>4 DEF Terminal, Waiting
  <2> QED BY <2>1, <2>2
<1> QED BY <1>1, <1>2, <1>3, CoordinatorMoves

LEMMA EventsKeepTaskBalance ==
  ASSUME Sound, LedgerInv, TaskBalance, CoordinatorAction, CountEvent
  PROVE  TaskBalance'
<1>1. /\ UNCHANGED <<thread, submit>> /\ DOMAIN tasks' = DOMAIN tasks
      /\ \A t \in DOMAIN tasks : /\ tasks'[t].retryCount = tasks[t].retryCount
                                 /\ \A status \in Terminal :
                                      tasks'[t].status = status <=> tasks[t].status = status
  BY CoordinatorKeepsRows
<1>2. \A status \in Terminal : Ended(status)' = Ended(status)
  BY <1>1 DEF Ended
<1>3. "COMPLETED" \in Terminal /\ "FAILED" \in Terminal /\ "SKIPPED" \in Terminal
  BY DEF Terminal
<1>4. SkipsReported' = SkipsReported
  BY <1>1, <1>2, <1>3 DEF SkipsReported
<1>5. \A pcs : HeldAt(pcs)' = HeldAt(pcs)
  BY <1>1 DEF HeldAt, Holds
<1>6. Attended' = Attended
  <2>1. {t \in DOMAIN tasks' : tasks'[t].status \in Terminal}
          = {t \in DOMAIN tasks : tasks[t].status \in Terminal}
    BY <1>1
  <2> QED BY <1>5, <2>1 DEF Attended
<1>7. Ran' = Ran
  BY <1>2, <1>3, <1>5 DEF Ran
<1>8. Attempts' = Attempts
  BY <1>5 DEF Attempts
<1>9. RetriesMade' = RetriesMade
  BY <1>1 DEF RetriesMade
<1>10. \A s \in TaskSeriesNames : metrics'[s] = metrics[s]
  BY EventSeries DEF LedgerInv
<1> QED
  BY <1>2, <1>3, <1>4, <1>5, <1>6, <1>7, <1>8, <1>9, <1>10 DEF TaskBalance, TaskSeriesNames

(* An event that is taken is that of one task, received from then on.       *)
LEMMA EventTaken ==
  ASSUME Sound, SortedEvents, NEW ch \in ChannelName, ReceiveEvent(ch), UNCHANGED thread
  PROVE  /\ SortedEvents'
         /\ Takes(ch) /\ \A c \in ChannelName \ {ch} : ~Takes(c)
         /\ \E t \in DOMAIN tasks :
              /\ Announced(t) /\ ~Announced(t)' /\ Released(thread, t)
              /\ tasks[t].status = "COMPLETED" <=> ch = "completed"
              /\ tasks[t].status \in {"FAILED", "SKIPPED"} <=> ch = "terminated"
              /\ \A u \in DOMAIN tasks \ {t} : Announced(u)' <=> Announced(u)
<1>1. PICK j \in DOMAIN channel[ch] : Receive(ch, channel[ch][j])
  BY DEF ReceiveEvent
<1>2. PICK event : event = channel[ch][j]
  OBVIOUS
<1>3. /\ 1 \in DOMAIN channel[ch] /\ event = channel[ch][1]
      /\ \A c \in ChannelName : \A i \in DOMAIN channel'[c] :
           /\ i \in Int /\ i # 0
           /\ c = ch => i + 1 \in DOMAIN channel[c] /\ channel'[c][i] = channel[c][i + 1]
           /\ c # ch => i \in DOMAIN channel[c] /\ channel'[c][i] = channel[c][i]
  BY <1>1, <1>2, ReceivedMessage DEF Sound, TypeOK
<1>4. \A c \in ChannelName : \A i \in DOMAIN channel[c] :
        \/ channel[c][i] = event
        \/ \E k \in DOMAIN channel'[c] : channel'[c][k] = channel[c][i]
  BY <1>1, <1>2, UnreceivedStay DEF Sound, TypeOK
<1>5. SortedEvents'
  BY <1>3 DEF SortedEvents, ChannelName
<1>6. PICK t : t = event.taskID
  OBVIOUS
<1>7. /\ t \in DOMAIN tasks /\ Released(thread, t) /\ Reports(event.type, tasks[t].status)
  BY <1>3, <1>6 DEF Sound, RecordsInv, EventsInv, AboutARow, Settled
<1>8. event.type = "completed" <=> ch = "completed"
  BY <1>3 DEF SortedEvents, ChannelName
<1>9. /\ tasks[t].status = "COMPLETED" <=> ch = "completed"
      /\ tasks[t].status \in {"FAILED", "SKIPPED"} <=> ch = "terminated"
  BY <1>7, <1>8 DEF Reports, ChannelName
<1>10. Announced(t)
  BY <1>3, <1>6 DEF Announced
<1>11. ~Announced(t)'
  BY <1>3, <1>6 DEF Announced, Sound, EventsInv, UniqueEvents
<1>12. \A u \in DOMAIN tasks \ {t} : Announced(u)' <=> Announced(u)
  BY <1>3, <1>4, <1>6 DEF Announced
<1>13. Takes(ch) /\ \A c \in ChannelName \ {ch} : ~Takes(c)
  <2>1. channel'[ch] # channel[ch]
    BY <1>10, <1>11, <1>3, <1>6 DEF Announced
  <2>2. \A c \in ChannelName \ {ch} : channel'[c] = channel[c]
    BY <1>1 DEF Receive, Sound, TypeOK, RedisEventBusTypeOK
  <2> QED BY <2>1, <2>2 DEF Takes
<1> QED BY <1>5, <1>7, <1>9, <1>10, <1>11, <1>12, <1>13

LEMMA EventsKeepReceived ==
  ASSUME Sound, LedgerInv, SortedEvents, CoordinatorAction
  PROVE  /\ SortedEvents'
         /\ Cardinality(Received({"COMPLETED"})) \in Nat
         /\ Cardinality(Received({"COMPLETED"}))' =
              Cardinality(Received({"COMPLETED"})) + Once(Takes("completed"))
         /\ Cardinality(Received({"FAILED", "SKIPPED"})) \in Nat
         /\ Cardinality(Received({"FAILED", "SKIPPED"}))' =
              Cardinality(Received({"FAILED", "SKIPPED"})) + Once(Takes("terminated"))
<1>1. /\ UNCHANGED thread /\ DOMAIN tasks' = DOMAIN tasks
      /\ \A t \in DOMAIN tasks : \A status \in Terminal :
           tasks'[t].status = status <=> tasks[t].status = status
  BY CoordinatorKeepsRows
<1>2. /\ \A u : Released(thread', u) <=> Released(thread, u)
      /\ \A u \in DOMAIN tasks : \A ends \in SUBSET Terminal :
           tasks'[u].status \in ends <=> tasks[u].status \in ends
  BY <1>1
<1>3. /\ {"COMPLETED"} \in SUBSET Terminal /\ {"FAILED", "SKIPPED"} \in SUBSET Terminal
  BY DEF Terminal
<1>4. \A ends : IsFiniteSet(Received(ends)) /\ Cardinality(Received(ends)) \in Nat
  <2>1. \A ends : Received(ends) \subseteq DOMAIN tasks
    BY DEF Received
  <2> QED BY <2>1, FS_Subset, FS_CardinalityType DEF LedgerInv
<1>5. ASSUME NEW ch \in ChannelName, ReceiveEvent(ch)
      PROVE  /\ SortedEvents'
             /\ Cardinality(Received({"COMPLETED"}))' =
                  Cardinality(Received({"COMPLETED"})) + Once(Takes("completed"))
             /\ Cardinality(Received({"FAILED", "SKIPPED"}))' =
                  Cardinality(Received({"FAILED", "SKIPPED"})) + Once(Takes("terminated"))
  <2>1. /\ SortedEvents' /\ Takes(ch) /\ \A c \in ChannelName \ {ch} : ~Takes(c)
    BY <1>1, <1>5, EventTaken
  <2>2. PICK t \in DOMAIN tasks :
          /\ Announced(t) /\ ~Announced(t)' /\ Released(thread, t)
          /\ tasks[t].status = "COMPLETED" <=> ch = "completed"
          /\ tasks[t].status \in {"FAILED", "SKIPPED"} <=> ch = "terminated"
          /\ \A u \in DOMAIN tasks \ {t} : Announced(u)' <=> Announced(u)
    BY <1>1, <1>5, EventTaken
  <2>3. ASSUME NEW ends \in SUBSET Terminal
        PROVE  Cardinality(Received(ends))' =
                 Cardinality(Received(ends)) + Once(tasks[t].status \in ends)
    <3>1. Received(ends)' \ {t} = Received(ends) \ {t}
      BY <1>1, <1>2, <2>2 DEF Received
    <3>2. t \notin Received(ends) /\ (t \in Received(ends)' <=> tasks[t].status \in ends)
      BY <1>1, <1>2, <2>2 DEF Received
    <3>3. /\ Cardinality(Received(ends)) \in Nat /\ Cardinality(Received(ends)') \in Nat
          /\ Cardinality(Received(ends)') + Once(t \in Received(ends)) =
               Cardinality(Received(ends)) + Once(t \in Received(ends)')
      BY <1>4, <3>1, OneMoves
    <3> QED BY <3>2, <3>3 DEF Once
  <2>4. /\ Takes("completed") <=> tasks[t].status = "COMPLETED"
        /\ Takes("terminated") <=> tasks[t].status \in {"FAILED", "SKIPPED"}
    BY <2>1, <2>2 DEF ChannelName
  <2>5. /\ Once(Takes("completed")) = Once(tasks[t].status \in {"COMPLETED"})
        /\ Once(Takes("terminated")) = Once(tasks[t].status \in {"FAILED", "SKIPPED"})
    BY <2>4 DEF Once
  <2> QED BY <1>3, <2>1, <2>3, <2>5
<1>6. CASE ~\E ch \in ChannelName : ReceiveEvent(ch)
  <2>1. UNCHANGED channel
    BY <1>6 DEF CoordinatorAction, CoordinatorStep, SubscribeToEvents,
       SubscribeToTerminationEvents, Subscribe, HandleTaskCompleted, HandleTaskTerminated,
       PushReady, CheckIfWorkflowFinished, CompleteWorkflow, busVars
  <2>2. SortedEvents' /\ \A u : Announced(u)' <=> Announced(u)
    BY <2>1 DEF SortedEvents, Announced
  <2>3. \A ends \in SUBSET Terminal : Received(ends)' = Received(ends)
    BY <1>1, <1>2, <2>2 DEF Received
  <2>4. ~Takes("completed") /\ ~Takes("terminated")
    BY <2>1 DEF Takes
  <2> QED BY <1>3, <1>4, <2>2, <2>3, <2>4 DEF Once
<1> QED BY <1>4, <1>5, <1>6

(* The children that the coordinator frees are the ones it is about to push, *)
(* and it has counted them when the push loop is through.                    *)
LEMMA EventsKeepFreed ==
  ASSUME Dependable, Sound, LedgerInv, CoordinatorAction, CountEvent,
         metrics.unblocked + readyTaskIDs = Cardinality(Freed)
  PROVE  metrics'.unblocked + readyTaskIDs' = Cardinality(Freed')
<1>1. /\ [Next]_vars /\ DOMAIN tasks' = DOMAIN tasks
  BY CoordinatorKeepsRows DEF Next
<1>2. /\ metrics.unblocked \in Int /\ readyTaskIDs \in Nat
      /\ metrics'.unblocked = metrics.unblocked + Unblocked({"completed", "failed", "skipped"})
  BY EventSeries, SeriesNames DEF LedgerInv, MetricsTypeOK
<1>3. CASE coord.pc = "decrement"
  <2>1. /\ coord'.ready \subseteq Freed' /\ coord'.ready \cap Freed = {}
        /\ Freed' \subseteq Freed \cup coord'.ready
    BY <1>3, LoopFrees
  <2>2. Freed' = Freed \cup coord'.ready
    BY <1>1, <2>1, FreedStays
  <2>3. IsFiniteSet(Freed) /\ IsFiniteSet(coord'.ready)
    <3>1. Freed \subseteq DOMAIN tasks /\ Freed' \subseteq DOMAIN tasks
      BY <1>1 DEF Freed
    <3>2. coord'.ready \subseteq DOMAIN tasks
      BY <2>1, <3>1
    <3> QED BY <3>1, <3>2, FS_Subset DEF LedgerInv
  <2>4. /\ Cardinality(Freed') = Cardinality(Freed) + Cardinality(coord'.ready)
        /\ Cardinality(Freed) \in Nat /\ Cardinality(coord'.ready) \in Nat
    <3>1. Cardinality(Freed \cup coord'.ready) =
            Cardinality(Freed) + Cardinality(coord'.ready) - Cardinality(Freed \cap coord'.ready)
      BY <2>3, FS_Union
    <3>2. Freed \cap coord'.ready = {}
      BY <2>1
    <3>3. /\ Cardinality(Freed \cap coord'.ready) = 0
          /\ Cardinality(Freed) \in Nat /\ Cardinality(coord'.ready) \in Nat
      BY <2>3, <3>2, FS_EmptySet, FS_CardinalityType
    <3> QED BY <2>2, <3>1, <3>3
  <2>5. readyTaskIDs = 0 /\ readyTaskIDs' = Cardinality(coord'.ready)
    BY <1>3 DEF LedgerInv, CountEvent, LoopEnds
  <2>6. metrics'.unblocked = metrics.unblocked
    BY <1>2, <1>3 DEF Unblocked, LoopEnds
  <2> QED BY <1>2, <2>4, <2>5, <2>6
<1>4. CASE coord.pc # "decrement"
  <2>1. \A t \in DOMAIN tasks : tasks'[t].inDegree = tasks[t].inDegree
    BY <1>1, <1>4, CountMoves DEF Sound, SameCount, CountedDown, Dependable
  <2>2. Freed' = Freed
    BY <1>1, <2>1, NobodyFreed DEF SameInDegrees
  <2>3. CASE LoopEnds
    <3>1. coord.event.type \in {"completed", "failed", "skipped"}
      BY <2>3 DEF LoopEnds, Sound, TypeOK, CoordinatorTypeOK, NoEvent, TaskCompletedEvent,
         TaskTerminatedEvent
    <3>2. readyTaskIDs' = 0
      BY <1>4, <2>3 DEF CountEvent
    <3>3. metrics'.unblocked = metrics.unblocked + readyTaskIDs
      BY <1>2, <2>3, <3>1 DEF Unblocked
    <3> QED BY <1>2, <2>2, <3>2, <3>3
  <2>4. CASE ~LoopEnds
    <3>1. readyTaskIDs' = readyTaskIDs
      BY <1>4, <2>4 DEF CountEvent
    <3>2. metrics'.unblocked = metrics.unblocked
      BY <1>2, <2>4 DEF Unblocked
    <3> QED BY <2>2, <3>1, <3>2
  <2> QED BY <2>3, <2>4
<1> QED BY <1>3, <1>4

LEMMA EventsKeepBalance ==
  ASSUME Steady, Running, BalanceInv, CoordinatorAction, CountEvent, NoFault
  PROVE  BalanceInv'
<1> SUFFICES ASSUME faults = 0
             PROVE  TaskBalance' /\ EventBalance' /\ RequestBalance' /\ SortedEvents'
  BY DEF BalanceInv, NoFault
<1>1. /\ Sound /\ LedgerInv /\ Dependable
      /\ TaskBalance /\ EventBalance /\ RequestBalance /\ SortedEvents
  BY DEF Running, BalanceInv, Steady
<1>2. TaskBalance'
  BY <1>1, EventsKeepTaskBalance
<1>3. /\ metrics'.completedEvents = metrics.completedEvents + Once(Takes("completed"))
      /\ metrics'.terminatedEvents = metrics.terminatedEvents + Once(Takes("terminated"))
      /\ metrics'.submitted = metrics.submitted
  BY <1>1, EventSeries DEF LedgerInv
<1>4. SortedEvents' /\ EventBalance'
  BY <1>1, <1>3, EventsKeepReceived, EventsKeepFreed DEF EventBalance
<1>5. RequestBalance'
  <2>1. UNCHANGED submit
    BY DEF CoordinatorAction
  <2>2. \A e \in Execution : executions[e] # "absent" => executions'[e] # "absent"
    BY <1>1, ExecutionsStay DEF Next
  <2> QED BY <1>1, <1>3, <2>1, <2>2 DEF RequestBalance, Created
<1> QED BY <1>2, <1>4, <1>5

-----------------------------------------------------------------------------
(* A submission adds rows that are in none of the sets that are counted. *)
Extended ==
  /\ UNCHANGED <<thread, channel>>
  /\ \A t \in DOMAIN tasks : t \in DOMAIN tasks' /\ tasks'[t] = tasks[t]
  /\ \A t \in DOMAIN tasks' \ DOMAIN tasks :
       /\ tasks'[t].status \in Waiting /\ tasks'[t].retryCount = 0
       /\ tasks'[t].dependencies # {} => tasks'[t].inDegree # 0
       /\ \A w \in Thread : ~Holds(w, t)

LEMMA SubmissionExtends ==
  ASSUME Sound, NEW e \in Execution, ServiceAction(e)
  PROVE  Extended
<1>1. UNCHANGED <<thread, channel>> /\ [Next]_vars
  BY DEF ServiceAction, busVars, Next
<1>2. \A t \in DOMAIN tasks : t \in DOMAIN tasks' /\ tasks'[t] = tasks[t]
  <2>1. CASE UNCHANGED tasks
    BY <2>1
  <2>2. CASE ~UNCHANGED tasks
    <3>1. PICK req \in Requests : CreateExecution(e) /\ tasks' = Inserted(e, req)
      BY <2>2 DEF ServiceAction, SubmitStep, EnqueueRootTask, CreateExecution
    <3>2. TaskIDs(e, req) \cap DOMAIN tasks = {}
      BY <3>1, FreshIDs DEF Sound
    <3> QED BY <3>1, <3>2 DEF Inserted
  <2> QED BY <2>1, <2>2
<1>3. ASSUME NEW t \in DOMAIN tasks' \ DOMAIN tasks
      PROVE  /\ tasks'[t].status \in Waiting /\ tasks'[t].retryCount = 0
             /\ tasks'[t].dependencies # {} => tasks'[t].inDegree # 0
             /\ \A w \in Thread : ~Holds(w, t)
  <2>1. PICK d \in Execution, req \in Requests :
          t \in TaskIDs(d, req) /\ tasks'[t] = ToTasks(d, req)[t]
    BY <1>1, <1>3, RowsAppear DEF Sound
  <2>2. tasks'[t].status \in Waiting
    BY <2>1, NewRows
  <2>3. PICK i \in DOMAIN req : tasks'[t] = ToTask(d, req[i])
    BY <2>1 DEF TaskIDs, ToTasks
  <2>4. tasks'[t].retryCount = 0
    BY <2>3 DEF ToTask
  <2>5. tasks'[t].dependencies # {} => tasks'[t].inDegree # 0
    <3>1. req \in Seq(TaskDTO)
      BY RequestsAssumption
    <3>2. req[i] \in TaskDTO
      BY <3>1, ElementOfSeq, LenProperties
    <3>3. /\ Len(req[i].dependencies) \in Nat
          /\ DOMAIN req[i].dependencies = 1..Len(req[i].dependencies)
      BY <3>2, LenProperties DEF TaskDTO
    <3>4. /\ tasks'[t].inDegree = Len(req[i].dependencies)
          /\ tasks'[t].dependencies =
               {req[i].dependencies[k] : k \in DOMAIN req[i].dependencies}
      BY <2>3 DEF ToTask
    <3> QED BY <3>3, <3>4
  <2>6. \A w \in Thread : ~Holds(w, t)
    BY <1>3 DEF Sound, TypeOK, WorkerTypeOK, Holds
  <2> QED BY <2>2, <2>4, <2>5, <2>6
<1> QED BY <1>1, <1>2, <1>3 DEF Extended

LEMMA ExtensionKeepsBalance ==
  ASSUME Extended, TaskBalance, EventBalance, SortedEvents, UNCHANGED readyTaskIDs,
         \A s \in TaskSeriesNames \cup {"unblocked", "completedEvents", "terminatedEvents"} :
           metrics'[s] = metrics[s]
  PROVE  TaskBalance' /\ EventBalance' /\ SortedEvents'
<1>1. /\ UNCHANGED <<thread, channel>>
      /\ \A t \in DOMAIN tasks : t \in DOMAIN tasks' /\ tasks'[t] = tasks[t]
      /\ \A t \in DOMAIN tasks' \ DOMAIN tasks :
           /\ tasks'[t].status \notin Terminal /\ tasks'[t].retryCount = 0
           /\ tasks'[t].dependencies # {} => tasks'[t].inDegree # 0
           /\ \A w \in Thread : ~Holds(w, t)
  BY DEF Extended, Waiting, Terminal
<1>2. \A status \in Terminal : Ended(status)' = Ended(status)
  BY <1>1 DEF Ended
<1>3. "COMPLETED" \in Terminal /\ "FAILED" \in Terminal /\ "SKIPPED" \in Terminal
  BY DEF Terminal
<1>4. SkipsReported' = SkipsReported
  BY <1>1, <1>2, <1>3 DEF SkipsReported
<1>5. \A pcs : HeldAt(pcs)' = HeldAt(pcs)
  <2>1. \A w \in Thread : \A t : Holds(w, t)' <=> Holds(w, t)
    BY <1>1 DEF Holds
  <2> QED BY <1>1, <2>1 DEF HeldAt
<1>6. Attended' = Attended
  <2>1. {t \in DOMAIN tasks' : tasks'[t].status \in Terminal}
          = {t \in DOMAIN tasks : tasks[t].status \in Terminal}
    BY <1>1
  <2> QED BY <1>5, <2>1 DEF Attended
<1>7. Ran' = Ran
  BY <1>2, <1>3, <1>5 DEF Ran
<1>8. Attempts' = Attempts
  BY <1>5 DEF Attempts
<1>9. RetriesMade' = RetriesMade
  <2>1. \A p : /\ p \in RetriesMade <=>
                    \E u \in DOMAIN tasks : \E n \in 1 .. tasks[u].retryCount : p = <<u, n>>
               /\ p \in RetriesMade' <=>
                    \E u \in DOMAIN tasks' : \E n \in 1 .. tasks'[u].retryCount : p = <<u, n>>
    BY DEF RetriesMade
  <2>2. \A u \in DOMAIN tasks' \ DOMAIN tasks : 1 .. tasks'[u].retryCount = {}
    BY <1>1
  <2>3. \A p : p \in RetriesMade' <=> p \in RetriesMade
    BY <1>1, <2>1, <2>2
  <2> QED BY <2>3
<1>10. TaskBalance'
  BY <1>2, <1>3, <1>4, <1>5, <1>6, <1>7, <1>8, <1>9 DEF TaskBalance, TaskSeriesNames
<1>11. SortedEvents' /\ \A u : Announced(u)' <=> Announced(u)
  BY <1>1 DEF SortedEvents, Announced
<1>12. \A ends \in SUBSET Terminal : Received(ends)' = Received(ends)
  BY <1>1, <1>11 DEF Received
<1>13. Freed' = Freed
  BY <1>1 DEF Freed
<1>14. {"COMPLETED"} \in SUBSET Terminal /\ {"FAILED", "SKIPPED"} \in SUBSET Terminal
  BY <1>3
<1> QED BY <1>10, <1>11, <1>12, <1>13, <1>14 DEF EventBalance

(* A request whose service call returns nil is counted then, and once. *)
LEMMA SubmissionCounted ==
  ASSUME Dependable, Sound, LedgerInv, RequestBalance, NEW e \in Execution, ServiceAction(e),
         CountRequest(e), NoFault
  PROVE  RequestBalance'
<1>1. /\ submit[e].pc \in {"new", "push"} /\ submit'[e].pc \in {"push", "created"}
      /\ \A d \in Execution \ {e} : submit'[d] = submit[d]
      /\ submit[e].pc = "new" => executions'[e] # "absent"
  <2>1. \A kind : ~Fault(kind)
    BY FaultFree DEF Sound
  <2>2. \A roots : AfterCreate(roots).pc \in {"push", "created"}
    BY DEF AfterCreate, Submitted
  <2>3. /\ submit \in [Execution -> [pc: SubmitPC, roots: SUBSET DOMAIN tasks]]
        /\ executions \in [Execution -> WorkflowStatus \cup {"absent"}]
    BY DEF Sound, TypeOK, WorkflowServiceTypeOK, WorkflowRepositoryTypeOK
  <2>4. CASE CreateExecution(e)
    <3>1. PICK req \in Requests :
            /\ executions' = [executions EXCEPT ![e] = "RUNNING"]
            /\ submit' = [submit EXCEPT ![e] = AfterCreate(RootTasks(e, req))]
      BY <2>1, <2>4 DEF CreateExecution
    <3>2. submit[e].pc = "new"
      BY <2>4 DEF CreateExecution
    <3> QED BY <2>2, <2>3, <3>1, <3>2
  <2>5. CASE EnqueueRootTask(e)
    <3>1. PICK t : submit' = [submit EXCEPT ![e] = AfterPush(e, t)]
      BY <2>1, <2>5 DEF EnqueueRootTask, Push
    <3>2. submit[e].pc = "push"
      BY <2>5 DEF EnqueueRootTask
    <3> QED BY <2>2, <2>3, <3>1, <3>2 DEF AfterPush
  <2> QED BY <2>4, <2>5 DEF ServiceAction, SubmitStep
<1>2. metrics'.submitted = metrics.submitted + Once(Responds(e, "created"))
  BY RequestSeries DEF LedgerInv
<1>3. /\ IsFiniteSet(Created)' /\ Cardinality(Created) \in Nat
      /\ Cardinality(Created)' = Cardinality(Created) + Once(Responds(e, "created"))
  <2>1. Created' \ {e} = Created \ {e}
    BY <1>1 DEF Created
  <2>2. e \notin Created /\ (e \in Created' <=> Responds(e, "created"))
    BY <1>1 DEF Created, Responds
  <2>3. /\ IsFiniteSet(Created') /\ Cardinality(Created) \in Nat /\ Cardinality(Created') \in Nat
        /\ Cardinality(Created') + Once(e \in Created) = Cardinality(Created) + Once(e \in Created')
    BY <2>1, OneMoves DEF RequestBalance
  <2> QED BY <2>2, <2>3 DEF Once
<1>4. metrics'.submitted = Cardinality(Created)'
  BY <1>2, <1>3 DEF RequestBalance
<1>5. ASSUME NEW d \in Execution
      PROVE  submit'[d].pc # "error" /\ (submit'[d].pc # "new" => executions'[d] # "absent")
  <2>1. executions[d] # "absent" => executions'[d] # "absent"
    BY ExecutionsStay DEF Next
  <2> QED BY <1>1, <2>1 DEF RequestBalance
<1> QED BY <1>3, <1>4, <1>5 DEF RequestBalance

LEMMA RequestsKeepBalance ==
  ASSUME Steady, Running, BalanceInv, NEW e \in Execution, ServiceAction(e), CountRequest(e),
         UNCHANGED readyTaskIDs, NoFault
  PROVE  BalanceInv'
<1> SUFFICES ASSUME faults = 0
             PROVE  TaskBalance' /\ EventBalance' /\ RequestBalance' /\ SortedEvents'
  BY DEF BalanceInv, NoFault
<1>1. /\ Sound /\ LedgerInv /\ Dependable
      /\ TaskBalance /\ EventBalance /\ RequestBalance /\ SortedEvents
  BY DEF Running, BalanceInv, Steady
<1>2. \A s \in TaskSeriesNames \cup {"unblocked", "completedEvents", "terminatedEvents"} :
        metrics'[s] = metrics[s]
  BY <1>1, RequestSeries DEF LedgerInv
<1> QED
  BY <1>1, <1>2, SubmissionExtends, ExtensionKeepsBalance, SubmissionCounted

LEMMA RejectionKeepsBalance ==
  ASSUME Running, BalanceInv, UNCHANGED <<vars, readyTaskIDs>>, RejectRequest \/ UNCHANGED metrics
  PROVE  BalanceInv'
<1> SUFFICES ASSUME faults = 0
             PROVE  TaskBalance' /\ EventBalance' /\ RequestBalance' /\ SortedEvents'
  BY DEF BalanceInv, vars
<1>1. LedgerInv /\ TaskBalance /\ EventBalance /\ RequestBalance /\ SortedEvents
  BY DEF Running, BalanceInv
<1>2. \A s \in TaskSeriesNames \cup {"unblocked", "completedEvents", "terminatedEvents",
                                     "submitted"} : metrics'[s] = metrics[s]
  BY <1>1, RequestSeries DEF LedgerInv
<1>3. Extended
  BY DEF vars, Extended
<1>4. RequestBalance'
  BY <1>1, <1>2 DEF RequestBalance, Created, vars
<1> QED BY <1>1, <1>2, <1>3, <1>4, ExtensionKeepsBalance

LEMMA BalanceStep ==
  ASSUME Steady, Running, BalanceInv, [MetricsNext]_<<vars, metrics, readyTaskIDs>>
  PROVE  BalanceInv'
<1> SUFFICES ASSUME faults' = 0 PROVE BalanceInv'
  BY DEF BalanceInv
<1>1. NoFault
  <2>1. [Next]_vars
    BY MetricsWatch
  <2>2. faults \in Nat
    BY FaultsAssumption DEF Running, Sound, TypeOK
  <2> QED BY <2>1, <2>2, FaultsMove DEF Fault, NoFault
<1>2. ASSUME NEW w \in Thread, WorkerAction(w) /\ CountTask(w) /\ UNCHANGED readyTaskIDs
      PROVE  BalanceInv'
  BY <1>1, <1>2, ThreadKeepsBalance
<1>3. CASE CoordinatorAction /\ CountEvent
  BY <1>1, <1>3, EventsKeepBalance
<1>4. ASSUME NEW e \in Execution, ServiceAction(e) /\ CountRequest(e) /\ UNCHANGED readyTaskIDs
      PROVE  BalanceInv'
  BY <1>1, <1>4, RequestsKeepBalance
<1>5. CASE RejectRequest \/ UNCHANGED <<vars, metrics, readyTaskIDs>>
  BY <1>5, RejectionKeepsBalance DEF RejectRequest
<1> QED BY <1>2, <1>3, <1>4, <1>5 DEF MetricsNext

LEMMA BalanceInvariant ==
  ASSUME Steady, DistinctRefs
  PROVE  MetricsSpec => [](Sound /\ LedgerInv /\ BalanceInv)
<1>1. MetricsInit => BalanceInv
  <2> SUFFICES ASSUME MetricsInit
               PROVE  TaskBalance /\ EventBalance /\ RequestBalance /\ SortedEvents
    BY DEF BalanceInv
  <2>1. /\ DOMAIN tasks = {} /\ \A c \in ChannelName : DOMAIN channel[c] = {}
        /\ \A e \in Execution : submit[e].pc = "new"
    BY DEF MetricsInit, Init, TaskRepositoryInit, RedisEventBusInit, NoMessages,
       WorkflowServiceInit, Submitted
  <2>2. metrics = [s \in Series |-> 0] /\ readyTaskIDs = 0
    BY DEF MetricsInit
  <2>3. \A s \in Series : metrics[s] = 0
    BY <2>2
  <2>4. \A pcs : HeldAt(pcs) = {}
    BY <2>1 DEF HeldAt
  <2>5. /\ Ended("COMPLETED") = {} /\ Ended("FAILED") = {}
        /\ SkipsReported = {} /\ Freed = {} /\ RetriesMade = {}
        /\ \A ends : Received(ends) = {}
    BY <2>1 DEF Ended, SkipsReported, Freed, RetriesMade, Received
  <2>6. Attended = {} /\ Ran = {} /\ Attempts = {}
    BY <2>1, <2>4, <2>5 DEF Attended, Ran, Attempts
  <2>7. TaskBalance
    BY <2>3, <2>4, <2>5, <2>6, FS_EmptySet, SeriesNames DEF TaskBalance
  <2>8. EventBalance
    BY <2>2, <2>3, <2>5, FS_EmptySet, SeriesNames DEF EventBalance
  <2>9. RequestBalance
    <3>1. Created = {}
      BY <2>1 DEF Created
    <3> QED BY <2>1, <2>3, <3>1, FS_EmptySet, SeriesNames DEF RequestBalance
  <2> QED BY <2>1, <2>7, <2>8, <2>9 DEF SortedEvents, ChannelName
<1>2. Running /\ BalanceInv /\ [MetricsNext]_<<vars, metrics, readyTaskIDs>> => BalanceInv'
  BY BalanceStep
<1>3. Sound /\ LedgerInv /\ Subscribers => Running
  BY DEF Running
<1>4. Dependable
  BY DEF Steady
<1> QED
  BY <1>1, <1>2, <1>3, <1>4, MetricsImplement, LedgerInvariant, SubscribersInvariant, PTL
  DEF MetricsSpec

-----------------------------------------------------------------------------
(* Where the sets of the balance end up when the server rests and has lost  *)
(* nothing: every task has ended, was announced and taken notice of, and    *)
(* waits for nobody.                                                        *)
LEMMA RestedTasks ==
  ASSUME Sound, QuiescenceInv, WorkflowFailsWithItsTasks, SkipIsJustified, Quiescent, faults = 0
  PROVE  \A t \in DOMAIN tasks :
           /\ tasks[t].status \in Terminal /\ tasks[t].inDegree = 0
           /\ Released(thread, t) /\ ~Announced(t)
<1>1. PICK L \in SUBSET Execution :
        /\ IsFiniteSet(L) /\ Cardinality(L) <= faults
        /\ \A e \in Execution \ L : Intact(e)
  BY DEF QuiescenceInv, IntactInv
<1>2. \A e \in Execution : Intact(e)
  <2>1. L = {}
    BY <1>1, FS_EmptySet, FS_CardinalityType
  <2> QED BY <1>1, <2>1
<1>3. ASSUME NEW t \in DOMAIN tasks
      PROVE  tasks[t].status \in Terminal /\ ExactFor(t)
  <2>1. PICK e \in Execution : e = tasks[t].executionID /\ executions[e] # "absent"
    BY DEF Sound, TypeOK, TaskRepositoryTypeOK, Task, RecordsInv
  <2>2. t \in TasksOf(e)
    BY <2>1 DEF TasksOf
  <2>3. \A u \in TasksOf(e) : tasks[u].status \in Terminal
    BY <1>2, <2>1, IntactAtRest DEF Sound, QuiescenceInv
  <2> QED BY <1>2, <2>2, <2>3 DEF Intact
<1>4. ASSUME NEW t \in DOMAIN tasks PROVE tasks[t].inDegree = 0
  <2>1. \A d \in Parents(t) : d \in DOMAIN tasks
    BY DEF Parents, TasksOf
  <2>2. \A d \in Parents(t) : ~EventPending(d)
    BY <1>3, <2>1, NothingUnderway DEF QuiescenceInv
  <2>3. PendingParents(t) = {}
    BY <2>2 DEF PendingParents
  <2> QED BY <1>3, <2>3, FS_EmptySet DEF ExactFor
<1>5. \A t : Released(thread, t)
  BY DEF Quiescent, At, Released
<1>6. \A t : ~Announced(t)
  <2>1. \A c \in ChannelName : DOMAIN channel[c] = {}
    BY DEF Quiescent
  <2> QED BY <2>1 DEF Announced
<1> QED BY <1>3, <1>4, <1>5, <1>6

LEMMA RestedBalance ==
  ASSUME Sound, LedgerInv, BalanceInv, QuiescenceInv, WorkflowFailsWithItsTasks,
         SkipIsJustified
  PROVE  MetricsBalance
<1> SUFFICES ASSUME Quiescent, faults = 0
             PROVE  /\ metrics.success = Tasks("COMPLETED")
                    /\ metrics.failed = Tasks("FAILED") /\ metrics.exhausted = metrics.failed
                    /\ metrics.skipped = Tasks("SKIPPED")
                    /\ metrics.retries = Retries
                    /\ metrics.queueWaits = Cardinality(DOMAIN tasks) + metrics.retries
                    /\ metrics.handlerRuns = metrics.success + metrics.failed + metrics.retries
                    /\ metrics.completedEvents = metrics.success
                    /\ metrics.terminatedEvents = metrics.failed + metrics.skipped
                    /\ metrics.unblocked = Dependents
                    /\ metrics.claimFailures = 0 /\ metrics.lockConflicts = 0
                    /\ metrics.active = 0
                    /\ metrics.submitted = Cardinality({e \in Execution : executions[e] # "absent"})
  BY DEF MetricsBalance
<1>1. TaskBalance /\ EventBalance /\ RequestBalance
  BY DEF BalanceInv
<1>2. \A t \in DOMAIN tasks : /\ tasks[t].status \in Terminal /\ tasks[t].inDegree = 0
                              /\ Released(thread, t) /\ ~Announced(t)
  BY RestedTasks
<1>3. /\ \A s \in Series : metrics[s] \in Int
      /\ readyTaskIDs = 0
  BY DEF LedgerInv, MetricsTypeOK, Quiescent
<1>4. \A pcs : HeldAt(pcs) = {}
  BY DEF HeldAt, Holds, Quiescent, At
<1>5. \A status : /\ Tasks(status) = Cardinality(Ended(status))
                  /\ IsFiniteSet(Ended(status)) /\ Cardinality(Ended(status)) \in Nat
  <2>1. \A status : Ended(status) \subseteq DOMAIN tasks
    BY DEF Ended
  <2> QED BY <2>1, FS_Subset, FS_CardinalityType DEF Tasks, Ended, LedgerInv
<1>6. ASSUME NEW s, NEW r, s # r
      PROVE  Cardinality(Ended(s) \cup Ended(r)) = Tasks(s) + Tasks(r)
  <2>1. Ended(s) \cap Ended(r) = {}
    BY <1>6 DEF Ended
  <2>2. Cardinality(Ended(s) \cup Ended(r)) =
          Cardinality(Ended(s)) + Cardinality(Ended(r)) - Cardinality(Ended(s) \cap Ended(r))
    BY <1>5, FS_Union
  <2>3. Cardinality(Ended(s) \cap Ended(r)) = 0
    BY <2>1, FS_EmptySet
  <2> QED BY <1>5, <2>2, <2>3
<1>7. /\ SkipsReported = Ended("SKIPPED")
      /\ Attended = DOMAIN tasks
      /\ Ran = Ended("COMPLETED") \cup Ended("FAILED")
      /\ Attempts = {}
  BY <1>2, <1>4 DEF SkipsReported, Ended, Attended, Ran, Attempts
<1>8. /\ Received({"COMPLETED"}) = Ended("COMPLETED")
      /\ Received({"FAILED", "SKIPPED"}) = Ended("FAILED") \cup Ended("SKIPPED")
      /\ Freed = {t \in DOMAIN tasks : tasks[t].dependencies # {}}
  BY <1>2 DEF Received, Ended, Freed
<1>9. Created = {e \in Execution : executions[e] # "absent"}
  <2>1. \A e \in Execution : submit[e].pc \in SubmitPC
    BY DEF Sound, TypeOK, WorkflowServiceTypeOK
  <2>2. \A e \in Execution : /\ submit[e].pc \notin {"push", "error"}
                             /\ submit[e].pc = "new" <=> executions[e] = "absent"
    BY <1>1 DEF Quiescent, RequestBalance, Sound, RecordsInv
  <2> QED BY <2>1, <2>2 DEF SubmitPC, Created
<1>10. Cardinality({}) = 0
  BY FS_EmptySet
<1>11. /\ metrics.success = Tasks("COMPLETED")
       /\ metrics.failed = Tasks("FAILED") /\ metrics.exhausted = metrics.failed
       /\ metrics.skipped = Tasks("SKIPPED")
       /\ metrics.claimFailures = 0 /\ metrics.lockConflicts = 0
  BY <1>1, <1>5, <1>7 DEF TaskBalance
<1>12. metrics.retries = Retries /\ metrics.active = 0
  <2>1. Cardinality(HeldAt({"retry"})) = 0 /\ Cardinality(Attempts) = 0
    BY <1>4, <1>7, <1>10
  <2>2. Cardinality(RetriesMade) \in Nat
    BY <1>1, FS_CardinalityType DEF TaskBalance
  <2> QED BY <1>1, <2>1, <2>2 DEF TaskBalance, Retries
<1>13. metrics.queueWaits = Cardinality(DOMAIN tasks) + metrics.retries
  <2>1. Cardinality(DOMAIN tasks) \in Nat
    BY FS_CardinalityType DEF LedgerInv
  <2> QED BY <1>1, <1>3, <1>7, <2>1, SeriesNames DEF TaskBalance
<1>14. metrics.handlerRuns = metrics.success + metrics.failed + metrics.retries
  <2>1. Cardinality(Ran) = Tasks("COMPLETED") + Tasks("FAILED")
    BY <1>6, <1>7
  <2> QED BY <1>1, <1>3, <1>5, <1>11, <2>1, SeriesNames DEF TaskBalance
<1>15. /\ metrics.completedEvents = metrics.success
       /\ metrics.terminatedEvents = metrics.failed + metrics.skipped
  <2>1. Cardinality(Received({"FAILED", "SKIPPED"})) = Tasks("FAILED") + Tasks("SKIPPED")
    BY <1>6, <1>8
  <2>2. Cardinality(Received({"COMPLETED"})) = Tasks("COMPLETED")
    BY <1>5, <1>8
  <2> QED BY <1>1, <1>11, <2>1, <2>2 DEF EventBalance
<1>16. metrics.unblocked = Dependents
  BY <1>1, <1>3, <1>8, SeriesNames DEF EventBalance, Dependents
<1>17. metrics.submitted = Cardinality({e \in Execution : executions[e] # "absent"})
  BY <1>1, <1>9 DEF RequestBalance
<1> QED BY <1>11, <1>12, <1>13, <1>14, <1>15, <1>16, <1>17

(* At rest the dashboards say exactly what happened, for any number of      *)
(* workers, executions and well-formed requests: a life of the process in   *)
(* which nothing failed counts every task, event, retry and submission once. *)
THEOREM DashboardsBalance ==
  ASSUME Steady, WellFormed, Acyclic
  PROVE  MetricsSpec => []MetricsBalance
<1>1. Sound /\ LedgerInv /\ BalanceInv /\ QuiescenceInv /\ WorkflowFailsWithItsTasks
        /\ SkipIsJustified => MetricsBalance
  BY RestedBalance
<1>2. Dependable /\ DistinctRefs /\ "crash" \notin FaultKinds
  BY DEF Steady, WellFormed
<1> QED
  BY <1>1, <1>2, MetricsImplement, BalanceInvariant, QuiescenceInvariant, FailuresAreRecorded,
     SkipsAreJustified, PTL
=============================================================================
