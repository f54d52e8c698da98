-------------------------- MODULE QuiescenceProofs --------------------------
(***************************************************************************)
(* When nobody has anything left to do, a workflow has its outcome, unless *)
(* a push, a pop or an event of its own was lost: as long as connections   *)
(* and the process live and Postgres answers.  The argument is a budget:   *)
(* a fault spoils the bookkeeping of one execution, and an execution whose *)
(* bookkeeping is right cannot come to rest before it is done.             *)
(***************************************************************************)
EXTENDS ExactProofs

(* Every set of tasks of a request has one that depends on no other of the  *)
(* set: the dependencies form no cycle.                                     *)
Acyclic ==
  \A req \in Requests : \A I \in (SUBSET DOMAIN req) \ {{}} :
    \E i \in I : \A j \in I : req[j].refID \notin Range(req[i].dependencies)

(* ... which holds of the tables a request was inserted into as well.       *)
Grounded(e) ==
  \A S \in (SUBSET TasksOf(e)) \ {{}} : \E t \in S : Parents(t) \cap S = {}

(* The coordinator and the service have tasks in hand in their push loops   *)
(* only.                                                                    *)
HandsInv ==
  /\ coord.pc # "push" => coord.ready = {}
  /\ \A e \in Execution : submit[e].pc # "push" => submit[e].roots = {}

-----------------------------------------------------------------------------
(* Whoever has nothing left to wait for is on the way to a worker.          *)
Reachable(t) == tasks[t].status \notin Terminal /\ tasks[t].inDegree = 0 => ~Nowhere(t)

(* An execution all of whose tasks are completed is marked, or going to be. *)
CompletionDue(e) ==
  executions[e] # "absent" /\ EveryTaskIs("COMPLETED", e) =>
    \/ executions[e] = "COMPLETED"
    \/ \E t \in TasksOf(e) : EventPending(t)
    \/ coord.pc \in {"check", "complete"} /\ coord.event.executionID = e

Intact(e) ==
  /\ \A t \in TasksOf(e) : ExactFor(t) /\ Reachable(t)
  /\ CompletionDue(e)

(* As many executions as there were faults have lost something, no more.    *)
IntactInv ==
  \E L \in SUBSET Execution :
    /\ IsFiniteSet(L) /\ Cardinality(L) <= faults
    /\ \A e \in Execution \ L : Intact(e)

-----------------------------------------------------------------------------
(* What a step takes from a task: its place on the way, or its event.       *)
KeepsPlace(t) ==
  tasks[t].status \notin Terminal /\ ~Nowhere(t) =>
    tasks'[t].status \in Terminal \/ ~Nowhere(t)'

Kept(t) == KeepsPlace(t) /\ KeepsEvent(t)

(* The lists lose the element that is popped and no other. *)
LEMMA PushedStay ==
  ASSUME NEW ids, RedisQueueTypeOK(ids), NEW q \in QueueName, NEW t \in ids, NEW ok,
         Push(q, t, ok)
  PROVE  /\ \A u : Queued(u) => Queued(u)'
         /\ Queued(t)' \/ Fault("queue")
<1>1. queue \in [QueueName -> Seq(ids)]
  BY DEF RedisQueueTypeOK
<1>2. \A r \in QueueName : queue[r] \in Seq(ids) /\ DOMAIN queue[r] = 1..Len(queue[r])
                           /\ Len(queue[r]) \in Nat
  BY <1>1, LenProperties
<1>3. ASSUME NEW s \in Seq(ids)
      PROVE  /\ Append(s, t) \in Seq(ids) /\ Range(s) \subseteq Range(Append(s, t))
             /\ t \in Range(Append(s, t))
  BY <1>3, AppendProperties, LenProperties DEF Range
<1>4. ASSUME NEW s \in Seq(ids), Range(queue[q]) \cup {t} \subseteq Range(s),
             queue' = [queue EXCEPT ![q] = s]
      PROVE  (\A u : Queued(u) => Queued(u)') /\ Queued(t)'
  <2>1. queue'[q] = s /\ \A r \in QueueName \ {q} : queue'[r] = queue[r]
    BY <1>1, <1>4
  <2> QED BY <1>4, <2>1 DEF Queued, InQueue
<1>5. /\ Append(queue[q], t) \in Seq(ids)
      /\ Range(queue[q]) \cup {t} \subseteq Range(Append(queue[q], t))
      /\ Append(Append(queue[q], t), t) \in Seq(ids)
      /\ Range(queue[q]) \cup {t} \subseteq Range(Append(Append(queue[q], t), t))
  BY <1>2, <1>3
<1>6. \/ queue' = Pushed(q, t) \/ queue' = PushedTwice(q, t)
      \/ queue' = queue /\ Fault("queue")
  BY DEF Push
<1>7. CASE queue' = Pushed(q, t) \/ queue' = PushedTwice(q, t)
  BY <1>4, <1>5, <1>7 DEF Pushed, PushedTwice
<1>8. CASE queue' = queue /\ Fault("queue")
  BY <1>8 DEF Queued, InQueue
<1> QED BY <1>6, <1>7, <1>8

LEMMA PoppedLeaves ==
  ASSUME NEW ids, RedisQueueTypeOK(ids), NEW q \in QueueName, NEW t, NEW ok, Pop(q, t, ok)
  PROVE  \A u : Queued(u) => Queued(u)' \/ u = t
<1>1. queue \in [QueueName -> Seq(ids)] /\ queue[q] \in Seq(ids)
  BY DEF RedisQueueTypeOK
<1>2. queue[q] # <<>> /\ t = Head(queue[q]) /\ queue'[q] = Tail(queue[q])
      /\ \A r \in QueueName \ {q} : queue'[r] = queue[r]
  BY <1>1 DEF Pop
<1>3. /\ DOMAIN queue[q] = 1..Len(queue[q]) /\ Len(queue[q]) \in Nat
      /\ DOMAIN queue'[q] = 1..(Len(queue[q]) - 1)
      /\ \A i \in 1..(Len(queue[q]) - 1) : queue'[q][i] = queue[q][i + 1]
      /\ t = queue[q][1]
  BY <1>1, <1>2, EmptySeq, HeadTailProperties, LenProperties
<1>4. ASSUME NEW u \in Range(queue[q]), u # t PROVE u \in Range(queue'[q])
  <2>1. PICK i \in DOMAIN queue[q] : u = queue[q][i]
    BY <1>4 DEF Range
  <2>2. i - 1 \in DOMAIN queue'[q] /\ queue'[q][i - 1] = u
    BY <1>3, <1>4, <2>1
  <2> QED BY <2>2 DEF Range
<1> QED BY <1>2, <1>4 DEF Queued, InQueue

-----------------------------------------------------------------------------
(* A thread lets go of a task that waits or runs by pushing it, and by      *)
(* nothing else: claims and retries do not conflict.                        *)
LEMMA ReleaseEnds ==
  ASSUME Dependable, TypeOK, DeliveryInv, StageInv, EndedInv,
         NEW w \in Thread, WorkerAction(w), ~PushRetry(w),
         NEW t \in DOMAIN tasks, Holds(w, t), ~Holds(w, t)'
  PROVE  tasks[t].status \in Terminal
<1>1. /\ WorkerTypeOK /\ thread[w].task = t /\ thread[w].pc # "pop"
      /\ StatusOK(thread[w].pc, tasks[t].status) /\ SnapshotOK(thread[w], tasks[t])
  BY DEF Holds, StageInv, TypeOK
<1>2. \A pc \in ThreadPC \ {"pop"} : ~Goto(w, pc)
  BY <1>1, ThreadMoves DEF Holds
<1>3. \A ok : \A table : Write(table, ok) => ok
  BY DEF Write, Fault, Dependable
<1>4. CASE PublishSkipped(w) \/ PublishFailed(w) \/ PublishCompleted(w)
  BY <1>1, <1>4 DEF PublishSkipped, PublishFailed, PublishCompleted, At, StatusOK,
     EndedInv, Row, Terminal
<1>5. ~PopTask(w) /\ ~FindTask(w)
  <2>1. ~PopTask(w)
    BY <1>1 DEF PopTask, At
  <2>2. ~Become(w, Fetched(t))
    BY <1>1, ThreadMoves DEF Holds, Fetched
  <2> QED BY <1>1, <2>1, <2>2 DEF FindTask, ReadError, Fault, Dependable
<1>6. ~SkipTask(w)
  BY <1>1, <1>2, <1>3 DEF SkipTask, MarkSkipped, ThreadPC
<1>7. ~(ExecuteHandler(w) \/ MarkUnknown(w) \/ PublishUnknown(w) \/ FailUnknown(w)
        \/ FailTask(w) \/ FailWorkflow(w) \/ CompleteTask(w))
  BY <1>2 DEF ExecuteHandler, MarkUnknown, PublishUnknown, FailUnknown, FailTask,
     FailWorkflow, CompleteTask, FailurePC, ThreadPC
<1>8. ~Claim(w)
  <2>1. SUFFICES ASSUME Claim(w) PROVE FALSE
    OBVIOUS
  <2>2. thread[w].pc = "claim" /\ RowMatches(t, thread[w].version)
    BY <1>1, <2>1 DEF Claim, At, SnapshotOK, RowMatches
  <2>3. Become(w, AfterClaim(thread[w]))
    BY <1>1, <1>3, <2>1, <2>2 DEF Claim, ClaimTask
  <2>4. AfterClaim(thread[w]).pc = "execute"
    BY <1>1 DEF AfterClaim, WorkerTypeOK
  <2> QED BY <1>1, <2>3, <2>4, ThreadMoves DEF Holds
<1>9. ~Retry(w)
  <2>1. SUFFICES ASSUME Retry(w) PROVE FALSE
    OBVIOUS
  <2>2. thread[w].pc = "retry" /\ RowMatches(t, thread[w].version)
    BY <1>1, <2>1 DEF Retry, At, SnapshotOK, RowMatches
  <2>3. Goto(w, "pushRetry")
    BY <1>1, <1>3, <2>1, <2>2 DEF Retry, IncrementRetryCount
  <2> QED BY <1>2, <2>3 DEF ThreadPC
<1> QED BY <1>4, <1>5, <1>6, <1>7, <1>8, <1>9 DEF WorkerAction, ProcessNextTask

(* The task a thread is about to pop or to finish with. *)
Subject(w) ==
  IF thread[w].pc = "pop" THEN Head(queue[SourceQueue(w)]) ELSE thread[w].task

LEMMA WorkerLoss ==
  ASSUME Steady, TypeOK, DeliveryInv, StageInv, EndedInv, [Next]_vars,
         NEW w \in Thread, WorkerAction(w), NEW t \in DOMAIN tasks, ~KeepsPlace(t)
  PROVE  t = Subject(w) /\ \E kind \in FaultKinds : Fault(kind)
<1>1. /\ tasks[t].status \notin Terminal /\ ~Nowhere(t)
      /\ tasks'[t].status \notin Terminal /\ Nowhere(t)'
  BY DEF KeepsPlace
<1>2. /\ ~Queued(t)' /\ t \notin coord'.ready
      /\ \A v \in Thread : ~(thread'[v].pc # "pop" /\ thread'[v].task = t)
      /\ \A e \in Execution : t \notin submit'[e].roots
  BY <1>1 DEF Nowhere, HeldByThread, Holds, AwaitsSubmit
<1>3. UNCHANGED <<coord, submit>> /\ WorkerTypeOK /\ RedisQueueTypeOK(DOMAIN tasks)
  BY DEF WorkerAction, TypeOK
<1>4. Queued(t) \/ \E v \in Thread : Holds(v, t)
  BY <1>1, <1>2, <1>3 DEF Nowhere, HeldByThread, AwaitsSubmit
<1>5. \A v \in Thread : v # w => ~Holds(v, t)
  BY <1>2, OthersRest DEF Holds
<1>6. CASE PopTask(w)
  <2>1. thread[w].pc = "pop" /\ SourceQueue(w) \in QueueName
    BY <1>6 DEF PopTask, At, SourceQueue, QueueName
  <2>2. PICK u \in DOMAIN tasks :
          \/ /\ Pop(SourceQueue(w), u, TRUE)
             /\ Become(w, [Idle EXCEPT !.pc = "find", !.task = u])
          \/ Pop(SourceQueue(w), u, FALSE) /\ Return(w)
    BY <1>6 DEF PopTask
  <2>3. Queued(t)
    BY <1>4, <1>5, <2>1 DEF Holds
  <2>4. t = u
    BY <1>2, <1>3, <2>1, <2>2, <2>3, PoppedLeaves
  <2>5. u = Subject(w)
    BY <2>1, <2>2 DEF Pop, Subject
  <2>6. ~Become(w, [Idle EXCEPT !.pc = "find", !.task = u])
    <3>1. PICK th : th = [Idle EXCEPT !.pc = "find", !.task = u]
      OBVIOUS
    <3>2. th.pc = "find" /\ th.task = u
      BY <3>1 DEF Idle
    <3>3. ~Become(w, th)
      BY <1>2, <1>3, <2>4, <3>2, ThreadMoves
    <3> QED BY <3>1, <3>3
  <2>7. Fault("queue")
    BY <2>2, <2>6 DEF Pop
  <2> QED BY <2>4, <2>5, <2>7 DEF Fault
<1>7. CASE PushRetry(w)
  <2>1. thread[w].pc = "pushRetry" /\ \E ok \in BOOLEAN : Push("retry", thread[w].task, ok)
    BY <1>7 DEF PushRetry, At
  <2>2. thread[w].task \in DOMAIN tasks /\ "retry" \in QueueName
    BY <1>3, <2>1 DEF WorkerTypeOK, QueueName
  <2>3. \A u : Queued(u) => Queued(u)'
    BY <1>3, <2>1, <2>2, PushedStay
  <2>4. Holds(w, t)
    BY <1>2, <1>4, <1>5, <2>3
  <2>5. Fault("queue")
    BY <1>2, <1>3, <2>1, <2>2, <2>4, PushedStay DEF Holds
  <2> QED BY <2>1, <2>4, <2>5 DEF Subject, Holds, Fault
<1>8. CASE ~PopTask(w) /\ ~PushRetry(w)
  <2>1. UNCHANGED queue
    BY <1>8, WorkerKeepsPlaces DEF WorkerAction, KeepsPlaces
  <2>2. Holds(w, t)
    BY <1>2, <1>4, <1>5, <2>1 DEF Queued, InQueue
  <2>3. ~Holds(w, t)' /\ Dependable
    BY <1>2 DEF Holds, Steady
  <2> QED BY <1>1, <1>8, <2>2, <2>3, ReleaseEnds
<1> QED BY <1>6, <1>7, <1>8

LEMMA CoordinatorLoss ==
  ASSUME TypeOK, HandsInv, CoordinatorAction, NEW t \in DOMAIN tasks, ~KeepsPlace(t)
  PROVE  coord.ready \ coord'.ready = {t} /\ \E kind \in FaultKinds : Fault(kind)
<1>1. Queued(t) \/ HeldByThread(t) \/ t \in coord.ready \/ AwaitsSubmit(t)
  BY DEF KeepsPlace, Nowhere
<1>2. ~Queued(t)' /\ ~HeldByThread(t)' /\ t \notin coord'.ready /\ ~AwaitsSubmit(t)'
  BY DEF KeepsPlace, Nowhere
<1>3. UNCHANGED <<thread, submit>> /\ CoordinatorStep
  BY DEF CoordinatorAction
<1>4. Queued(t) \/ t \in coord.ready
  BY <1>1, <1>2, <1>3 DEF HeldByThread, Holds, AwaitsSubmit
<1>5. PushReady
  <2>1. SUFFICES ASSUME ~PushReady PROVE FALSE
    OBVIOUS
  <2>2. UNCHANGED queue /\ coord.pc # "push"
    BY <1>3, <2>1 DEF CoordinatorStep, SubscribeToEvents, SubscribeToTerminationEvents,
       ReceiveEvent, HandleTaskCompleted, HandleTaskTerminated, Handling,
       CheckIfWorkflowFinished, CompleteWorkflow
  <2> QED BY <1>2, <1>4, <2>2 DEF HandsInv, Queued, InQueue
<1>6. PICK u \in coord.ready, ok \in BOOLEAN :
        /\ Push("main", u, ok)
        /\ IF coord.ready = {u} THEN Select ELSE coord' = [coord EXCEPT !.ready = @ \ {u}]
  BY <1>5 DEF PushReady
<1>7. coord'.ready = coord.ready \ {u} /\ u \in DOMAIN tasks
  BY <1>6 DEF Select, CoordinatorAt, TypeOK, CoordinatorTypeOK
<1>8. (\A v : Queued(v) => Queued(v)') /\ (Queued(u)' \/ Fault("queue"))
  <2>1. RedisQueueTypeOK(DOMAIN tasks) /\ "main" \in QueueName
    BY DEF TypeOK, QueueName
  <2> QED BY <1>6, <1>7, <2>1, PushedStay
<1>9. t = u
  BY <1>2, <1>4, <1>7, <1>8
<1> QED BY <1>2, <1>6, <1>7, <1>8, <1>9 DEF Fault

LEMMA ServiceLoss ==
  ASSUME TypeOK, DeliveryInv, RecordsInv, HandsInv,
         NEW e \in Execution, ServiceAction(e), NEW t \in DOMAIN tasks, ~KeepsPlace(t)
  PROVE  tasks[t].executionID = e /\ \E kind \in FaultKinds : Fault(kind)
<1>1. Queued(t) \/ HeldByThread(t) \/ t \in coord.ready \/ AwaitsSubmit(t)
  BY DEF KeepsPlace, Nowhere
<1>2. ~Queued(t)' /\ ~HeldByThread(t)' /\ t \notin coord'.ready /\ ~AwaitsSubmit(t)'
  BY DEF KeepsPlace, Nowhere
<1>3. UNCHANGED <<thread, coord>> /\ SubmitStep(e)
  BY DEF ServiceAction
<1>4. Queued(t) \/ AwaitsSubmit(t)
  BY <1>1, <1>2, <1>3 DEF HeldByThread, Holds
<1>5. \A d \in Execution \ {e} : submit'[d] = submit[d]
  <2>1. PICK new : submit' = [submit EXCEPT ![e] = new]
    BY <1>3, Zenon DEF SubmitStep, CreateExecution, EnqueueRootTask
  <2> QED BY <2>1 DEF TypeOK, WorkflowServiceTypeOK
<1>6. EnqueueRootTask(e)
  <2>1. SUFFICES ASSUME CreateExecution(e) PROVE FALSE
    BY <1>3 DEF SubmitStep
  <2>2. submit[e].roots = {} /\ UNCHANGED queue
    BY <2>1 DEF CreateExecution, HandsInv
  <2> QED BY <1>2, <1>4, <1>5, <2>2 DEF AwaitsSubmit, Queued, InQueue
<1>7. PICK u \in submit[e].roots :
        \/ Push("main", u, TRUE) /\ submit' = [submit EXCEPT ![e] = AfterPush(e, u)]
        \/ Push("main", u, FALSE)
  BY <1>6 DEF EnqueueRootTask
<1>8. (\A v : Queued(v) => Queued(v)') /\ (Queued(u)' \/ Fault("queue"))
  <2>1. RedisQueueTypeOK(DOMAIN tasks) /\ "main" \in QueueName /\ u \in DOMAIN tasks
    BY <1>7 DEF TypeOK, QueueName, WorkflowServiceTypeOK
  <2> QED BY <1>7, <2>1, PushedStay
<1>9. t \in submit[e].roots
  BY <1>2, <1>4, <1>5, <1>8 DEF AwaitsSubmit
<1>10. tasks[t].executionID = e
  BY <1>9 DEF DeliveryInv, FreshSubmissions, RecordsInv
<1>11. Fault("queue")
  <2>1. SUFFICES ASSUME ~Fault("queue") PROVE FALSE
    OBVIOUS
  <2>2. submit' = [submit EXCEPT ![e] = AfterPush(e, u)]
    BY <1>7, <2>1 DEF Push
  <2>3. PICK rest : rest = submit[e].roots \ {u}
    OBVIOUS
  <2>4. PICK pc : AfterPush(e, u) = Submitted(pc, rest)
    BY <2>3 DEF AfterPush, AfterCreate
  <2>5. submit' = [submit EXCEPT ![e] = Submitted(pc, rest)]
    BY <2>2, <2>4
  <2>6. submit'[e].roots = rest
    BY <2>5, SubmissionMoves
  <2>7. t = u
    BY <1>2, <1>9, <2>3, <2>6 DEF AwaitsSubmit
  <2> QED BY <1>2, <1>8, <2>1, <2>7
<1> QED BY <1>10, <1>11 DEF Fault

(* A step that costs some task its place or its event is a fault, and costs *)
(* tasks of one execution.                                                  *)
LEMMA OneLoss ==
  ASSUME Steady, TypeOK, DeliveryInv, StageInv, RecordsInv, EndedInv, Subscribers, HandsInv,
         [Next]_vars, NEW t \in DOMAIN tasks, NEW u \in DOMAIN tasks, ~Kept(t), ~Kept(u)
  PROVE  /\ tasks[t].executionID = tasks[u].executionID
         /\ \E kind \in FaultKinds : Fault(kind)
<1>1. ASSUME NEW d \in {t, u}
      PROVE  ~KeepsPlace(d) \/ \E w \in Thread : LosesEvent(w, d)
  BY <1>1, LearnedByHandling DEF Kept
<1>2. ASSUME NEW w \in Thread, WorkerAction(w), NEW d \in {t, u}
      PROVE  d = Subject(w) /\ \E kind \in FaultKinds : Fault(kind)
  <2>1. CASE ~KeepsPlace(d)
    BY <1>2, <2>1, WorkerLoss
  <2>2. ASSUME NEW v \in Thread, LosesEvent(v, d)
        PROVE  d = Subject(w) /\ \E kind \in FaultKinds : Fault(kind)
    <3>1. v = w
      BY <1>2, <2>2, OthersRest DEF LosesEvent
    <3> QED BY <2>2, <3>1 DEF LosesEvent, Holds, Subject, Fault
  <2> QED BY <1>1, <1>2, <2>1, <2>2
<1>3. ASSUME UNCHANGED thread, NEW d \in {t, u} PROVE ~KeepsPlace(d)
  BY <1>1, <1>3 DEF LosesEvent
<1>4. CASE CoordinatorAction
  BY <1>3, <1>4, CoordinatorLoss DEF CoordinatorAction
<1>5. ASSUME NEW e \in Execution, ServiceAction(e)
      PROVE  /\ tasks[t].executionID = tasks[u].executionID
             /\ \E kind \in FaultKinds : Fault(kind)
  BY <1>3, <1>5, ServiceLoss DEF ServiceAction
<1>6. ~(UNCHANGED vars) /\ \A ch \in ChannelName : ~BusAction(ch)
  <2>1. ASSUME UNCHANGED <<tasks, queue, thread, coord, submit>> PROVE FALSE
    <3>1. KeepsPlace(t)
      BY <2>1 DEF KeepsPlace, Nowhere, Queued, InQueue, HeldByThread, Holds, AwaitsSubmit
    <3> QED BY <1>3, <2>1, <3>1
  <2> QED BY <2>1 DEF vars, BusAction
<1>7. ~Crash
  BY DEF Crash, Fault, Steady
<1> QED BY <1>2, <1>4, <1>5, <1>6, <1>7 DEF Next

LEMMA FaultsMove ==
  ASSUME [Next]_vars
  PROVE  UNCHANGED faults \/ \E kind \in FaultKinds : Fault(kind)
<1> USE DEF NoFault
<1>1. ASSUME NEW kind, Fault(kind) PROVE \E k \in FaultKinds : Fault(k)
  BY <1>1 DEF Fault
<1>2. \A q, t, ok : Push(q, t, ok) \/ Pop(q, t, ok)
                      => UNCHANGED faults \/ \E kind \in FaultKinds : Fault(kind)
  BY <1>1 DEF Push, Pop
<1>3. \A table, ok : Write(table, ok)
                       => UNCHANGED faults \/ \E kind \in FaultKinds : Fault(kind)
  BY <1>1 DEF Write
<1>4. \A e, status, ok : UpdateStatus(e, status, ok)
                           => UNCHANGED faults \/ \E kind \in FaultKinds : Fault(kind)
  BY <1>1 DEF UpdateStatus, ExecutionsWrite
<1>5. \A ch, event : Publish(ch, event)
                       => UNCHANGED faults \/ \E kind \in FaultKinds : Fault(kind)
  BY <1>1 DEF Publish
<1>6. ASSUME NEW w \in Thread, WorkerAction(w)
      PROVE  UNCHANGED faults \/ \E kind \in FaultKinds : Fault(kind)
  <2>1. CASE PopTask(w) \/ PushRetry(w)
    BY <1>2, <2>1 DEF PopTask, PushRetry
  <2>2. CASE SkipTask(w) \/ MarkUnknown(w) \/ FailTask(w) \/ CompleteTask(w)
    BY <1>3, <2>2 DEF SkipTask, MarkUnknown, FailTask, CompleteTask, MarkSkipped, MarkFailed,
       MarkCompleted
  <2>3. CASE Claim(w) \/ Retry(w)
    BY <1>3, <2>3 DEF Claim, Retry, ClaimTask, IncrementRetryCount
  <2>4. CASE FailUnknown(w) \/ FailWorkflow(w)
    BY <1>4, <2>4 DEF FailUnknown, FailWorkflow
  <2>5. CASE PublishSkipped(w) \/ PublishUnknown(w) \/ PublishFailed(w) \/ PublishCompleted(w)
    BY <1>5, <2>5 DEF PublishSkipped, PublishUnknown, PublishFailed, PublishCompleted,
       PublishTaskCompleted, PublishTaskTerminated
  <2>6. CASE FindTask(w) \/ ExecuteHandler(w)
    BY <1>1, <2>6 DEF FindTask, ExecuteHandler, ReadError
  <2> QED BY <1>6, <2>1, <2>2, <2>3, <2>4, <2>5, <2>6 DEF WorkerAction, ProcessNextTask
<1>7. CASE CoordinatorAction
  <2>1. CASE \/ SubscribeToEvents \/ SubscribeToTerminationEvents
             \/ \E ch \in ChannelName : ReceiveEvent(ch)
    BY <2>1 DEF SubscribeToEvents, SubscribeToTerminationEvents, ReceiveEvent
  <2>2. CASE HandleTaskCompleted \/ HandleTaskTerminated
    BY <1>1, <1>3, <2>2 DEF HandleTaskCompleted, HandleTaskTerminated, DecrementInDegree
  <2>3. CASE PushReady
    BY <1>2, <2>3 DEF PushReady
  <2>4. CASE CheckIfWorkflowFinished
    BY <1>1, <2>4 DEF CheckIfWorkflowFinished, ReadError
  <2>5. CASE CompleteWorkflow
    BY <1>4, <2>5 DEF CompleteWorkflow
  <2> QED BY <1>7, <2>1, <2>2, <2>3, <2>4, <2>5 DEF CoordinatorAction, CoordinatorStep
<1>8. ASSUME NEW e \in Execution, ServiceAction(e)
      PROVE  UNCHANGED faults \/ \E kind \in FaultKinds : Fault(kind)
  BY <1>1, <1>2, <1>8, Zenon DEF ServiceAction, SubmitStep, CreateExecution, EnqueueRootTask
<1>9. ASSUME NEW ch \in ChannelName, BusAction(ch)
      PROVE  UNCHANGED faults \/ \E kind \in FaultKinds : Fault(kind)
  BY <1>1, <1>9 DEF BusAction, Subscribed, Disconnect
<1>10. CASE Crash
  BY <1>1, <1>10 DEF Crash
<1> QED BY <1>6, <1>7, <1>8, <1>9, <1>10 DEF Next, vars

LEMMA HandsStay ==
  ASSUME Steady, TypeOK, HandsInv, [Next]_vars
  PROVE  HandsInv'
<1>1. ~Crash
  BY DEF Crash, Fault, Steady
<1>2. coord'.pc # "push" => coord'.ready = {}
  <2>1. CASE CoordinatorAction
    <3>1. Select => coord'.ready = {}
      BY DEF Select, CoordinatorAt
    <3>2. CASE HandleTaskCompleted \/ HandleTaskTerminated
      <4>1. Select \/ \E ready : coord' = AfterDecrement(coord.event, ready)
        BY <3>2 DEF HandleTaskCompleted, HandleTaskTerminated
      <4> QED BY <3>1, <4>1 DEF AfterDecrement
    <3>3. CASE PushReady
      <4>1. \A t : coord' = [coord EXCEPT !.ready = @ \ {t}] => coord'.pc = coord.pc
        BY DEF TypeOK, CoordinatorTypeOK
      <4> QED BY <3>1, <3>3, <4>1 DEF PushReady
    <3>4. CASE CheckIfWorkflowFinished
      <4>1. coord' = [coord EXCEPT !.pc = "complete"] => coord'.ready = coord.ready
        BY DEF TypeOK, CoordinatorTypeOK
      <4> QED BY <3>1, <3>4, <4>1 DEF CheckIfWorkflowFinished, HandsInv
    <3>5. CASE SubscribeToEvents \/ SubscribeToTerminationEvents \/ CompleteWorkflow
      <4>1. Select \/ coord' = CoordinatorAt("subscribeTerminated")
        BY <3>5 DEF SubscribeToEvents, SubscribeToTerminationEvents, CompleteWorkflow
      <4> QED BY <3>1, <4>1 DEF CoordinatorAt
    <3>6. CASE \E ch \in ChannelName : ReceiveEvent(ch)
      BY <3>6 DEF ReceiveEvent
    <3> QED BY <2>1, <3>2, <3>3, <3>4, <3>5, <3>6 DEF CoordinatorAction, CoordinatorStep
  <2>2. CASE UNCHANGED coord
    BY <2>2 DEF HandsInv
  <2> QED BY <1>1, <2>1, <2>2 DEF Next, vars, WorkerAction, ServiceAction, BusAction
<1>3. ASSUME NEW d \in Execution, submit'[d].pc # "push" PROVE submit'[d].roots = {}
  <2>1. ASSUME NEW e \in Execution, ServiceAction(e) PROVE submit'[d].roots = {}
    <3>1. PICK R : \/ submit' = [submit EXCEPT ![e] = AfterCreate(R)]
                   \/ submit' = [submit EXCEPT ![e] = Submitted("error", {})]
      BY <2>1, Zenon DEF ServiceAction, SubmitStep, CreateExecution, EnqueueRootTask, AfterPush
    <3>2. PICK pc : AfterCreate(R) = Submitted(pc, R) /\ (pc # "push" => R = {})
      BY DEF AfterCreate
    <3>3. PICK last, roots :
            submit' = [submit EXCEPT ![e] = Submitted(last, roots)]
            /\ (last # "push" => roots = {})
      BY <3>1, <3>2, Zenon
    <3>4. /\ submit'[e].pc = last /\ submit'[e].roots = roots
          /\ \A c \in Execution \ {e} : submit'[c] = submit[c]
      BY <3>3, SubmissionMoves
    <3> QED BY <1>3, <3>3, <3>4 DEF HandsInv
  <2>2. CASE UNCHANGED submit
    BY <1>3, <2>2 DEF HandsInv
  <2> QED
    BY <1>1, <2>1, <2>2 DEF Next, vars, WorkerAction, CoordinatorAction, BusAction
<1> QED BY <1>2, <1>3 DEF HandsInv

LEMMA GroundedStays ==
  ASSUME Acyclic, TypeOK, DeliveryInv, StageInv, RecordsInv, \A e \in Execution : Grounded(e),
         [Next]_vars, NEW e \in Execution
  PROVE  Grounded(e)'
<1>1. CASE executions[e] # "absent"
  <2>1. TasksOf(e)' = TasksOf(e)
    BY <1>1, TasksStay
  <2>2. \A t \in TasksOf(e) : Parents(t)' = Parents(t)
    BY ParentsStay DEF TasksOf
  <2>3. Grounded(e)
    OBVIOUS
  <2> QED BY <2>1, <2>2, <2>3 DEF Grounded
<1>2. CASE executions[e] = "absent"
  <2>1. SUFFICES ASSUME NEW S \in SUBSET TasksOf(e)', S # {}
                 PROVE  \E t \in S : Parents(t)' \cap S = {}
    BY DEF Grounded
  <2>2. \A t \in TasksOf(e)' : t \notin DOMAIN tasks
    BY <1>2, RowsStay DEF RecordsInv, SameName, TasksOf
  <2>3. PICK s \in S : s \in TasksOf(e)'
    BY <2>1
  <2>4. PICK d \in Execution, req \in Requests :
          Submits(d, req) /\ s \in TaskIDs(d, req) /\ tasks'[s] = ToTasks(d, req)[s]
    BY <2>2, <2>3, RowsAppear DEF TasksOf
  <2>5. d = e
    BY <2>3, <2>4 DEF ToTasks, ToTask, TasksOf
  <2>6. /\ S \subseteq TaskIDs(e, req)
        /\ \A t \in TaskIDs(e, req) : Parents(t)' = RequestGraph(e, req)[t]
    BY <2>1, <2>4, <2>5, NewGraph
  <2> DEFINE I == {i \in DOMAIN req : <<e, i>> \in S}
  <2>7. \A t \in S : t = <<e, t[2]>> /\ t[2] \in I
    BY <2>6 DEF TaskIDs
  <2>8. I \in (SUBSET DOMAIN req) \ {{}}
    BY <2>3, <2>7
  <2>9. PICK i \in I : \A j \in I : req[j].refID \notin Range(req[i].dependencies)
    BY <2>8 DEF Acyclic
  <2>10. <<e, i>> \in S /\ <<e, i>> \in TaskIDs(e, req) /\ <<e, i>>[2] = i
    BY <2>6, <2>9
  <2>11. RequestGraph(e, req)[<<e, i>>] \cap S = {}
    <3>1. RequestGraph(e, req)[<<e, i>>]
            = {c \in TaskIDs(e, req) : req[c[2]].refID \in Range(req[i].dependencies)}
      BY <2>10 DEF RequestGraph
    <3> QED BY <2>7, <2>9, <3>1
  <2> QED BY <2>6, <2>10, <2>11
<1> QED BY <1>1, <1>2

-----------------------------------------------------------------------------
(* What handling an event does, when Postgres answers: the rows that become *)
(* ready go into the push loop, and none at all to the completion check.    *)
LEMMA HandlingStep ==
  ASSUME Steady, TypeOK, [Next]_vars, coord.pc = "decrement", coord'.pc # "decrement"
  PROVE  /\ coord'.ready = ReadyTasks(coord.event.executionID, coord.event.refID)
         /\ coord.event.type = "completed" /\ coord'.ready = {} =>
              coord'.pc = "check" /\ coord'.event = coord.event
<1>1. ~Crash
  BY DEF Crash, Fault, Steady
<1>2. HandleTaskCompleted \/ HandleTaskTerminated
  BY <1>1 DEF Next, vars, WorkerAction, ServiceAction, BusAction, CoordinatorAction,
     CoordinatorStep, SubscribeToEvents, SubscribeToTerminationEvents, ReceiveEvent,
     PushReady, CheckIfWorkflowFinished, CompleteWorkflow
<1>3. \A e, ref, skip, ready, ok :
        DecrementInDegree(e, ref, skip, ready, ok) => ok /\ ready = ReadyTasks(e, ref)
  BY DEF DecrementInDegree, Write, Fault, Steady, Dependable
<1>4. CASE HandleTaskCompleted
  <2>1. coord' = AfterDecrement(coord.event,
                                ReadyTasks(coord.event.executionID, coord.event.refID))
    BY <1>3, <1>4 DEF HandleTaskCompleted
  <2> QED BY <2>1 DEF AfterDecrement
<1>5. CASE HandleTaskTerminated
  <2>1. coord.event.type # "completed"
    BY <1>5 DEF HandleTaskTerminated
  <2>2. PICK R : R = ReadyTasks(coord.event.executionID, coord.event.refID)
    OBVIOUS
  <2>3. IF R # {} THEN coord' = AfterDecrement(coord.event, R) ELSE Select
    BY <1>3, <1>5, <2>2 DEF HandleTaskTerminated
  <2>4. coord'.ready = R
    BY <2>3 DEF AfterDecrement, Select, CoordinatorAt
  <2> QED BY <2>1, <2>2, <2>4
<1> QED BY <1>2, <1>4, <1>5

LEMMA ReachableStays ==
  ASSUME Steady, TypeOK, DeliveryInv, StageInv, RecordsInv, [Next]_vars,
         NEW t \in DOMAIN tasks, Reachable(t), KeepsPlace(t)
  PROVE  Reachable(t)'
<1>1. SUFFICES ASSUME tasks'[t].status \notin Terminal, tasks'[t].inDegree = 0, Nowhere(t)'
               PROVE  FALSE
  BY DEF Reachable
<1>2. tasks[t] \in Task /\ "db" \notin FaultKinds
  BY DEF TypeOK, TaskRepositoryTypeOK, Steady, Dependable
<1>3. tasks[t].status \notin Terminal
  BY <1>1, TerminalStep DEF Steady, Dependable
<1>4. tasks[t].inDegree # 0
  BY <1>1, <1>3 DEF Reachable, KeepsPlace
<1>5. CountedDown(t)
  BY <1>1, <1>2, <1>4, CountMoves DEF SameCount
<1>6. tasks[t].inDegree - 1 = 0
  <2>1. \A skip : DecrementedRow(tasks[t], skip).inDegree = tasks[t].inDegree - 1
    BY <1>2 DEF DecrementedRow, Task
  <2> QED BY <1>1, <1>5, <2>1 DEF CountedDown
<1>7. t \in ReadyTasks(coord.event.executionID, coord.event.refID)
  BY <1>2, <1>5, <1>6 DEF CountedDown, ReadyTasks, DecrementedRow, Task
<1>8. t \in coord'.ready
  BY <1>5, <1>7, HandlingStep DEF CountedDown
<1> QED BY <1>1, <1>8 DEF Nowhere

LEMMA ReachableStarts ==
  ASSUME Steady, TypeOK, DeliveryInv, StageInv, [Next]_vars,
         NEW t \in DOMAIN tasks', t \notin DOMAIN tasks
  PROVE  Reachable(t)'
<1>1. PICK e \in Execution, req \in Requests :
        Submits(e, req) /\ t \in TaskIDs(e, req) /\ tasks'[t] = ToTasks(e, req)[t]
  BY RowsAppear
<1>2. SUFFICES ASSUME tasks'[t].inDegree = 0 PROVE AwaitsSubmit(t)'
  BY DEF Reachable, Nowhere
<1>3. PICK r \in Requests :
        /\ tasks' = Inserted(e, r)
        /\ submit' = [submit EXCEPT ![e] = AfterCreate(RootTasks(e, r))]
  <2>1. ~Fault("db")
    BY DEF Fault, Steady, Dependable
  <2> QED BY <1>1, <2>1 DEF Submits, CreateExecution
<1>4. TaskIDs(e, r) \cap DOMAIN tasks = {}
  BY <1>1, FreshIDs DEF Submits
<1>5. t \in TaskIDs(e, r) /\ tasks'[t] = ToTasks(e, r)[t]
  BY <1>3 DEF Inserted
<1>6. t \in RootTasks(e, r)
  BY <1>2, <1>5 DEF RootTasks
<1>7. submit'[e].roots = RootTasks(e, r)
  <2>1. PICK roots : roots = RootTasks(e, r)
    OBVIOUS
  <2>2. PICK pc : AfterCreate(roots) = Submitted(pc, roots)
    BY DEF AfterCreate
  <2>3. submit' = [submit EXCEPT ![e] = Submitted(pc, roots)]
    BY <1>3, <2>1, <2>2
  <2>4. submit'[e].roots = roots
    BY <2>3, SubmissionMoves
  <2> QED BY <2>1, <2>4
<1> QED BY <1>6, <1>7 DEF AwaitsSubmit

(* An execution does not start completed. *)
LEMMA CompletionStarts ==
  ASSUME TypeOK, DeliveryInv, StageInv, RecordsInv, [Next]_vars,
         NEW e \in Execution, executions[e] = "absent", executions'[e] # "absent"
  PROVE  ~EveryTaskIs("COMPLETED", e)'
<1>1. TypeOK /\ executions \in [Execution -> WorkflowStatus \cup {"absent"}]
  BY DEF TypeOK, WorkflowRepositoryTypeOK
<1>2. \A d \in DOMAIN tasks : tasks[d].executionID # e
  BY DEF RecordsInv
<1>3. CreateExecution(e)
  <2>1. ASSUME NEW w \in Thread, FailsExecution(w) PROVE FALSE
    <3>1. thread[w].task \in DOMAIN tasks
      BY <2>1 DEF FailsExecution, TypeOK, WorkerTypeOK
    <3> QED BY <1>1, <1>2, <2>1, <3>1 DEF FailsExecution, Updated, Row
  <2>2. ~CompletesExecution
    <3>1. SUFFICES ASSUME CompletesExecution PROVE FALSE
      OBVIOUS
    <3>2. coord.event.executionID # e
      BY <1>2, <3>1 DEF CompletesExecution, RecordsInv, Handled, AboutARow
    <3> QED BY <1>1, <3>1, <3>2 DEF CompletesExecution, Updated
  <2> QED BY <1>1, <2>1, <2>2, ExecutionMoves
<1>4. PICK req \in Requests : Submits(e, req)
  BY <1>3 DEF CreateExecution, Submits
<1>5. PICK t : t \in TaskIDs(e, req)
  BY <1>3, FreshIDs
<1>6. t \in TasksOf(e)' /\ tasks'[t] = ToTasks(e, req)[t]
  BY <1>4, <1>5, NewGraph DEF Submits, Inserted
<1>7. tasks'[t].status # "COMPLETED"
  BY <1>5, <1>6 DEF ToTasks, ToTask
<1> QED BY <1>6, <1>7 DEF EveryTaskIs

(* With every task completed the event handled last readies no task, and    *)
(* the completion check sees what it has to see.                            *)
LEMMA CompletionStays ==
  ASSUME Steady, TypeOK, DeliveryInv, StageInv, RecordsInv, OutcomeInv, EventsInv, HintsInv,
         WorkflowFailsWithItsTasks, [Next]_vars,
         NEW e \in Execution, CompletionDue(e), \A t \in TasksOf(e) : KeepsEvent(t)
  PROVE  CompletionDue(e)'
<1> SUFFICES ASSUME executions'[e] # "absent", EveryTaskIs("COMPLETED", e)'
             PROVE  \/ executions'[e] = "COMPLETED"
                    \/ \E t \in TasksOf(e)' : EventPending(t)'
                    \/ coord'.pc \in {"check", "complete"} /\ coord'.event.executionID = e
  BY DEF CompletionDue
<1>1. executions[e] # "absent"
  BY CompletionStarts
<1>2. TasksOf(e)' = TasksOf(e) /\ TasksOf(e) \subseteq DOMAIN tasks
  BY <1>1, TasksStay DEF TasksOf
<1>3. \A t \in TasksOf(e) : tasks'[t].status = "COMPLETED"
  BY <1>2 DEF EveryTaskIs
<1>4. CASE ~EveryTaskIs("COMPLETED", e)
  <2>1. PICK t \in TasksOf(e) : tasks[t].status # "COMPLETED"
    BY <1>4 DEF EveryTaskIs
  <2>2. tasks[t].status \notin Terminal
    BY <1>2, <1>3, <2>1, TerminalStep DEF Steady, Dependable
  <2>3. PICK w \in Thread : Ends(w, t)
    BY <1>2, <1>3, <2>1, <2>2, EndingStep DEF Terminal, Steady
  <2>4. HeldByThread(t)'
    BY <2>3 DEF Ends, HeldByThread
  <2> QED BY <1>2, <2>1, <2>4 DEF EventPending
<1>5. CASE EveryTaskIs("COMPLETED", e) /\ executions[e] = "COMPLETED"
  BY <1>5, OutcomeStays
<1>6. ASSUME EveryTaskIs("COMPLETED", e), NEW t \in TasksOf(e), EventPending(t)
      PROVE  \/ \E u \in TasksOf(e)' : EventPending(u)'
             \/ coord'.pc = "check" /\ coord'.event.executionID = e
  <2>1. CASE EventPending(t)'
    BY <1>2, <2>1
  <2>2. CASE ~EventPending(t)'
    <3>1. coord.pc = "decrement" /\ coord.event.taskID = t /\ coord'.pc # "decrement"
      BY <1>6, <2>2 DEF KeepsEvent, HandlesEnd
    <3>2. coord.event.executionID = e
      BY <1>6, <3>1 DEF RecordsInv, Handled, AboutARow, TasksOf
    <3>3. coord.event.type = "completed"
      BY <1>6, <3>1 DEF EventsInv, Settled, Reports, EveryTaskIs
    <3>4. ASSUME NEW u \in ReadyTasks(e, coord.event.refID) PROVE FALSE
      <4>1. u \in TasksOf(e) /\ tasks[u] \in Task /\ tasks[u].status = "COMPLETED"
        BY <1>6, <3>4 DEF ReadyTasks, Children, TasksOf, EveryTaskIs, TypeOK,
           TaskRepositoryTypeOK
      <4>2. tasks[u].version > 1
        BY <4>1 DEF StageInv, GoodRow, Task, TasksOf
      <4>3. tasks[u].inDegree <= 0
        BY <4>1, <4>2 DEF HintsInv, TasksOf
      <4> QED BY <3>4, <4>1, <4>3 DEF ReadyTasks, DecrementedRow, Task
    <3>5. coord'.ready = {}
      BY <3>1, <3>2, <3>4, HandlingStep
    <3> QED BY <3>1, <3>2, <3>3, <3>5, HandlingStep
  <2> QED BY <2>1, <2>2
<1>7. ASSUME EveryTaskIs("COMPLETED", e),
             coord.pc \in {"check", "complete"}, coord.event.executionID = e
      PROVE  \/ executions'[e] = "COMPLETED"
             \/ coord'.pc \in {"check", "complete"} /\ coord'.event.executionID = e
  <2>1. CASE UNCHANGED coord
    BY <1>7, <2>1
  <2>2. CASE CheckIfWorkflowFinished
    <3>1. AllTasksCompleted(e)
      BY <1>7 DEF AllTasksCompleted, EveryTaskIs, TasksOf
    <3>2. coord' = [coord EXCEPT !.pc = "complete"]
      BY <1>7, <2>2, <3>1 DEF CheckIfWorkflowFinished, ReadError, Fault, Steady, Dependable
    <3>3. coord'.pc = "complete" /\ coord'.event = coord.event
      BY <3>2 DEF TypeOK, CoordinatorTypeOK
    <3> QED BY <1>7, <3>3
  <2>3. CASE CompleteWorkflow
    <3>1. executions' = Updated(e, "COMPLETED")
      BY <1>7, <2>3 DEF CompleteWorkflow, UpdateStatus, ExecutionsWrite, Fault, Steady, Dependable
    <3>2. executions[e] # "FAILED"
      BY <1>7 DEF WorkflowFailsWithItsTasks, EveryTaskIs
    <3>3. executions[e] \in {"RUNNING", "COMPLETED"}
      BY <1>1, <3>2 DEF TypeOK, WorkflowRepositoryTypeOK, WorkflowStatus
    <3>4. executions \in [Execution -> WorkflowStatus \cup {"absent"}]
      BY DEF TypeOK, WorkflowRepositoryTypeOK
    <3> QED BY <3>1, <3>3, <3>4 DEF Updated, MayBecome
  <2>4. ~Crash
    BY DEF Crash, Fault, Steady
  <2> QED
    BY <1>7, <2>1, <2>2, <2>3, <2>4 DEF Next, vars, WorkerAction, ServiceAction, BusAction,
       CoordinatorAction, CoordinatorStep, SubscribeToEvents, SubscribeToTerminationEvents,
       ReceiveEvent, HandleTaskCompleted, HandleTaskTerminated, Handling, PushReady
<1> QED BY <1>1, <1>4, <1>5, <1>6, <1>7 DEF CompletionDue

-----------------------------------------------------------------------------
QuiescenceInv ==
  /\ HandsInv /\ IntactInv
  /\ \A e \in Execution : Grounded(e)

(* An execution none of whose tasks loses anything stays intact. *)
LEMMA IntactStays ==
  ASSUME Steady, WellFormed, TypeOK, DeliveryInv, StageInv, RecordsInv, OutcomeInv, EndedInv,
         EventsInv, CountInv, HintsInv, Subscribers, WorkflowFailsWithItsTasks, [Next]_vars,
         NEW e \in Execution, Intact(e), \A t \in TasksOf(e) : Kept(t)
  PROVE  Intact(e)'
<1>1. CompletionDue(e)'
  BY CompletionStays DEF Intact, Kept
<1>2. ASSUME NEW t \in TasksOf(e)', t \in DOMAIN tasks PROVE ExactFor(t)' /\ Reachable(t)'
  <2>1. t \in TasksOf(e)
    BY <1>2, RowsStay DEF TasksOf, SameName
  <2>2. Parents(t) \subseteq TasksOf(e)
    BY <2>1 DEF Parents, TasksOf
  <2>3. ExactFor(t) /\ Reachable(t) /\ IsFiniteSet(Parents(t))
    BY <1>2, <2>1 DEF Intact, CountInv
  <2>4. KeepsPlace(t) /\ \A d \in Parents(t) : KeepsEvent(d)
    BY <2>1, <2>2 DEF Kept
  <2> QED BY <1>2, <2>3, <2>4, ExactStays, ReachableStays
<1>3. ASSUME NEW t \in TasksOf(e)', t \notin DOMAIN tasks PROVE ExactFor(t)' /\ Reachable(t)'
  <2>1. t \in DOMAIN tasks'
    BY <1>3 DEF TasksOf
  <2> QED BY <1>3, <2>1, ExactStarts, ReachableStarts
<1> QED BY <1>1, <1>2, <1>3 DEF Intact

LEMMA IntactStep ==
  ASSUME Steady, WellFormed, TypeOK, DeliveryInv, StageInv, RecordsInv, OutcomeInv, EndedInv,
         EventsInv, CountInv, HintsInv, Subscribers, WorkflowFailsWithItsTasks, HandsInv,
         IntactInv, [Next]_vars
  PROVE  IntactInv'
<1>1. PICK L \in SUBSET Execution :
        /\ IsFiniteSet(L) /\ Cardinality(L) <= faults
        /\ \A e \in Execution \ L : Intact(e)
  BY DEF IntactInv
<1>2. faults \in Nat /\ Cardinality(L) \in Nat
  BY <1>1, FaultsAssumption, FS_CardinalityType DEF TypeOK
<1>3. CASE \A t \in DOMAIN tasks : Kept(t)
  <2>1. faults' \in Nat /\ faults' >= faults
    BY <1>2, FaultsMove DEF Fault
  <2>2. Cardinality(L) <= faults'
    BY <1>1, <1>2, <2>1
  <2>3. \A e \in Execution \ L : Intact(e)'
    BY <1>1, <1>3, IntactStays DEF TasksOf
  <2> QED BY <1>1, <2>2, <2>3 DEF IntactInv
<1>4. ASSUME NEW t \in DOMAIN tasks, ~Kept(t) PROVE IntactInv'
  <2> DEFINE x == tasks[t].executionID
             M == L \cup {x}
  <2>1. x \in Execution
    BY DEF TypeOK, TaskRepositoryTypeOK, Task
  <2>2. faults' = faults + 1
    BY <1>4, OneLoss DEF Fault
  <2>3. IsFiniteSet(M) /\ Cardinality(M) <= Cardinality(L) + 1
    BY <1>1, <1>2, FS_AddElement
  <2>4. \A e \in Execution \ M : \A u \in TasksOf(e) : Kept(u)
    BY <1>4, OneLoss DEF TasksOf
  <2>5. \A e \in Execution \ M : Intact(e)'
    BY <1>1, <2>4, IntactStays
  <2>6. Cardinality(M) <= faults'
    <3>1. Cardinality(M) \in Nat
      BY <2>3, FS_CardinalityType
    <3> QED BY <1>1, <1>2, <2>2, <2>3, <3>1
  <2>7. M \in SUBSET Execution
    BY <2>1
  <2> HIDE DEF M
  <2> QED BY <2>3, <2>5, <2>6, <2>7 DEF IntactInv
<1> QED BY <1>3, <1>4

LEMMA QuiescenceInvariant ==
  ASSUME Steady, WellFormed, Acyclic
  PROVE  Spec => []QuiescenceInv
<1>1. Init => QuiescenceInv
  <2> SUFFICES ASSUME Init PROVE QuiescenceInv
    OBVIOUS
  <2>1. /\ DOMAIN tasks = {} /\ faults = 0
        /\ \A e \in Execution : executions[e] = "absent" /\ submit[e].roots = {}
    BY DEF Init, TaskRepositoryInit, WorkflowRepositoryInit, WorkflowServiceInit, Submitted
  <2>2. coord.ready = {}
    BY DEF Init, CoordinatorInit, Listening, CoordinatorAt
  <2>3. \A e \in Execution : TasksOf(e) = {}
    BY <2>1 DEF TasksOf
  <2>4. \A e \in Execution : Intact(e) /\ Grounded(e)
    BY <2>1, <2>3 DEF Intact, CompletionDue, Grounded
  <2>5. IsFiniteSet({}) /\ Cardinality({}) <= faults
    BY <2>1, FS_EmptySet
  <2>6. IntactInv
    BY <2>4, <2>5 DEF IntactInv
  <2> QED BY <2>1, <2>2, <2>4, <2>6 DEF QuiescenceInv, HandsInv
<1>2. TypeOK /\ DeliveryInv /\ StageInv /\ (RecordsInv /\ OutcomeInv)
        /\ (EndedInv /\ EventsInv) /\ (CountInv /\ HintsInv) /\ Subscribers
        /\ WorkflowFailsWithItsTasks /\ QuiescenceInv /\ [Next]_vars
        => QuiescenceInv'
  <2> SUFFICES ASSUME TypeOK, DeliveryInv, StageInv, RecordsInv, OutcomeInv, EndedInv,
                      EventsInv, CountInv, HintsInv, Subscribers, WorkflowFailsWithItsTasks,
                      QuiescenceInv, [Next]_vars
               PROVE  QuiescenceInv'
    OBVIOUS
  <2>1. HandsInv /\ IntactInv /\ \A e \in Execution : Grounded(e)
    BY DEF QuiescenceInv
  <2>2. \A e \in Execution : Grounded(e)'
    BY <2>1, GroundedStays
  <2> QED BY <2>1, <2>2, HandsStay, IntactStep DEF QuiescenceInv
<1>3. /\ Dependable /\ DistinctRefs
      /\ "dupPush" \notin FaultKinds /\ "crash" \notin FaultKinds
  BY DEF Steady, Dependable, WellFormed
<1> QED
  BY <1>1, <1>2, <1>3, TypeCorrect, DeliveryInvariant, StageInvariant, OutcomeInvariant,
     EventsInvariant, CountInvariant, SubscribersInvariant, FailuresAreRecorded, PTL DEF Spec

-----------------------------------------------------------------------------
(* At rest every task is nowhere, and nothing but its own end can be        *)
(* pending of it.                                                           *)
LEMMA NothingUnderway ==
  ASSUME HandsInv, Quiescent, NEW t \in DOMAIN tasks
  PROVE  Nowhere(t) /\ (EventPending(t) => tasks[t].status \notin Terminal)
<1>1. ~HeldByThread(t)
  BY DEF Quiescent, HeldByThread, Holds, At
<1>2. ~Queued(t)
  <2>1. \A q \in QueueName : queue[q] = <<>>
    BY DEF Quiescent
  <2>2. DOMAIN <<>> = {}
    OBVIOUS
  <2> QED BY <2>1, <2>2 DEF Queued, InQueue, Range
<1>3. t \notin coord.ready /\ ~AwaitsSubmit(t) /\ coord.pc = "select"
  BY DEF Quiescent, HandsInv, AwaitsSubmit
<1>4. \A ch \in ChannelName : DOMAIN channel[ch] = {}
  BY DEF Quiescent
<1> QED BY <1>1, <1>2, <1>3, <1>4 DEF Nowhere, EventPending

(* An intact execution comes to rest done: of the tasks that have not ended *)
(* one waits for no other of them, and of those that failed or were skipped *)
(* one failed.                                                              *)
LEMMA IntactAtRest ==
  ASSUME TypeOK, HandsInv, WorkflowFailsWithItsTasks, SkipIsJustified, Quiescent,
         NEW e \in Execution, executions[e] # "absent", Intact(e), Grounded(e)
  PROVE  /\ \A t \in TasksOf(e) : tasks[t].status \in Terminal
         /\ executions[e] = IF EveryTaskIs("COMPLETED", e) THEN "COMPLETED" ELSE "FAILED"
<1>1. \A t \in TasksOf(e) : /\ t \in DOMAIN tasks /\ Parents(t) \subseteq TasksOf(e)
                            /\ tasks[t].status \in TaskStatus
  BY DEF Parents, TasksOf, TypeOK, TaskRepositoryTypeOK, Task
<1>2. \A t \in TasksOf(e) : tasks[t].status \in Terminal
  <2> DEFINE S == {t \in TasksOf(e) : tasks[t].status \notin Terminal}
  <2>1. SUFFICES ASSUME S # {} PROVE FALSE
    OBVIOUS
  <2>2. PICK t \in S : Parents(t) \cap S = {}
    BY <2>1 DEF Grounded
  <2>3. PendingParents(t) = {}
    BY <1>1, <2>2, NothingUnderway DEF PendingParents
  <2>4. tasks[t].inDegree = 0
    BY <2>3, FS_EmptySet DEF Intact, ExactFor
  <2> QED BY <1>1, <2>4, NothingUnderway DEF Intact, Reachable
<1>3. CASE EveryTaskIs("COMPLETED", e)
  <2>1. \A t \in TasksOf(e) : ~EventPending(t)
    BY <1>1, <1>2, NothingUnderway
  <2> QED BY <1>2, <1>3, <2>1 DEF Intact, CompletionDue, Quiescent
<1>4. CASE ~EveryTaskIs("COMPLETED", e)
  <2> DEFINE S == {t \in TasksOf(e) : tasks[t].status \in Spoiling}
  <2>1. S # {}
    BY <1>2, <1>4 DEF EveryTaskIs, Terminal, Spoiling
  <2>2. PICK t \in S : Parents(t) \cap S = {}
    BY <2>1 DEF Grounded
  <2>3. tasks[t].status = "FAILED"
    <3>1. \A d \in Parents(t) : tasks[d].status \notin {"FAILED", "SKIPPED"}
      BY <1>1, <2>2 DEF Spoiling
    <3>2. tasks[t].status # "SKIPPED"
      BY <1>1, <3>1 DEF SkipIsJustified
    <3> QED BY <3>2 DEF Spoiling
  <2>4. executions[e] = "FAILED"
    BY <2>3 DEF WorkflowFailsWithItsTasks, Quiescent, Holds, At
  <2> QED BY <1>2, <1>4, <2>4
<1> QED BY <1>3, <1>4

(* As long as connections and the process live, Postgres answers, actions   *)
(* are registered and requests are well-formed and acyclic, every push, pop *)
(* or event that is lost strands at most one execution; all the others come *)
(* to rest with every task ended and their outcome recorded.                *)
THEOREM OneStrandedPerFault ==
  ASSUME Steady, WellFormed, Acyclic
  PROVE  Spec => []OneFaultStrandsOneWorkflow
<1>1. TypeOK /\ RecordsInv /\ WorkflowFailsWithItsTasks /\ SkipIsJustified /\ QuiescenceInv
        => OneFaultStrandsOneWorkflow
  <2> SUFFICES ASSUME TypeOK, RecordsInv, WorkflowFailsWithItsTasks, SkipIsJustified,
                      QuiescenceInv, Quiescent
               PROVE  Cardinality({e \in Execution : Unfinished(e)}) <= faults
    BY DEF OneFaultStrandsOneWorkflow
  <2>1. PICK L \in SUBSET Execution :
          /\ IsFiniteSet(L) /\ Cardinality(L) <= faults
          /\ \A e \in Execution \ L : Intact(e)
    BY DEF QuiescenceInv, IntactInv
  <2>2. ASSUME NEW e \in Execution, Unfinished(e) PROVE e \in L
    <3>1. executions[e] # "absent"
      BY <2>2 DEF Unfinished, RecordsInv, TasksOf
    <3>2. ~Intact(e)
      BY <2>2, <3>1, IntactAtRest DEF QuiescenceInv, Unfinished
    <3> QED BY <2>1, <3>2
  <2>3. {e \in Execution : Unfinished(e)} \subseteq L
    BY <2>2
  <2>4. /\ Cardinality({e \in Execution : Unfinished(e)}) <= Cardinality(L)
        /\ Cardinality({e \in Execution : Unfinished(e)}) \in Nat /\ Cardinality(L) \in Nat
    BY <2>1, <2>3, FS_Subset, FS_CardinalityType
  <2>5. faults \in Nat
    BY FaultsAssumption DEF TypeOK
  <2> QED BY <2>1, <2>4, <2>5
<1>2. /\ Dependable /\ DistinctRefs
      /\ "dupPush" \notin FaultKinds /\ "crash" \notin FaultKinds
  BY DEF Steady, Dependable, WellFormed
<1> QED
  BY <1>1, <1>2, TypeCorrect, OutcomeInvariant, FailuresAreRecorded, SkipsAreJustified,
     QuiescenceInvariant, PTL

(* When nothing fails at all, every execution that was created and every    *)
(* task of it is done by the time nobody has anything left to do, and the   *)
(* outcome is the one its tasks give it.                                    *)
THEOREM RestMeansDone ==
  ASSUME FaultKinds = {}, ~ColdStart, Registered, WellFormed, Acyclic
  PROVE  Spec => []QuiescentMeansDone
<1>1. Init => faults = 0
  BY DEF Init
<1>2. faults = 0 /\ [Next]_vars => (faults = 0)'
  BY FaultsMove
<1>3. faults = 0 /\ TypeOK /\ RecordsInv /\ WorkflowFailsWithItsTasks /\ SkipIsJustified
        /\ QuiescenceInv => QuiescentMeansDone
  <2> SUFFICES ASSUME faults = 0, TypeOK, RecordsInv, WorkflowFailsWithItsTasks,
                      SkipIsJustified, QuiescenceInv, Quiescent,
                      NEW e \in Execution, executions[e] # "absent"
               PROVE  /\ \A t \in TasksOf(e) : tasks[t].status \in Terminal
                      /\ executions[e] = IF EveryTaskIs("COMPLETED", e) THEN "COMPLETED"
                                         ELSE "FAILED"
    BY DEF QuiescentMeansDone
  <2>1. PICK L \in SUBSET Execution :
          /\ IsFiniteSet(L) /\ Cardinality(L) <= faults
          /\ \A d \in Execution \ L : Intact(d)
    BY DEF QuiescenceInv, IntactInv
  <2>2. L = {}
    BY <2>1, FS_EmptySet, FS_CardinalityType
  <2> QED BY <2>1, <2>2, IntactAtRest DEF QuiescenceInv
<1>4. /\ Steady /\ Dependable /\ DistinctRefs
      /\ "dupPush" \notin FaultKinds /\ "crash" \notin FaultKinds
  BY DEF Steady, Dependable, WellFormed
<1> QED
  BY <1>1, <1>2, <1>3, <1>4, TypeCorrect, OutcomeInvariant, FailuresAreRecorded,
     SkipsAreJustified, QuiescenceInvariant, PTL DEF Spec
=============================================================================
