---------------------------- MODULE GoTempoProofs ----------------------------
(***************************************************************************)
(* Proofs about GoTempo, for every set of executions, threads, requests,   *)
(* registry and every choice of faults.                                    *)
(***************************************************************************)
EXTENDS GoTempo, TLAPS, SequenceTheorems

TableOK(table) == DOMAIN table \subseteq TaskID /\ table \in [DOMAIN table -> Task]

SameRows(table) == TableOK(table) /\ DOMAIN table = DOMAIN tasks

AnyEvent == TaskCompletedEvent \cup TaskTerminatedEvent

LEMMA FaultBounded ==
  ASSUME faults \in 0..MaxFaults, NEW kind, NoFault \/ Fault(kind)
  PROVE  faults' \in 0..MaxFaults
BY FaultsAssumption DEF NoFault, Fault

(* Every UPDATE of the table keeps its rows and their types. *)
LEMMA UpdatesKeepRows ==
  ASSUME TableOK(tasks), NEW t \in DOMAIN tasks, NEW version \in Nat
  PROVE  /\ SameRows(Claimed(t, version))
         /\ SameRows(Retried(t, version))
         /\ \A status \in TaskStatus : SameRows(Marked(t, status))
<1>1. version + 1 \in Nat /\ tasks[t].retryCount + 1 \in Nat
  BY DEF TableOK, Task
<1>2. /\ "RUNNING" \in TaskStatus /\ "PENDING" \in TaskStatus
  BY DEF TaskStatus
<1>3. SameRows(Claimed(t, version))
  BY <1>1, <1>2 DEF SameRows, TableOK, Claimed, Task
<1>4. SameRows(Retried(t, version))
  <2>1. Retried(t, version) \in [DOMAIN tasks -> Task]
    BY <1>1, <1>2 DEF TableOK, Retried, Task
  <2> QED BY <2>1 DEF SameRows, TableOK
<1>5. \A status \in TaskStatus : SameRows(Marked(t, status))
  BY DEF SameRows, TableOK, Marked, Task
<1> QED BY <1>3, <1>4, <1>5

(* ... and leaves the in-degrees alone. *)
SameInDegrees(table) == \A u \in DOMAIN tasks : table[u].inDegree = tasks[u].inDegree

LEMMA UpdatesKeepInDegrees ==
  ASSUME TableOK(tasks), NEW t \in DOMAIN tasks, NEW version
  PROVE  /\ SameInDegrees(Claimed(t, version))
         /\ SameInDegrees(Retried(t, version))
         /\ \A status : SameInDegrees(Marked(t, status))
BY DEF TableOK, Task, SameInDegrees, Claimed, Retried, Marked

LEMMA DecrementKeepsRows ==
  ASSUME TableOK(tasks), NEW e, NEW ref, NEW skip \in BOOLEAN
  PROVE  SameRows(Decremented(e, ref, skip))
<1>1. ASSUME NEW row \in Task PROVE DecrementedRow(row, skip) \in Task
  <2>1. /\ row.inDegree - 1 \in Int
        /\ (row.skipHint \/ skip) \in BOOLEAN
        /\ (IF row.inDegree - 1 = 0 THEN "QUEUED" ELSE row.status) \in TaskStatus
    BY DEF Task, TaskStatus
  <2> QED BY <2>1 DEF DecrementedRow, Task
<1> QED BY <1>1 DEF SameRows, TableOK, Decremented, Children

LEMMA WriteKeepsRows ==
  ASSUME TableOK(tasks), NEW table, SameRows(table), NEW ok, Write(table, ok),
         faults \in 0..MaxFaults
  PROVE  SameRows(tasks') /\ faults' \in 0..MaxFaults
BY FaultBounded DEF Write, SameRows

-----------------------------------------------------------------------------
LEMMA UpdateStatusTyped ==
  ASSUME WorkflowRepositoryTypeOK, NEW e, NEW status \in WorkflowStatus, NEW ok,
         UpdateStatus(e, status, ok), faults \in 0..MaxFaults
  PROVE  WorkflowRepositoryTypeOK' /\ faults' \in 0..MaxFaults
<1>1. Updated(e, status) \in [Execution -> WorkflowStatus \cup {"absent"}]
  BY DEF Updated, WorkflowRepositoryTypeOK
<1> QED
  BY <1>1, FaultBounded DEF UpdateStatus, ExecutionsWrite, WorkflowRepositoryTypeOK

LEMMA PushTyped ==
  ASSUME NEW ids, RedisQueueTypeOK(ids), NEW q \in QueueName, NEW t \in ids, NEW ok,
         Push(q, t, ok), faults \in 0..MaxFaults
  PROVE  queue' \in [QueueName -> Seq(ids)] /\ faults' \in 0..MaxFaults
<1>1. Append(queue[q], t) \in Seq(ids)
  BY DEF RedisQueueTypeOK
<1>2. Append(Append(queue[q], t), t) \in Seq(ids)
  BY <1>1
<1>3. Pushed(q, t) \in [QueueName -> Seq(ids)]
  BY <1>1 DEF Pushed, RedisQueueTypeOK
<1>4. PushedTwice(q, t) \in [QueueName -> Seq(ids)]
  BY <1>2 DEF PushedTwice, RedisQueueTypeOK
<1> QED BY <1>3, <1>4, FaultBounded DEF Push, RedisQueueTypeOK

LEMMA PopTyped ==
  ASSUME NEW ids, RedisQueueTypeOK(ids), NEW q \in QueueName, NEW t, NEW ok,
         Pop(q, t, ok), faults \in 0..MaxFaults
  PROVE  queue' \in [QueueName -> Seq(ids)] /\ faults' \in 0..MaxFaults
<1>1. Tail(queue[q]) \in Seq(ids)
  BY HeadTailProperties DEF Pop, RedisQueueTypeOK
<1>2. queue' \in [QueueName -> Seq(ids)]
  BY <1>1 DEF Pop, RedisQueueTypeOK
<1> QED BY <1>2, FaultBounded DEF Pop

LEMMA EventTyped ==
  ASSUME TableOK(tasks), NEW t \in DOMAIN tasks
  PROVE  /\ Event(t, tasks[t], "completed") \in AnyEvent
         /\ \A type \in {"failed", "skipped"} : Event(t, tasks[t], type) \in AnyEvent
BY DEF TableOK, Task, Event, AnyEvent, TaskCompletedEvent, TaskTerminatedEvent

LEMMA PublishTyped ==
  ASSUME RedisEventBusTypeOK, NEW ch \in ChannelName, NEW event \in AnyEvent,
         Publish(ch, event), faults \in 0..MaxFaults
  PROVE  RedisEventBusTypeOK' /\ faults' \in 0..MaxFaults
<1>1. ASSUME NEW n \in 1..2
      PROVE  Delivered(ch, event, n) \in [ChannelName -> Seq(AnyEvent)]
  <2>1. [i \in 1..n |-> event] \in Seq(AnyEvent)
    BY SeqDef
  <2>2. channel[ch] \o [i \in 1..n |-> event] \in Seq(AnyEvent)
    BY <2>1, ConcatProperties DEF RedisEventBusTypeOK, AnyEvent
  <2> QED BY <2>2 DEF Delivered, RedisEventBusTypeOK, AnyEvent
<1> QED BY <1>1, FaultBounded DEF Publish, RedisEventBusTypeOK, AnyEvent

-----------------------------------------------------------------------------
ThreadState == [pc: ThreadPC, task: TaskID \cup {NoTask}, version: Nat, retryCount: Nat]

LEMMA BecomeTyped ==
  ASSUME WorkerTypeOK, DOMAIN tasks' = DOMAIN tasks, NEW w \in Thread,
         NEW th \in ThreadState, th.pc # "pop" => th.task \in DOMAIN tasks,
         Become(w, th)
  PROVE  WorkerTypeOK'
BY DEF WorkerTypeOK, ThreadState, Become

LEMMA ReturnTyped ==
  ASSUME WorkerTypeOK, DOMAIN tasks' = DOMAIN tasks, NEW w \in Thread, Return(w)
  PROVE  WorkerTypeOK'
<1>1. Idle \in ThreadState /\ Idle.pc = "pop"
  BY DEF Idle, ThreadState, ThreadPC
<1> QED BY <1>1, BecomeTyped DEF Return

LEMMA GotoTyped ==
  ASSUME WorkerTypeOK, DOMAIN tasks' = DOMAIN tasks, NEW w \in Thread,
         thread[w].pc # "pop", NEW pc \in ThreadPC, Goto(w, pc)
  PROVE  WorkerTypeOK'
BY DEF WorkerTypeOK, Goto

-----------------------------------------------------------------------------
(* What a step of a worker thread leaves to show. *)
LEMMA WorkerFrame ==
  ASSUME TypeOK, faults' \in 0..MaxFaults, SameRows(tasks'),
         WorkflowRepositoryTypeOK', queue' \in [QueueName -> Seq(DOMAIN tasks)],
         RedisEventBusTypeOK', WorkerTypeOK',
         UNCHANGED <<coord, completionsTotal, submit>>
  PROVE  TypeOK'
BY DEF TypeOK, SameRows, TableOK, TaskRepositoryTypeOK, RedisQueueTypeOK,
       CoordinatorTypeOK, WorkflowServiceTypeOK

LEMMA WorkerKeepsTypes ==
  ASSUME TypeOK, NEW w \in Thread, WorkerAction(w)
  PROVE  TypeOK'
<1> USE DEF At
<1>0. /\ faults \in 0..MaxFaults /\ SameRows(tasks) /\ TableOK(tasks)
      /\ WorkflowRepositoryTypeOK /\ RedisEventBusTypeOK /\ WorkerTypeOK
      /\ RedisQueueTypeOK(DOMAIN tasks) /\ queue \in [QueueName -> Seq(DOMAIN tasks)]
  BY DEF TypeOK, SameRows, TableOK, TaskRepositoryTypeOK, RedisQueueTypeOK
<1>1. /\ UNCHANGED tasks => SameRows(tasks')
      /\ UNCHANGED executions => WorkflowRepositoryTypeOK'
      /\ UNCHANGED queue => queue' \in [QueueName -> Seq(DOMAIN tasks)]
      /\ UNCHANGED busVars => RedisEventBusTypeOK'
      /\ NoFault => faults' \in 0..MaxFaults
  BY <1>0 DEF WorkflowRepositoryTypeOK, busVars, RedisEventBusTypeOK, NoFault,
              SameRows, TableOK
<1>2. UNCHANGED <<coord, completionsTotal, submit>>
  BY DEF WorkerAction
<1>3. thread[w].pc # "pop" =>
        /\ thread[w].task \in DOMAIN tasks /\ Row(w) = tasks[thread[w].task]
        /\ thread[w].version \in Nat /\ thread[w].retryCount \in Nat
        /\ Row(w).executionID \in Execution
  BY <1>0 DEF WorkerTypeOK, Row, TableOK, Task
<1>4. FailurePC(thread[w]) \in ThreadPC /\ FailurePC(thread[w]) # "pop"
  BY DEF FailurePC, ThreadPC
<1>5. CASE PopTask(w)
  <2>1. PICK t \in DOMAIN tasks, ok \in BOOLEAN :
          /\ Pop(SourceQueue(w), t, ok)
          /\ \/ Become(w, [Idle EXCEPT !.pc = "find", !.task = t])
             \/ Return(w)
    BY <1>5 DEF PopTask
  <2>2. SourceQueue(w) \in QueueName
    BY DEF SourceQueue, QueueName
  <2>3. queue' \in [QueueName -> Seq(DOMAIN tasks)] /\ faults' \in 0..MaxFaults
    BY <1>0, <2>1, <2>2, PopTyped
  <2>4. DOMAIN tasks' = DOMAIN tasks
    BY <1>5 DEF PopTask
  <2>5. [Idle EXCEPT !.pc = "find", !.task = t] \in ThreadState
    BY <1>0 DEF Idle, ThreadState, ThreadPC, TableOK
  <2>6. [Idle EXCEPT !.pc = "find", !.task = t].task \in DOMAIN tasks
    BY DEF Idle
  <2>7. WorkerTypeOK'
    BY <1>0, <2>1, <2>4, <2>5, <2>6, BecomeTyped, ReturnTyped
  <2> QED BY <1>1, <1>2, <1>5, <2>3, <2>7, WorkerFrame DEF PopTask
<1>6. CASE FindTask(w)
  <2>1. thread[w].task \in DOMAIN tasks
    BY <1>3, <1>6 DEF FindTask
  <2>2. UNCHANGED tasks /\ faults' \in 0..MaxFaults
    BY <1>0, <1>6, FaultBounded DEF FindTask, ReadError
  <2>3. Fetched(thread[w].task) \in ThreadState
    BY <1>0, <2>1 DEF Fetched, ThreadState, ThreadPC, TableOK, Task
  <2>4. Fetched(thread[w].task).task \in DOMAIN tasks
    BY <2>1 DEF Fetched
  <2>5. WorkerTypeOK'
    BY <1>0, <1>6, <2>2, <2>3, <2>4, BecomeTyped, ReturnTyped DEF FindTask
  <2> QED BY <1>1, <1>2, <1>6, <2>2, <2>5, WorkerFrame DEF FindTask
<1>7. ASSUME NEW table, SameRows(table), NEW pc \in ThreadPC, thread[w].pc # "pop",
             NEW ok, Write(table, ok) \/ (UNCHANGED tasks /\ NoFault),
             Goto(w, pc) \/ Return(w) \/ Become(w, AfterClaim(thread[w])),
             UNCHANGED <<executions, queue, busVars>>
      PROVE  TypeOK'
  <2>1. SameRows(tasks') /\ faults' \in 0..MaxFaults
    BY <1>0, <1>1, <1>7, WriteKeepsRows
  <2>2. thread[w].version + 1 \in Nat
    BY <1>3, <1>7
  <2>3. AfterClaim(thread[w]) \in ThreadState
    BY <1>0, <2>2 DEF WorkerTypeOK, AfterClaim, ThreadState, ThreadPC
  <2>4. AfterClaim(thread[w]).task \in DOMAIN tasks
    BY <1>0, <1>3, <1>7, <2>2 DEF AfterClaim, WorkerTypeOK
  <2>5. WorkerTypeOK'
    BY <1>0, <1>7, <2>1, <2>3, <2>4, BecomeTyped, ReturnTyped, GotoTyped DEF SameRows
  <2> QED BY <1>1, <1>2, <1>7, <2>1, <2>5, WorkerFrame
<1>8. ASSUME NEW ch \in ChannelName, NEW event \in AnyEvent, Publish(ch, event),
             NEW pc \in ThreadPC, thread[w].pc # "pop", Goto(w, pc) \/ Return(w),
             UNCHANGED <<tasks, executions, queue>>
      PROVE  TypeOK'
  <2>1. RedisEventBusTypeOK' /\ faults' \in 0..MaxFaults
    BY <1>0, <1>8, PublishTyped
  <2>2. WorkerTypeOK'
    BY <1>0, <1>8, ReturnTyped, GotoTyped
  <2> QED BY <1>1, <1>2, <1>8, <2>1, <2>2, WorkerFrame
<1>9. ASSUME NEW ok, UpdateStatus(Row(w).executionID, "FAILED", ok),
             NEW pc \in ThreadPC, thread[w].pc # "pop", Goto(w, pc),
             UNCHANGED <<tasks, queue, busVars>>
      PROVE  TypeOK'
  <2>1. "FAILED" \in WorkflowStatus
    BY DEF WorkflowStatus
  <2>2. WorkflowRepositoryTypeOK' /\ faults' \in 0..MaxFaults
    BY <1>0, <1>9, <2>1, UpdateStatusTyped
  <2>3. WorkerTypeOK'
    BY <1>0, <1>9, GotoTyped
  <2> QED BY <1>1, <1>2, <1>9, <2>2, <2>3, WorkerFrame
<1>10. thread[w].pc # "pop" =>
         /\ SameRows(Claimed(thread[w].task, thread[w].version))
         /\ SameRows(Retried(thread[w].task, thread[w].version))
         /\ \A status \in TaskStatus : SameRows(Marked(thread[w].task, status))
  BY <1>0, <1>3, UpdatesKeepRows
<1>11. {"SKIPPED", "FAILED", "COMPLETED"} \subseteq TaskStatus
  BY DEF TaskStatus
<1>12. thread[w].pc # "pop" =>
         /\ Event(thread[w].task, Row(w), "completed") \in AnyEvent
         /\ Event(thread[w].task, Row(w), "failed") \in AnyEvent
         /\ Event(thread[w].task, Row(w), "skipped") \in AnyEvent
  BY <1>0, <1>3, EventTyped
<1>13. {"publishSkipped", "publishUnknown", "failUnknown", "pushRetry", "failWorkflow",
        "publishFailed", "markCompleted", "publishCompleted"} \subseteq ThreadPC
  BY DEF ThreadPC
<1>14. {"completed", "terminated"} \subseteq ChannelName
  BY DEF ChannelName
<1>15. CASE SkipTask(w)
  BY <1>7, <1>10, <1>11, <1>13, <1>15 DEF SkipTask, MarkSkipped
<1>16. CASE PublishSkipped(w)
  BY <1>8, <1>12, <1>13, <1>14, <1>16 DEF PublishSkipped, PublishTaskTerminated
<1>17. CASE Claim(w)
  BY <1>7, <1>10, <1>13, <1>17 DEF Claim, ClaimTask
<1>18. CASE ExecuteHandler(w)
  BY <1>0, <1>4, <1>7, <1>13, <1>18 DEF ExecuteHandler
<1>19. CASE MarkUnknown(w)
  BY <1>7, <1>10, <1>11, <1>13, <1>19 DEF MarkUnknown, MarkFailed
<1>20. CASE PublishUnknown(w)
  BY <1>8, <1>12, <1>13, <1>14, <1>20 DEF PublishUnknown, PublishTaskTerminated
<1>21. CASE FailUnknown(w)
  BY <1>4, <1>9, <1>21 DEF FailUnknown
<1>22. CASE Retry(w)
  BY <1>7, <1>10, <1>13, <1>22 DEF Retry, IncrementRetryCount
<1>23. CASE PushRetry(w)
  <2>1. "retry" \in QueueName /\ thread[w].task \in DOMAIN tasks
    BY <1>3, <1>23 DEF PushRetry, QueueName
  <2>2. queue' \in [QueueName -> Seq(DOMAIN tasks)] /\ faults' \in 0..MaxFaults
    BY <1>0, <1>23, <2>1, PushTyped DEF PushRetry
  <2>3. WorkerTypeOK'
    BY <1>0, <1>23, ReturnTyped DEF PushRetry
  <2> QED BY <1>1, <1>2, <1>23, <2>2, <2>3, WorkerFrame DEF PushRetry
<1>24. CASE FailTask(w)
  BY <1>7, <1>10, <1>11, <1>13, <1>24 DEF FailTask, MarkFailed
<1>25. CASE FailWorkflow(w)
  BY <1>9, <1>13, <1>25 DEF FailWorkflow
<1>26. CASE PublishFailed(w)
  BY <1>8, <1>12, <1>13, <1>14, <1>26 DEF PublishFailed, PublishTaskTerminated
<1>27. CASE CompleteTask(w)
  BY <1>7, <1>10, <1>11, <1>13, <1>27 DEF CompleteTask, MarkCompleted
<1>28. CASE PublishCompleted(w)
  BY <1>8, <1>12, <1>13, <1>14, <1>28 DEF PublishCompleted, PublishTaskCompleted
<1> QED
  BY <1>5, <1>6, <1>15, <1>16, <1>17, <1>18, <1>19, <1>20, <1>21, <1>22, <1>23, <1>24,
     <1>25, <1>26, <1>27, <1>28 DEF WorkerAction, ProcessNextTask

-----------------------------------------------------------------------------
CoordinatorState == [pc: CoordinatorPC, event: AnyEvent \cup {NoEvent},
                     ready: SUBSET DOMAIN tasks]

Outcomes == [completed: Nat, failed: Nat]

(* What a step of the coordinator leaves to show. *)
LEMMA CoordinatorFrame ==
  ASSUME TypeOK, faults' \in 0..MaxFaults, SameRows(tasks'),
         WorkflowRepositoryTypeOK', queue' \in [QueueName -> Seq(DOMAIN tasks)],
         RedisEventBusTypeOK', coord' \in CoordinatorState,
         coord'.pc \in {"decrement", "push", "check", "complete"} => coord'.event # NoEvent,
         completionsTotal' \in Outcomes, UNCHANGED <<thread, submit>>
  PROVE  TypeOK'
BY DEF TypeOK, SameRows, TableOK, TaskRepositoryTypeOK, RedisQueueTypeOK, WorkerTypeOK,
       CoordinatorTypeOK, CoordinatorState, AnyEvent, Outcomes, WorkflowServiceTypeOK

LEMMA CoordinatorKeepsTypes ==
  ASSUME TypeOK, CoordinatorAction
  PROVE  TypeOK'
<1>0. /\ faults \in 0..MaxFaults /\ SameRows(tasks) /\ TableOK(tasks)
      /\ WorkflowRepositoryTypeOK /\ RedisEventBusTypeOK
      /\ RedisQueueTypeOK(DOMAIN tasks) /\ queue \in [QueueName -> Seq(DOMAIN tasks)]
      /\ coord \in CoordinatorState /\ completionsTotal \in Outcomes
      /\ coord.pc \in {"decrement", "push", "check", "complete"} => coord.event # NoEvent
  BY DEF TypeOK, SameRows, TableOK, TaskRepositoryTypeOK, RedisQueueTypeOK,
         CoordinatorTypeOK, CoordinatorState, AnyEvent, Outcomes
<1>1. /\ UNCHANGED tasks => SameRows(tasks')
      /\ UNCHANGED executions => WorkflowRepositoryTypeOK'
      /\ UNCHANGED queue => queue' \in [QueueName -> Seq(DOMAIN tasks)]
      /\ UNCHANGED busVars => RedisEventBusTypeOK'
      /\ NoFault => faults' \in 0..MaxFaults
      /\ UNCHANGED completionsTotal => completionsTotal' \in Outcomes
  BY <1>0 DEF WorkflowRepositoryTypeOK, busVars, RedisEventBusTypeOK, NoFault,
              SameRows, TableOK
<1>2. UNCHANGED <<thread, submit>>
  BY DEF CoordinatorAction
<1>3. \A pc \in {"subscribeTerminated", "select"} :
        /\ CoordinatorAt(pc) \in CoordinatorState
        /\ CoordinatorAt(pc).pc = pc
  BY DEF CoordinatorAt, CoordinatorState, CoordinatorPC
<1>4. \A ready \in SUBSET DOMAIN tasks :
        coord.event \in AnyEvent =>
          /\ AfterDecrement(coord.event, ready) \in CoordinatorState
          /\ AfterDecrement(coord.event, ready).event = coord.event
  BY DEF AfterDecrement, CoordinatorState, CoordinatorPC
<1>5. coord.pc \in {"decrement", "push", "check", "complete"} =>
        /\ coord.event \in AnyEvent
        /\ coord.event.executionID \in Execution
  BY <1>0 DEF CoordinatorState, AnyEvent, TaskCompletedEvent, TaskTerminatedEvent
<1>6. \A event : CountOutcome(event) => completionsTotal' \in Outcomes
  <2>1. completionsTotal.failed + 1 \in Nat
    BY <1>0 DEF Outcomes
  <2> QED BY <1>0, <2>1 DEF CountOutcome, Outcomes
<1>7. CASE SubscribeToEvents
  <2>1. RedisEventBusTypeOK'
    BY <1>0, <1>7 DEF SubscribeToEvents, Subscribe, RedisEventBusTypeOK
  <2> QED BY <1>0, <1>1, <1>2, <1>3, <1>7, <2>1, CoordinatorFrame DEF SubscribeToEvents
<1>8. CASE SubscribeToTerminationEvents
  <2>1. RedisEventBusTypeOK'
    BY <1>0, <1>8 DEF SubscribeToTerminationEvents, Subscribe, RedisEventBusTypeOK
  <2> QED
    BY <1>0, <1>1, <1>2, <1>3, <1>8, <2>1, CoordinatorFrame
       DEF SubscribeToTerminationEvents, Select
<1>9. ASSUME NEW ch \in ChannelName, ReceiveEvent(ch) PROVE TypeOK'
  <2>1. channel[ch] \in Seq(AnyEvent)
    BY <1>0 DEF RedisEventBusTypeOK, AnyEvent
  <2>2. PICK i \in DOMAIN channel[ch] :
          /\ Receive(ch, channel[ch][i])
          /\ coord' = [pc |-> "decrement", event |-> channel[ch][i], ready |-> {}]
    BY <1>9 DEF ReceiveEvent
  <2>3. channel[ch][i] \in AnyEvent
    BY <2>1, LenProperties, ElementOfSeq
  <2>4. channel[ch][i] # NoEvent
    BY <2>3 DEF AnyEvent, TaskCompletedEvent, TaskTerminatedEvent, NoEvent
  <2>5. Tail(channel[ch]) \in Seq(AnyEvent)
    BY <2>1, <2>2, HeadTailProperties DEF Receive
  <2>6. RedisEventBusTypeOK'
    BY <1>0, <2>2, <2>5 DEF Receive, RedisEventBusTypeOK, AnyEvent
  <2>7. coord' \in CoordinatorState
    BY <2>2, <2>3, <1>9 DEF CoordinatorState, CoordinatorPC, ReceiveEvent
  <2> QED
    BY <1>0, <1>1, <1>2, <1>9, <2>2, <2>4, <2>6, <2>7, CoordinatorFrame DEF ReceiveEvent
<1>10. ASSUME NEW skip \in BOOLEAN, NEW ready \in SUBSET DOMAIN tasks, NEW ok,
              coord.pc = "decrement",
              DecrementInDegree(coord.event.executionID, coord.event.refID, skip, ready, ok),
              coord' = AfterDecrement(coord.event, ready) \/ Select,
              completionsTotal' \in Outcomes,
              UNCHANGED <<executions, queue, busVars>>
       PROVE  TypeOK'
  <2>1. SameRows(Decremented(coord.event.executionID, coord.event.refID, skip))
    BY <1>0, DecrementKeepsRows
  <2>2. SameRows(tasks') /\ faults' \in 0..MaxFaults
    BY <1>0, <1>10, <2>1, WriteKeepsRows, FaultBounded DEF DecrementInDegree
  <2>3. /\ coord' \in CoordinatorState
        /\ coord'.pc \in {"decrement", "push", "check", "complete"} => coord'.event # NoEvent
    BY <1>0, <1>3, <1>4, <1>5, <1>10 DEF Select
  <2> QED BY <1>1, <1>2, <1>10, <2>2, <2>3, CoordinatorFrame
<1>11. CASE HandleTaskCompleted
  BY <1>1, <1>10, <1>11 DEF HandleTaskCompleted, Handling
<1>12. CASE HandleTaskTerminated
  BY <1>1, <1>6, <1>10, <1>12 DEF HandleTaskTerminated
<1>13. CASE PushReady
  <2>1. PICK t \in coord.ready, ok \in BOOLEAN :
          /\ Push("main", t, ok)
          /\ \/ Select /\ CountOutcome(coord.event)
             \/ coord' = [coord EXCEPT !.ready = @ \ {t}] /\ UNCHANGED completionsTotal
    BY <1>13 DEF PushReady
  <2>2. t \in DOMAIN tasks /\ "main" \in QueueName
    BY <1>0 DEF CoordinatorState, QueueName
  <2>3. queue' \in [QueueName -> Seq(DOMAIN tasks)] /\ faults' \in 0..MaxFaults
    BY <1>0, <2>1, <2>2, PushTyped
  <2>4. /\ [coord EXCEPT !.ready = @ \ {t}] \in CoordinatorState
        /\ [coord EXCEPT !.ready = @ \ {t}].event = coord.event
    BY <1>0 DEF CoordinatorState
  <2>5. UNCHANGED tasks /\ coord.pc = "push"
    BY <1>13 DEF PushReady
  <2>6. /\ coord' \in CoordinatorState
        /\ coord'.pc \in {"decrement", "push", "check", "complete"} => coord'.event # NoEvent
    BY <1>0, <1>3, <2>1, <2>4, <2>5 DEF Select
  <2> QED
    BY <1>1, <1>2, <1>6, <1>13, <2>1, <2>3, <2>6, CoordinatorFrame DEF PushReady
<1>14. CASE CheckIfWorkflowFinished
  <2>1. faults' \in 0..MaxFaults /\ UNCHANGED tasks
    BY <1>0, <1>14, FaultBounded DEF CheckIfWorkflowFinished, ReadError
  <2>2. /\ [coord EXCEPT !.pc = "complete"] \in CoordinatorState
        /\ [coord EXCEPT !.pc = "complete"].event = coord.event
    BY <1>0 DEF CoordinatorState, CoordinatorPC
  <2>3. /\ coord' \in CoordinatorState
        /\ coord'.pc \in {"decrement", "push", "check", "complete"} => coord'.event # NoEvent
    BY <1>0, <1>3, <1>14, <2>1, <2>2 DEF CheckIfWorkflowFinished, Select
  <2> QED
    BY <1>0, <1>1, <1>2, <1>14, <2>1, <2>3, CoordinatorFrame DEF CheckIfWorkflowFinished
<1>15. CASE CompleteWorkflow
  <2>1. PICK ok \in BOOLEAN : UpdateStatus(coord.event.executionID, "COMPLETED", ok)
    BY <1>15 DEF CompleteWorkflow
  <2>2. WorkflowRepositoryTypeOK' /\ faults' \in 0..MaxFaults
    BY <1>0, <2>1, UpdateStatusTyped DEF WorkflowStatus
  <2>3. completionsTotal.completed + 1 \in Nat
    BY <1>0 DEF Outcomes
  <2>4. completionsTotal' \in Outcomes
    BY <1>0, <1>15, <2>3 DEF CompleteWorkflow, Outcomes
  <2> QED
    BY <1>1, <1>2, <1>3, <1>15, <2>2, <2>4, CoordinatorFrame
       DEF CompleteWorkflow, Select
<1> QED
  BY <1>7, <1>8, <1>9, <1>11, <1>12, <1>13, <1>14, <1>15
     DEF CoordinatorAction, CoordinatorStep

-----------------------------------------------------------------------------
(* A request inserts well-typed rows and nothing else. *)
LEMMA InsertedRows ==
  ASSUME TableOK(tasks), NEW e \in Execution, NEW req \in Requests
  PROVE  /\ TaskIDs(e, req) \subseteq {e} \X (Nat \ {0})
         /\ TableOK(Inserted(e, req))
         /\ DOMAIN Inserted(e, req) = DOMAIN tasks \cup TaskIDs(e, req)
         /\ RootTasks(e, req) \subseteq TaskIDs(e, req)
<1>1. req \in Seq(TaskDTO) /\ DOMAIN req = 1..Len(req) /\ Len(req) \in Nat
  BY RequestsAssumption, LenProperties
<1>2. TaskIDs(e, req) \subseteq {e} \X (Nat \ {0})
  BY <1>1 DEF TaskIDs
<1>3. TaskIDs(e, req) \subseteq TaskID
  BY <1>2 DEF TaskID
<1>4. ASSUME NEW dto \in TaskDTO PROVE ToTask(e, dto) \in Task
  <2>1. dto.dependencies \in Seq(Ref) /\ dto.refID \in Ref /\ dto.action \in Action
    BY DEF TaskDTO
  <2>2. Len(dto.dependencies) \in Int
    BY <2>1, LenProperties
  <2>3. {dto.dependencies[i] : i \in DOMAIN dto.dependencies} \in SUBSET Ref
    BY <2>1, LenProperties, ElementOfSeq
  <2>4. (IF Len(dto.dependencies) = 0 THEN "QUEUED" ELSE "PENDING") \in TaskStatus
    BY DEF TaskStatus
  <2> QED BY <2>1, <2>2, <2>3, <2>4 DEF ToTask, Task
<1>5. \A t \in TaskIDs(e, req) : ToTasks(e, req)[t] \in Task
  <2>1. \A i \in DOMAIN req : req[i] \in TaskDTO
    BY <1>1, ElementOfSeq
  <2>2. \A t \in TaskIDs(e, req) : t[2] \in DOMAIN req
    BY DEF TaskIDs
  <2> QED BY <1>4, <2>1, <2>2 DEF ToTasks
<1>6. TableOK(Inserted(e, req))
  BY <1>3, <1>5 DEF TableOK, Inserted
<1> QED BY <1>2, <1>6 DEF Inserted, RootTasks

LEMMA ServiceKeepsTypes ==
  ASSUME TypeOK, NEW e \in Execution, ServiceAction(e)
  PROVE  TypeOK'
<1>0. /\ faults \in 0..MaxFaults /\ TableOK(tasks)
      /\ WorkflowRepositoryTypeOK /\ RedisEventBusTypeOK /\ WorkerTypeOK
      /\ RedisQueueTypeOK(DOMAIN tasks) /\ CoordinatorTypeOK /\ WorkflowServiceTypeOK
  BY DEF TypeOK, TableOK, TaskRepositoryTypeOK
<1>1. UNCHANGED <<busVars, thread, coord, completionsTotal>>
  BY DEF ServiceAction
<1>2. RedisEventBusTypeOK'
  BY <1>0, <1>1 DEF busVars, RedisEventBusTypeOK
<1>3. DOMAIN tasks \subseteq DOMAIN tasks' => WorkerTypeOK' /\ CoordinatorTypeOK'
  BY <1>0, <1>1 DEF WorkerTypeOK, CoordinatorTypeOK
<1>4. CASE CreateExecution(e)
  <2>1. PICK req \in Requests :
          \/ /\ tasks' = Inserted(e, req)
             /\ executions' = [executions EXCEPT ![e] = "RUNNING"]
             /\ \/ /\ submit' = [submit EXCEPT ![e] = AfterCreate(RootTasks(e, req))]
                   /\ NoFault
                \/ /\ submit' = [submit EXCEPT ![e] = Submitted("error", {})]
                   /\ Fault("db")
          \/ /\ UNCHANGED <<tasks, executions>>
             /\ submit' = [submit EXCEPT ![e] = Submitted("error", {})]
             /\ Fault("db")
    BY <1>4 DEF CreateExecution
  <2>2. TableOK(tasks') /\ DOMAIN tasks \subseteq DOMAIN tasks'
    <3>1. CASE tasks' = Inserted(e, req)
      BY <1>0, <3>1, InsertedRows, Zenon
    <3>2. CASE UNCHANGED tasks
      BY <1>0, <3>2 DEF TableOK
    <3> QED BY <2>1, <3>1, <3>2
  <2>3. faults' \in 0..MaxFaults
    BY <1>0, <2>1, FaultBounded
  <2>4. WorkflowRepositoryTypeOK'
    BY <1>0, <2>1 DEF WorkflowRepositoryTypeOK, WorkflowStatus
  <2>5. queue' \in [QueueName -> Seq(DOMAIN tasks')]
    BY <1>0, <1>4, <2>2, SeqMonotonic DEF CreateExecution, RedisQueueTypeOK
  <2>6. ASSUME submit' = [submit EXCEPT ![e] = AfterCreate(RootTasks(e, req))],
               tasks' = Inserted(e, req)
        PROVE  WorkflowServiceTypeOK'
    <3>1. RootTasks(e, req) \in SUBSET DOMAIN tasks'
      BY <1>0, <2>6, InsertedRows
    <3>2. AfterCreate(RootTasks(e, req)) \in [pc: SubmitPC, roots: SUBSET DOMAIN tasks']
      BY <3>1 DEF AfterCreate, Submitted, SubmitPC
    <3>3. submit \in [Execution -> [pc: SubmitPC, roots: SUBSET DOMAIN tasks']]
      BY <1>0, <2>2 DEF WorkflowServiceTypeOK
    <3> QED BY <2>6, <3>2, <3>3 DEF WorkflowServiceTypeOK
  <2>7. ASSUME submit' = [submit EXCEPT ![e] = Submitted("error", {})]
        PROVE  WorkflowServiceTypeOK'
    <3>1. Submitted("error", {}) \in [pc: SubmitPC, roots: SUBSET DOMAIN tasks']
      BY DEF Submitted, SubmitPC
    <3>2. submit \in [Execution -> [pc: SubmitPC, roots: SUBSET DOMAIN tasks']]
      BY <1>0, <2>2 DEF WorkflowServiceTypeOK
    <3> QED BY <2>7, <3>1, <3>2 DEF WorkflowServiceTypeOK
  <2>8. WorkflowServiceTypeOK'
    BY <2>1, <2>6, <2>7
  <2> QED
    BY <1>2, <1>3, <2>2, <2>3, <2>4, <2>5, <2>8
       DEF TypeOK, TableOK, TaskRepositoryTypeOK, RedisQueueTypeOK
<1>5. CASE EnqueueRootTask(e)
  <2>1. PICK t \in submit[e].roots, ok \in BOOLEAN :
          /\ Push("main", t, ok)
          /\ \/ submit' = [submit EXCEPT ![e] = AfterPush(e, t)]
             \/ submit' = [submit EXCEPT ![e] = Submitted("error", {})]
    BY <1>5 DEF EnqueueRootTask
  <2>2. t \in DOMAIN tasks /\ "main" \in QueueName
    BY <1>0 DEF WorkflowServiceTypeOK, QueueName
  <2>3. queue' \in [QueueName -> Seq(DOMAIN tasks)] /\ faults' \in 0..MaxFaults
    BY <1>0, <2>1, <2>2, PushTyped
  <2>4. UNCHANGED <<tasks, executions>>
    BY <1>5 DEF EnqueueRootTask
  <2>5. submit[e].roots \ {t} \in SUBSET DOMAIN tasks
    BY <1>0 DEF WorkflowServiceTypeOK
  <2>6. /\ AfterPush(e, t) \in [pc: SubmitPC, roots: SUBSET DOMAIN tasks]
        /\ Submitted("error", {}) \in [pc: SubmitPC, roots: SUBSET DOMAIN tasks]
    BY <2>5 DEF AfterPush, AfterCreate, Submitted, SubmitPC
  <2>7. WorkflowServiceTypeOK'
    BY <1>0, <2>1, <2>4, <2>6 DEF WorkflowServiceTypeOK
  <2> QED
    BY <1>0, <1>2, <1>3, <2>3, <2>4, <2>7
       DEF TypeOK, TableOK, TaskRepositoryTypeOK, RedisQueueTypeOK, WorkflowRepositoryTypeOK
<1> QED BY <1>4, <1>5 DEF ServiceAction, SubmitStep

LEMMA BusKeepsTypes ==
  ASSUME TypeOK, NEW ch \in ChannelName, BusAction(ch)
  PROVE  TypeOK'
<1>1. UNCHANGED <<tasks, executions, queue, thread, coord, completionsTotal, submit>>
  BY DEF BusAction
<1>2. faults' \in 0..MaxFaults
  BY FaultBounded DEF TypeOK, BusAction, Subscribed, Disconnect
<1>3. RedisEventBusTypeOK'
  <2>1. \A kept \in 0..1 :
          SubSeq(channel[ch], 1, IF channel[ch] = <<>> THEN 0 ELSE kept) \in Seq(AnyEvent)
    <3>1. channel[ch] \in Seq(AnyEvent)
      BY DEF TypeOK, RedisEventBusTypeOK, AnyEvent
    <3>2. channel[ch] # <<>> => 1 <= Len(channel[ch])
      BY <3>1, EmptySeq, LenProperties
    <3>3. ASSUME NEW kept \in 0..1
          PROVE  \A i \in 1..(IF channel[ch] = <<>> THEN 0 ELSE kept) : channel[ch][i] \in AnyEvent
      BY <3>1, <3>2, ElementOfSeq, LenProperties
    <3> QED BY <3>3, SubSeqProperties
  <2> QED
    BY <2>1 DEF TypeOK, BusAction, Subscribed, Disconnect, RedisEventBusTypeOK, AnyEvent
<1> QED
  BY <1>1, <1>2, <1>3 DEF TypeOK, TaskRepositoryTypeOK, WorkflowRepositoryTypeOK,
     RedisQueueTypeOK, WorkerTypeOK, CoordinatorTypeOK, WorkflowServiceTypeOK

LEMMA CrashKeepsTypes ==
  ASSUME TypeOK, Crash
  PROVE  TypeOK'
<1>1. UNCHANGED <<tasks, executions, queue>> /\ faults' \in 0..MaxFaults
  BY FaultBounded DEF TypeOK, Crash
<1>2. WorkerTypeOK'
  BY DEF Crash, WorkerTypeOK, Idle, ThreadPC
<1>3. CoordinatorTypeOK'
  BY DEF Crash, CoordinatorTypeOK, Listening, CoordinatorAt, NoOutcome, CoordinatorPC
<1>4. RedisEventBusTypeOK'
  BY EmptySeq DEF Crash, RedisEventBusTypeOK, NoMessages, Subscriptions
<1>5. WorkflowServiceTypeOK'
  <2>1. Submitted("error", {}) \in [pc: SubmitPC, roots: SUBSET DOMAIN tasks]
    BY DEF Submitted, SubmitPC
  <2> QED BY <1>1, <2>1 DEF TypeOK, Crash, WorkflowServiceTypeOK
<1> QED
  BY <1>1, <1>2, <1>3, <1>4, <1>5 DEF TypeOK, TaskRepositoryTypeOK,
     WorkflowRepositoryTypeOK, RedisQueueTypeOK

LEMMA InitTypes == Init => TypeOK
<1> SUFFICES ASSUME Init PROVE TypeOK
  OBVIOUS
<1>1. faults \in 0..MaxFaults
  BY FaultsAssumption DEF Init
<1>2. TaskRepositoryTypeOK /\ WorkflowRepositoryTypeOK
  BY DEF Init, TaskRepositoryInit, TaskRepositoryTypeOK, WorkflowRepositoryInit,
         WorkflowRepositoryTypeOK
<1>3. RedisQueueTypeOK(DOMAIN tasks) /\ RedisEventBusTypeOK
  BY EmptySeq DEF Init, RedisQueueInit, RedisQueueTypeOK, RedisEventBusInit, NoMessages,
     Subscriptions, RedisEventBusTypeOK
<1>4. WorkerTypeOK
  BY DEF Init, WorkerInit, WorkerTypeOK, Idle, ThreadPC
<1>5. CoordinatorTypeOK
  BY DEF Init, CoordinatorInit, CoordinatorTypeOK, Listening, CoordinatorAt, NoOutcome,
     CoordinatorPC
<1>6. WorkflowServiceTypeOK
  BY DEF Init, WorkflowServiceInit, WorkflowServiceTypeOK, Submitted, SubmitPC
<1> QED BY <1>1, <1>2, <1>3, <1>4, <1>5, <1>6 DEF TypeOK

(* Every variable of the server keeps its type, whatever the requests, the  *)
(* handlers and the faults.                                                 *)
THEOREM TypeCorrect == Spec => []TypeOK
<1>1. Init => TypeOK
  BY InitTypes
<1>2. TypeOK /\ [Next]_vars => TypeOK'
  <2> SUFFICES ASSUME TypeOK, [Next]_vars PROVE TypeOK'
    OBVIOUS
  <2>1. CASE Next
    BY <2>1, WorkerKeepsTypes, CoordinatorKeepsTypes, ServiceKeepsTypes, BusKeepsTypes,
       CrashKeepsTypes DEF Next
  <2>2. CASE UNCHANGED vars
    BY <2>2 DEF vars, TypeOK, TaskRepositoryTypeOK, WorkflowRepositoryTypeOK,
       RedisQueueTypeOK, RedisEventBusTypeOK, WorkerTypeOK, CoordinatorTypeOK,
       WorkflowServiceTypeOK
  <2> QED BY <2>1, <2>2
<1> QED BY <1>1, <1>2, PTL DEF Spec

-----------------------------------------------------------------------------
(* SingleDelivery is not inductive alone.  A task is pushed by the service  *)
(* when its in-degree is zero from the start, and by the coordinator in the *)
(* one step that takes the in-degree from one to zero; so a task whose      *)
(* in-degree is positive is nowhere (DeliveredOnlyWhenReady), and a request *)
(* inserts tasks nobody has seen (FreshSubmissions).                        *)
FreshSubmissions ==
  \A e \in Execution :
    /\ \A t \in submit[e].roots : t[1] = e
    /\ submit[e].pc = "new" =>
         submit[e].roots = {} /\ \A t \in DOMAIN tasks : t[1] # e

DeliveryInv == SingleDelivery /\ DeliveredOnlyWhenReady /\ FreshSubmissions

(* A step gives t no new place, *)
GainsNoPlace(t) ==
  /\ t \in DOMAIN tasks
  /\ Queued(t)' => Queued(t)
  /\ \A w \in Thread : Holds(w, t)' => Holds(w, t)
  /\ t \in coord'.ready => t \in coord.ready
  /\ AwaitsSubmit(t)' => AwaitsSubmit(t)
  /\ tasks'[t].inDegree > 0 => tasks[t].inDegree > 0

(* ... or leaves it in at most one. *)
LandsInOnePlace(t) ==
  /\ InOnePlace(t)'
  /\ \A w, v \in Thread : Holds(w, t)' /\ Holds(v, t)' => w = v
  /\ tasks'[t].inDegree > 0 => Nowhere(t)'

OnlyMoves(moved) ==
  /\ UniqueInQueues'
  /\ \A t \in DOMAIN tasks' \ moved : GainsNoPlace(t)
  /\ \A t \in moved : LandsInOnePlace(t)

(* Only the tasks a step moves have to be looked at. *)
LEMMA Deliveries ==
  ASSUME DeliveryInv, NEW moved, OnlyMoves(moved)
  PROVE  SingleDelivery' /\ DeliveredOnlyWhenReady'
<1> USE DEF OnlyMoves, GainsNoPlace, LandsInOnePlace
<1>1. ASSUME NEW t \in DOMAIN tasks'
      PROVE  InOnePlace(t)' /\ (tasks'[t].inDegree > 0 => Nowhere(t)')
  <2>1. CASE t \in moved
    BY <2>1
  <2>2. CASE t \notin moved
    <3>1. /\ HeldByThread(t)' => HeldByThread(t)
          /\ tasks[t].inDegree > 0 => Nowhere(t)
          /\ InOnePlace(t)
      BY <2>2 DEF HeldByThread, DeliveryInv, DeliveredOnlyWhenReady, SingleDelivery
    <3> QED BY <2>2, <3>1 DEF InOnePlace, Nowhere
  <2> QED BY <2>1, <2>2
<1>2. UniqueInThreads'
  <2>1. ASSUME NEW w \in Thread, NEW v \in Thread, NEW t \in DOMAIN tasks',
               Holds(w, t)', Holds(v, t)'
        PROVE  w = v
    BY <2>1 DEF DeliveryInv, SingleDelivery, UniqueInThreads
  <2> QED BY <2>1 DEF UniqueInThreads
<1> QED BY <1>1, <1>2 DEF SingleDelivery, DeliveredOnlyWhenReady

-----------------------------------------------------------------------------
LEMMA PushUnique ==
  ASSUME NEW ids, RedisQueueTypeOK(ids), UniqueInQueues, NEW q \in QueueName, NEW t \in ids,
         ~Queued(t), NEW ok, Push(q, t, ok), "dupPush" \notin FaultKinds
  PROVE  UniqueInQueues' /\ \A u : Queued(u)' => Queued(u) \/ u = t
<1>1. queue' \in {queue, Pushed(q, t)}
  BY DEF Push, Fault
<1>2. CASE queue' = queue
  BY <1>2 DEF UniqueInQueues, Queued, InQueue, Range
<1>3. CASE queue' = Pushed(q, t)
  <2>1. \A r \in QueueName : queue[r] \in Seq(ids)
    BY DEF RedisQueueTypeOK
  <2>2. \A r \in QueueName : Len(queue[r]) \in Nat /\ DOMAIN queue[r] = 1..Len(queue[r])
    BY <2>1, LenProperties
  <2>3. /\ \A r \in QueueName \ {q} : queue'[r] = queue[r]
        /\ queue'[q] = Append(queue[q], t)
    BY <1>3 DEF Pushed, RedisQueueTypeOK
  <2>4. /\ DOMAIN queue'[q] = 1..(Len(queue[q]) + 1)
        /\ queue'[q][Len(queue[q]) + 1] = t
        /\ \A i \in 1..Len(queue[q]) : queue'[q][i] = queue[q][i]
    BY <2>1, <2>2, <2>3
  <2>5. \A r \in QueueName : \A i \in DOMAIN queue[r] : queue[r][i] # t
    BY DEF Queued, InQueue, Range
  <2>6. UniqueInQueues'
    <3>1. ASSUME NEW r \in QueueName, NEW i \in DOMAIN queue'[r]
          PROVE  \/ i \in DOMAIN queue[r] /\ queue'[r][i] = queue[r][i]
                 \/ r = q /\ i = Len(queue[q]) + 1 /\ queue'[r][i] = t
      BY <2>2, <2>3, <2>4
    <3>2. ASSUME NEW r \in QueueName, NEW s \in QueueName,
                 NEW i \in DOMAIN queue'[r], NEW j \in DOMAIN queue'[s],
                 queue'[r][i] = queue'[s][j]
          PROVE  r = s /\ i = j
      BY <2>5, <3>1, <3>2 DEF UniqueInQueues
    <3> QED BY <3>2 DEF UniqueInQueues
  <2>7. \A u : Queued(u)' => Queued(u) \/ u = t
    BY <2>2, <2>3, <2>4 DEF Queued, InQueue, Range
  <2> QED BY <2>6, <2>7
<1> QED BY <1>1, <1>2, <1>3

LEMMA PopUnique ==
  ASSUME NEW ids, RedisQueueTypeOK(ids), UniqueInQueues, NEW q \in QueueName, NEW t, NEW ok,
         Pop(q, t, ok)
  PROVE  UniqueInQueues' /\ Queued(t) /\ ~Queued(t)' /\ \A u : Queued(u)' => Queued(u)
<1>1. \A r \in QueueName : queue[r] \in Seq(ids)
  BY DEF RedisQueueTypeOK
<1>2. \A r \in QueueName : Len(queue[r]) \in Nat /\ DOMAIN queue[r] = 1..Len(queue[r])
  BY <1>1, LenProperties
<1>3. /\ \A r \in QueueName \ {q} : queue'[r] = queue[r]
      /\ queue'[q] = Tail(queue[q])
  BY DEF Pop, RedisQueueTypeOK
<1>4. queue[q] # <<>> /\ Len(queue[q]) >= 1 /\ t = queue[q][1]
  BY <1>1, <1>2, EmptySeq DEF Pop
<1>5. /\ DOMAIN queue'[q] = 1..(Len(queue[q]) - 1)
      /\ \A i \in 1..(Len(queue[q]) - 1) : queue'[q][i] = queue[q][i + 1]
  BY <1>1, <1>3, <1>4, HeadTailProperties, LenProperties
<1>6. ASSUME NEW r \in QueueName, NEW i \in DOMAIN queue'[r]
      PROVE  /\ r # q => i \in DOMAIN queue[r] /\ queue'[r][i] = queue[r][i]
             /\ r = q => i \in Int /\ i + 1 \in DOMAIN queue[r] /\ queue'[r][i] = queue[r][i + 1]
  <2>1. CASE r # q
    BY <1>3, <1>6, <2>1
  <2>2. CASE r = q
    <3>1. i \in 1..(Len(queue[q]) - 1) /\ Len(queue[q]) \in Nat
      BY <1>2, <1>5, <1>6, <2>2
    <3>2. i \in Int /\ i + 1 \in 1..Len(queue[q])
      BY <3>1
    <3> QED BY <1>2, <1>5, <2>2, <3>1, <3>2
  <2> QED BY <2>1, <2>2
<1>7. UniqueInQueues'
  <2>1. ASSUME NEW r \in QueueName, NEW s \in QueueName,
               NEW i \in DOMAIN queue'[r], NEW j \in DOMAIN queue'[s],
               queue'[r][i] = queue'[s][j]
        PROVE  r = s /\ i = j
    <3>1. r = s
      BY <1>6, <2>1 DEF UniqueInQueues
    <3>2. r # q => i = j
      BY <1>6, <2>1, <3>1 DEF UniqueInQueues
    <3>3. r = q => i + 1 = j + 1
      BY <1>6, <2>1, <3>1 DEF UniqueInQueues
    <3>4. r = q => i \in Int /\ j \in Int
      BY <1>6, <3>1
    <3> QED BY <3>1, <3>2, <3>3, <3>4
  <2> QED BY <2>1 DEF UniqueInQueues
<1>8. Queued(t)
  BY <1>2, <1>4 DEF Queued, InQueue, Range
<1>9. \A u : Queued(u)' => Queued(u)
  <2>1. \A r \in QueueName : \A i \in DOMAIN queue'[r] :
          \E j \in DOMAIN queue[r] : queue'[r][i] = queue[r][j]
    BY <1>6
  <2> QED BY <2>1 DEF Queued, InQueue, Range
<1>10. ~Queued(t)'
  <2>1. \A i \in DOMAIN queue'[q] : queue'[q][i] # t
    BY <1>2, <1>4, <1>5 DEF UniqueInQueues
  <2>2. \A r \in QueueName \ {q} : \A i \in DOMAIN queue'[r] : queue'[r][i] # t
    BY <1>2, <1>3, <1>4 DEF UniqueInQueues
  <2> QED BY <2>1, <2>2 DEF Queued, InQueue, Range
<1> QED BY <1>7, <1>8, <1>9, <1>10

-----------------------------------------------------------------------------
(* Except for the pops and the retry push, a step of a thread touches no    *)
(* queue and no in-degree, and the thread keeps its task or lets go of it.  *)
KeepsPlaces(w) ==
  /\ UNCHANGED queue
  /\ DOMAIN tasks' = DOMAIN tasks /\ SameInDegrees(tasks')
  /\ \A v \in Thread \ {w} : thread'[v] = thread[v]
  /\ thread'[w].pc # "pop" => thread[w].pc # "pop" /\ thread'[w].task = thread[w].task

LEMMA ThreadMoves ==
  ASSUME WorkerTypeOK, NEW w \in Thread
  PROVE  /\ \A th : Become(w, th) => thread'[w] = th /\ \A v \in Thread \ {w} : thread'[v] = thread[v]
         /\ \A pc : Goto(w, pc) => /\ thread'[w].pc = pc /\ thread'[w].task = thread[w].task
                                   /\ \A v \in Thread \ {w} : thread'[v] = thread[v]
         /\ Return(w) => thread'[w].pc = "pop" /\ \A v \in Thread \ {w} : thread'[v] = thread[v]
         /\ AfterClaim(thread[w]).task = thread[w].task
         /\ \A t \in DOMAIN tasks : Fetched(t).task = t
BY DEF WorkerTypeOK, Become, Goto, Return, Idle, AfterClaim, Fetched

LEMMA WorkerKeepsPlaces ==
  ASSUME TypeOK, NEW w \in Thread, ProcessNextTask(w), ~PopTask(w), ~PushRetry(w)
  PROVE  KeepsPlaces(w)
<1> USE DEF At
<1>1. TableOK(tasks) /\ WorkerTypeOK
  BY DEF TypeOK, TableOK, TaskRepositoryTypeOK
<1>2. thread[w].pc # "pop" => thread[w].task \in DOMAIN tasks
  BY <1>1 DEF WorkerTypeOK
<1>3. UNCHANGED tasks => DOMAIN tasks' = DOMAIN tasks /\ SameInDegrees(tasks')
  BY DEF SameInDegrees
<1>4. ASSUME thread[w].pc # "pop", UNCHANGED queue,
             DOMAIN tasks' = DOMAIN tasks, SameInDegrees(tasks'),
             \/ \E pc : Goto(w, pc)
             \/ Return(w)
             \/ Become(w, AfterClaim(thread[w]))
             \/ Become(w, Fetched(thread[w].task))
      PROVE  KeepsPlaces(w)
  <2>1. \A v \in Thread \ {w} : thread'[v] = thread[v]
    BY <1>1, <1>4, ThreadMoves
  <2>2. thread'[w].pc # "pop" => thread'[w].task = thread[w].task
    <3>1. CASE \E pc : Goto(w, pc)
      BY <1>1, <3>1, ThreadMoves
    <3>2. CASE Return(w)
      BY <1>1, <3>2, ThreadMoves
    <3>3. CASE Become(w, AfterClaim(thread[w]))
      BY <1>1, <3>3, ThreadMoves
    <3>4. CASE Become(w, Fetched(thread[w].task))
      BY <1>1, <1>2, <1>4, <3>4, ThreadMoves
    <3> QED BY <1>4, <3>1, <3>2, <3>3, <3>4
  <2> QED BY <1>4, <2>1, <2>2 DEF KeepsPlaces
<1>5. ASSUME NEW table, NEW ok, Write(table, ok), SameInDegrees(table),
             DOMAIN table = DOMAIN tasks
      PROVE  DOMAIN tasks' = DOMAIN tasks /\ SameInDegrees(tasks')
  BY <1>5 DEF Write, SameInDegrees
<1>6. ASSUME thread[w].pc # "pop"
      PROVE  LET t == thread[w].task
                 v == thread[w].version
             IN  /\ SameInDegrees(Claimed(t, v)) /\ DOMAIN Claimed(t, v) = DOMAIN tasks
                 /\ SameInDegrees(Retried(t, v)) /\ DOMAIN Retried(t, v) = DOMAIN tasks
                 /\ \A status : SameInDegrees(Marked(t, status))
                                /\ DOMAIN Marked(t, status) = DOMAIN tasks
  BY <1>1, <1>2, <1>6, UpdatesKeepInDegrees DEF Claimed, Retried, Marked
<1>7. CASE FindTask(w)
  BY <1>3, <1>4, <1>7 DEF FindTask, ReadError
<1>8. CASE SkipTask(w)
  BY <1>4, <1>5, <1>6, <1>8 DEF SkipTask, MarkSkipped
<1>9. CASE PublishSkipped(w) \/ PublishUnknown(w) \/ PublishFailed(w) \/ PublishCompleted(w)
  BY <1>3, <1>4, <1>9 DEF PublishSkipped, PublishUnknown, PublishFailed, PublishCompleted
<1>10. CASE Claim(w)
  BY <1>3, <1>4, <1>5, <1>6, <1>10 DEF Claim, ClaimTask
<1>11. CASE ExecuteHandler(w)
  BY <1>3, <1>4, <1>11 DEF ExecuteHandler
<1>12. CASE MarkUnknown(w) \/ FailTask(w)
  BY <1>4, <1>5, <1>6, <1>12 DEF MarkUnknown, FailTask, MarkFailed
<1>13. CASE FailUnknown(w) \/ FailWorkflow(w)
  BY <1>3, <1>4, <1>13 DEF FailUnknown, FailWorkflow
<1>14. CASE Retry(w)
  BY <1>3, <1>4, <1>5, <1>6, <1>14 DEF Retry, IncrementRetryCount
<1>15. CASE CompleteTask(w)
  BY <1>4, <1>5, <1>6, <1>15 DEF CompleteTask, MarkCompleted
<1> QED
  BY <1>7, <1>8, <1>9, <1>10, <1>11, <1>12, <1>13, <1>14, <1>15 DEF ProcessNextTask

-----------------------------------------------------------------------------
LEMMA SubmissionsUntouched ==
  ASSUME FreshSubmissions, UNCHANGED submit, DOMAIN tasks' = DOMAIN tasks
  PROVE  FreshSubmissions'
BY DEF FreshSubmissions

LEMMA WorkerKeepsDelivery ==
  ASSUME TypeOK, DeliveryInv, NEW w \in Thread, WorkerAction(w), "dupPush" \notin FaultKinds
  PROVE  DeliveryInv'
<1> USE DEF At
<1>0. /\ RedisQueueTypeOK(DOMAIN tasks) /\ WorkerTypeOK /\ UniqueInQueues /\ UniqueInThreads
      /\ FreshSubmissions /\ \A t \in DOMAIN tasks : InOnePlace(t)
      /\ \A t \in DOMAIN tasks : tasks[t].inDegree > 0 => Nowhere(t)
  BY DEF TypeOK, DeliveryInv, SingleDelivery, DeliveredOnlyWhenReady
<1>1. UNCHANGED <<coord, submit>> /\ \A t : AwaitsSubmit(t)' => AwaitsSubmit(t)
  BY DEF WorkerAction, AwaitsSubmit
<1>2. thread[w].pc # "pop" => thread[w].task \in DOMAIN tasks /\ HeldByThread(thread[w].task)
  BY <1>0 DEF WorkerTypeOK, HeldByThread, Holds
<1>3. CASE KeepsPlaces(w)
  <2>1. UniqueInQueues' /\ \A t : Queued(t)' => Queued(t)
    BY <1>0, <1>3 DEF KeepsPlaces, UniqueInQueues, Queued, InQueue
  <2>2. ASSUME NEW t, NEW v \in Thread, Holds(v, t)' PROVE Holds(v, t)
    BY <1>3, <2>2 DEF KeepsPlaces, Holds
  <2>3. DOMAIN tasks' = DOMAIN tasks
        /\ \A t \in DOMAIN tasks : tasks'[t].inDegree > 0 => tasks[t].inDegree > 0
    BY <1>3 DEF KeepsPlaces, SameInDegrees
  <2>4. SingleDelivery' /\ DeliveredOnlyWhenReady'
    <3>1. OnlyMoves({})
      BY <1>1, <2>1, <2>2, <2>3 DEF OnlyMoves, GainsNoPlace
    <3> QED BY <3>1, Deliveries
  <2> QED BY <1>0, <1>1, <2>3, <2>4, SubmissionsUntouched DEF DeliveryInv
<1>4. CASE PopTask(w)
  <2>1. PICK u \in DOMAIN tasks, ok \in BOOLEAN :
          /\ Pop(SourceQueue(w), u, ok)
          /\ \/ Become(w, [Idle EXCEPT !.pc = "find", !.task = u])
             \/ Return(w)
    BY <1>4 DEF PopTask
  <2>2. UniqueInQueues' /\ Queued(u) /\ ~Queued(u)' /\ \A t : Queued(t)' => Queued(t)
    BY <1>0, <2>1, PopUnique DEF SourceQueue, QueueName
  <2>3. ~HeldByThread(u) /\ u \notin coord.ready /\ ~AwaitsSubmit(u) /\ ~(tasks[u].inDegree > 0)
    BY <1>0, <2>2 DEF InOnePlace, Nowhere
  <2>4. UNCHANGED tasks
    BY <1>4 DEF PopTask
  <2>5. /\ \A v \in Thread \ {w} : thread'[v] = thread[v]
        /\ thread'[w].pc # "pop" => thread'[w].task = u
    <3>1. Return(w) => thread'[w].pc = "pop" /\ \A v \in Thread \ {w} : thread'[v] = thread[v]
      BY <1>0, ThreadMoves
    <3>2. Become(w, [Idle EXCEPT !.pc = "find", !.task = u]) =>
            thread'[w].task = u /\ \A v \in Thread \ {w} : thread'[v] = thread[v]
      BY <1>0 DEF WorkerTypeOK, Become, Idle
    <3> QED BY <2>1, <3>1, <3>2
  <2>6. ASSUME NEW t, t # u, NEW v \in Thread, Holds(v, t)' PROVE Holds(v, t)
    BY <2>5, <2>6 DEF Holds
  <2>7. ASSUME NEW v \in Thread, Holds(v, u)' PROVE v = w
    BY <2>3, <2>5, <2>7 DEF Holds, HeldByThread
  <2>8. InOnePlace(u)' /\ ~(tasks'[u].inDegree > 0)
    BY <1>1, <2>2, <2>3, <2>4 DEF InOnePlace
  <2>9. SingleDelivery' /\ DeliveredOnlyWhenReady'
    <3>1. \A t \in DOMAIN tasks' \ {u} : GainsNoPlace(t)
      BY <1>1, <2>2, <2>4, <2>6 DEF GainsNoPlace
    <3>2. LandsInOnePlace(u)
      BY <2>7, <2>8 DEF LandsInOnePlace
    <3>3. OnlyMoves({u})
      BY <2>2, <3>1, <3>2 DEF OnlyMoves
    <3> QED BY <3>3, Deliveries
  <2> QED BY <1>0, <1>1, <2>4, <2>9, SubmissionsUntouched DEF DeliveryInv
<1>5. CASE PushRetry(w)
  <2>1. PICK u \in DOMAIN tasks : u = thread[w].task /\ HeldByThread(u)
    BY <1>2, <1>5 DEF PushRetry
  <2>2. ~Queued(u) /\ u \notin coord.ready /\ ~AwaitsSubmit(u) /\ ~(tasks[u].inDegree > 0)
    BY <1>0, <2>1 DEF InOnePlace, Nowhere
  <2>3. UniqueInQueues' /\ \A t : Queued(t)' => Queued(t) \/ t = u
    BY <1>0, <1>5, <2>1, <2>2, PushUnique DEF PushRetry, QueueName
  <2>4. UNCHANGED tasks
    BY <1>5 DEF PushRetry
  <2>5. /\ \A v \in Thread \ {w} : thread'[v] = thread[v]
        /\ thread'[w].pc = "pop"
    BY <1>0, <1>5, ThreadMoves DEF PushRetry
  <2>6. ASSUME NEW t, NEW v \in Thread, Holds(v, t)' PROVE Holds(v, t) /\ v # w
    BY <2>5, <2>6 DEF Holds
  <2>7. ~HeldByThread(u)'
    BY <1>0, <1>5, <2>1, <2>6 DEF UniqueInThreads, HeldByThread, Holds, PushRetry
  <2>8. InOnePlace(u)' /\ ~(tasks'[u].inDegree > 0)
    BY <1>1, <2>2, <2>4, <2>7 DEF InOnePlace
  <2>9. \A v1, v2 \in Thread : Holds(v1, u)' /\ Holds(v2, u)' => v1 = v2
    BY <2>7 DEF HeldByThread
  <2>10. SingleDelivery' /\ DeliveredOnlyWhenReady'
    <3>1. \A t \in DOMAIN tasks' \ {u} : GainsNoPlace(t)
      BY <1>1, <2>3, <2>4, <2>6 DEF GainsNoPlace
    <3>2. LandsInOnePlace(u)
      BY <2>8, <2>9 DEF LandsInOnePlace
    <3>3. OnlyMoves({u})
      BY <2>3, <3>1, <3>2 DEF OnlyMoves
    <3> QED BY <3>3, Deliveries
  <2> QED BY <1>0, <1>1, <2>4, <2>10, SubmissionsUntouched DEF DeliveryInv
<1> QED BY <1>3, <1>4, <1>5, WorkerKeepsPlaces DEF WorkerAction

-----------------------------------------------------------------------------
(* The coordinator.  A task it finds ready had in-degree one and so was     *)
(* nowhere; it is in coord.ready from then until its push.                  *)
LEMMA DecrementDelivers ==
  ASSUME TypeOK, DeliveryInv, NEW e, NEW ref, NEW skip \in BOOLEAN,
         NEW ready \in SUBSET DOMAIN tasks, NEW ok \in BOOLEAN,
         DecrementInDegree(e, ref, skip, ready, ok),
         coord'.ready = IF ok THEN ready ELSE {},
         UNCHANGED <<queue, thread, submit>>
  PROVE  SingleDelivery' /\ DeliveredOnlyWhenReady' /\ DOMAIN tasks' = DOMAIN tasks
<1>0. /\ DOMAIN tasks' = DOMAIN tasks
      /\ \A t \in DOMAIN tasks : tasks[t] \in Task
  BY DEF TypeOK, TaskRepositoryTypeOK, DecrementInDegree, Write, Decremented
<1>1. UniqueInQueues'
  BY DEF DeliveryInv, SingleDelivery, UniqueInQueues
<1>2. \A t : /\ Queued(t)' => Queued(t)
             /\ HeldByThread(t)' => HeldByThread(t)
             /\ AwaitsSubmit(t)' => AwaitsSubmit(t)
             /\ \A w \in Thread : Holds(w, t)' => Holds(w, t)
  BY DEF Queued, InQueue, HeldByThread, Holds, AwaitsSubmit
<1>3. \A t \in DOMAIN tasks :
        DecrementedRow(tasks[t], skip).inDegree = tasks[t].inDegree - 1
  BY <1>0 DEF DecrementedRow, Task
<1>4. \A t \in DOMAIN tasks : tasks'[t].inDegree > 0 => tasks[t].inDegree > 0
  <2>1. tasks' \in {tasks, Decremented(e, ref, skip)}
    BY DEF DecrementInDegree, Write
  <2>2. ASSUME NEW t \in DOMAIN tasks
        PROVE  \/ tasks'[t].inDegree = tasks[t].inDegree
               \/ tasks'[t].inDegree = tasks[t].inDegree - 1
    BY <1>3, <2>1 DEF Decremented
  <2>3. \A t \in DOMAIN tasks : tasks[t].inDegree \in Int
    BY <1>0 DEF Task
  <2> QED BY <2>2, <2>3
<1>5. ASSUME ok, NEW t \in ready
      PROVE  /\ tasks[t].inDegree > 0
             /\ ~(tasks'[t].inDegree > 0)
  <2>1. t \in ReadyTasks(e, ref) /\ tasks' = Decremented(e, ref, skip)
    BY <1>5 DEF DecrementInDegree, Write
  <2>2. t \in DOMAIN tasks /\ t \in Children(e, ref)
        /\ DecrementedRow(tasks[t], FALSE).inDegree = 0
    BY <2>1 DEF ReadyTasks
  <2>3. tasks[t] \in Task
    BY <1>0, <2>2
  <2>4. tasks[t].inDegree - 1 = 0 /\ tasks[t].inDegree \in Int
    BY <2>2, <2>3 DEF DecrementedRow, Task
  <2>5. tasks'[t] = DecrementedRow(tasks[t], skip)
    BY <2>1, <2>2 DEF Decremented
  <2>6. tasks'[t].inDegree = tasks[t].inDegree - 1
    BY <1>3, <2>2, <2>5
  <2> QED BY <2>4, <2>6
<1>6. PICK moved : moved = IF ok THEN ready ELSE {}
  OBVIOUS
<1>7. ASSUME NEW t \in moved PROVE LandsInOnePlace(t)
  <2>1. t \in DOMAIN tasks /\ tasks[t].inDegree > 0 /\ ~(tasks'[t].inDegree > 0)
    BY <1>5, <1>6, <1>7
  <2>2. Nowhere(t)
    BY <2>1 DEF DeliveryInv, DeliveredOnlyWhenReady
  <2>3. ~Queued(t)' /\ ~HeldByThread(t)' /\ ~AwaitsSubmit(t)'
    BY <1>2, <2>2 DEF Nowhere
  <2>4. InOnePlace(t)'
    BY <2>3 DEF InOnePlace
  <2>5. \A w, v \in Thread : Holds(w, t)' /\ Holds(v, t)' => w = v
    BY <2>3 DEF HeldByThread
  <2> QED BY <2>1, <2>4, <2>5 DEF LandsInOnePlace
<1>8. ASSUME NEW t \in DOMAIN tasks' \ moved PROVE GainsNoPlace(t)
  BY <1>0, <1>2, <1>4, <1>6, <1>8 DEF GainsNoPlace
<1>9. OnlyMoves(moved)
  BY <1>1, <1>7, <1>8 DEF OnlyMoves
<1> QED BY <1>0, <1>9, Deliveries

LEMMA PushReadyDelivers ==
  ASSUME TypeOK, DeliveryInv, PushReady, UNCHANGED <<thread, submit>>,
         "dupPush" \notin FaultKinds
  PROVE  SingleDelivery' /\ DeliveredOnlyWhenReady' /\ UNCHANGED tasks
<1>0. /\ RedisQueueTypeOK(DOMAIN tasks) /\ UniqueInQueues
      /\ \A t \in DOMAIN tasks : InOnePlace(t)
      /\ \A t \in DOMAIN tasks : tasks[t].inDegree > 0 => Nowhere(t)
      /\ coord.ready \subseteq DOMAIN tasks
  BY DEF TypeOK, DeliveryInv, SingleDelivery, DeliveredOnlyWhenReady, CoordinatorTypeOK
<1>1. PICK u \in coord.ready, ok \in BOOLEAN :
        /\ Push("main", u, ok)
        /\ IF coord.ready = {u} THEN Select ELSE coord' = [coord EXCEPT !.ready = @ \ {u}]
  BY DEF PushReady
<1>2. coord'.ready \subseteq coord.ready \ {u}
  BY <1>1 DEF Select, CoordinatorAt, TypeOK, CoordinatorTypeOK
<1>3. u \in DOMAIN tasks /\ ~Queued(u) /\ ~HeldByThread(u) /\ ~AwaitsSubmit(u)
      /\ ~(tasks[u].inDegree > 0)
  BY <1>0, <1>1 DEF InOnePlace, Nowhere
<1>4. UniqueInQueues' /\ \A t : Queued(t)' => Queued(t) \/ t = u
  BY <1>0, <1>1, <1>3, PushUnique DEF QueueName
<1>5. UNCHANGED tasks
  BY DEF PushReady
<1>6. \A t : /\ HeldByThread(t)' => HeldByThread(t)
             /\ AwaitsSubmit(t)' => AwaitsSubmit(t)
             /\ \A w \in Thread : Holds(w, t)' => Holds(w, t)
  BY DEF HeldByThread, Holds, AwaitsSubmit
<1>7. InOnePlace(u)' /\ \A w, v \in Thread : Holds(w, u)' /\ Holds(v, u)' => w = v
  BY <1>2, <1>3, <1>6 DEF InOnePlace, HeldByThread
<1>8. LandsInOnePlace(u)
  BY <1>3, <1>5, <1>7 DEF LandsInOnePlace
<1>9. \A t \in DOMAIN tasks' \ {u} : GainsNoPlace(t)
  BY <1>2, <1>4, <1>5, <1>6 DEF GainsNoPlace
<1>10. OnlyMoves({u})
  BY <1>4, <1>8, <1>9 DEF OnlyMoves
<1> QED BY <1>5, <1>10, Deliveries

(* A step that leaves the rows and the lists alone and takes nothing up. *)
LEMMA LettingGo ==
  ASSUME DeliveryInv, UNCHANGED <<tasks, queue>>,
         coord'.ready \subseteq coord.ready,
         \A w \in Thread : \A t : Holds(w, t)' => Holds(w, t),
         \A t : AwaitsSubmit(t)' => AwaitsSubmit(t)
  PROVE  SingleDelivery' /\ DeliveredOnlyWhenReady'
<1>1. UniqueInQueues' /\ \A t : Queued(t)' => Queued(t)
  BY DEF DeliveryInv, SingleDelivery, UniqueInQueues, Queued, InQueue
<1>2. \A t \in DOMAIN tasks' : GainsNoPlace(t)
  BY <1>1 DEF GainsNoPlace
<1>3. OnlyMoves({})
  BY <1>1, <1>2 DEF OnlyMoves
<1> QED BY <1>3, Deliveries

LEMMA CoordinatorKeepsDelivery ==
  ASSUME TypeOK, DeliveryInv, CoordinatorAction, "dupPush" \notin FaultKinds
  PROVE  DeliveryInv'
<1>1. CoordinatorStep /\ UNCHANGED <<thread, submit>>
  BY DEF CoordinatorAction
<1>2. SingleDelivery' /\ DeliveredOnlyWhenReady' /\ DOMAIN tasks' = DOMAIN tasks
  <2>1. CASE HandleTaskCompleted
    <3>1. PICK ready \in SUBSET DOMAIN tasks, ok \in BOOLEAN :
            /\ DecrementInDegree(coord.event.executionID, coord.event.refID, FALSE, ready, ok)
            /\ IF ok THEN coord' = AfterDecrement(coord.event, ready) ELSE Select
      BY <2>1 DEF HandleTaskCompleted
    <3>2. coord'.ready = IF ok THEN ready ELSE {}
      BY <3>1 DEF AfterDecrement, Select, CoordinatorAt
    <3>3. UNCHANGED queue
      BY <2>1 DEF HandleTaskCompleted
    <3> QED BY <1>1, <3>1, <3>2, <3>3, DecrementDelivers
  <2>2. CASE HandleTaskTerminated
    <3>1. PICK ready \in SUBSET DOMAIN tasks, ok \in BOOLEAN :
            /\ DecrementInDegree(coord.event.executionID, coord.event.refID, TRUE, ready, ok)
            /\ IF ok /\ ready # {} THEN coord' = AfterDecrement(coord.event, ready) ELSE Select
      BY <2>2 DEF HandleTaskTerminated
    <3>2. coord'.ready = IF ok THEN ready ELSE {}
      BY <3>1 DEF AfterDecrement, Select, CoordinatorAt
    <3>3. UNCHANGED queue
      BY <2>2 DEF HandleTaskTerminated
    <3> QED BY <1>1, <3>1, <3>2, <3>3, DecrementDelivers
  <2>3. CASE PushReady
    BY <1>1, <2>3, PushReadyDelivers
  <2>4. ASSUME \/ SubscribeToEvents \/ SubscribeToTerminationEvents
               \/ \E ch \in ChannelName : ReceiveEvent(ch)
               \/ CheckIfWorkflowFinished \/ CompleteWorkflow
        PROVE  SingleDelivery' /\ DeliveredOnlyWhenReady' /\ DOMAIN tasks' = DOMAIN tasks
    <3>1. UNCHANGED <<tasks, queue>>
      BY <2>4 DEF SubscribeToEvents, SubscribeToTerminationEvents, ReceiveEvent,
         CheckIfWorkflowFinished, CompleteWorkflow, ReadError
    <3>2. coord'.ready \subseteq coord.ready
      <4>1. coord' = [coord EXCEPT !.pc = "complete"] => coord'.ready = coord.ready
        BY DEF TypeOK, CoordinatorTypeOK
      <4>2. Select => coord'.ready = {}
        BY DEF Select, CoordinatorAt
      <4>3. CASE CheckIfWorkflowFinished
        BY <4>1, <4>2, <4>3 DEF CheckIfWorkflowFinished
      <4>4. CASE SubscribeToEvents
        BY <4>4 DEF SubscribeToEvents, CoordinatorAt
      <4>5. CASE SubscribeToTerminationEvents \/ CompleteWorkflow
        BY <4>2, <4>5 DEF SubscribeToTerminationEvents, CompleteWorkflow
      <4>6. CASE \E ch \in ChannelName : ReceiveEvent(ch)
        BY <4>6 DEF ReceiveEvent
      <4> QED BY <2>4, <4>3, <4>4, <4>5, <4>6
    <3>3. \A t : /\ \A w \in Thread : Holds(w, t)' => Holds(w, t)
                 /\ AwaitsSubmit(t)' => AwaitsSubmit(t)
      BY <1>1 DEF Holds, AwaitsSubmit
    <3> QED BY <3>1, <3>2, <3>3, LettingGo
  <2> QED BY <1>1, <2>1, <2>2, <2>3, <2>4 DEF CoordinatorStep
<1>3. FreshSubmissions'
  BY <1>1, <1>2, SubmissionsUntouched DEF DeliveryInv
<1> QED BY <1>2, <1>3 DEF DeliveryInv

-----------------------------------------------------------------------------
(* The service.  The rows of a request are new to everybody. *)
LEMMA NewTasksAreNowhere ==
  ASSUME TypeOK, NEW t, t \notin DOMAIN tasks
  PROVE  ~Queued(t) /\ ~HeldByThread(t) /\ t \notin coord.ready /\ ~AwaitsSubmit(t)
<1>1. ~Queued(t)
  <2>1. ASSUME NEW q \in QueueName PROVE Range(queue[q]) \subseteq DOMAIN tasks
    <3>1. queue[q] \in Seq(DOMAIN tasks)
      BY DEF TypeOK, RedisQueueTypeOK
    <3>2. \A i \in DOMAIN queue[q] : queue[q][i] \in DOMAIN tasks
      BY <3>1, ElementOfSeq, LenProperties
    <3> QED BY <3>2 DEF Range
  <2> QED BY <2>1 DEF Queued, InQueue
<1>2. ~HeldByThread(t)
  BY DEF TypeOK, WorkerTypeOK, HeldByThread, Holds
<1>3. t \notin coord.ready /\ ~AwaitsSubmit(t)
  BY DEF TypeOK, CoordinatorTypeOK, WorkflowServiceTypeOK, AwaitsSubmit
<1> QED BY <1>1, <1>2, <1>3

LEMMA SubmissionMoves ==
  ASSUME TypeOK, NEW e \in Execution
  PROVE  \A pc, roots : submit' = [submit EXCEPT ![e] = Submitted(pc, roots)] =>
           /\ submit'[e].pc = pc /\ submit'[e].roots = roots
           /\ \A e2 \in Execution \ {e} : submit'[e2] = submit[e2]
BY DEF TypeOK, WorkflowServiceTypeOK, Submitted

LEMMA CreateKeepsDelivery ==
  ASSUME TypeOK, DeliveryInv, NEW e \in Execution, CreateExecution(e),
         UNCHANGED <<thread, coord>>
  PROVE  DeliveryInv'
<1>1. submit[e].pc = "new" /\ UNCHANGED queue
  BY DEF CreateExecution
<1>2. /\ \A t \in DOMAIN tasks : t[1] # e
      /\ \A e2 \in Execution : \A t \in submit[e2].roots : t[1] = e2
      /\ \A e2 \in Execution :
           submit[e2].pc = "new" =>
             submit[e2].roots = {} /\ \A t \in DOMAIN tasks : t[1] # e2
  BY <1>1 DEF DeliveryInv, FreshSubmissions
<1>3. PICK req \in Requests, pc \in {"created", "push", "error"} : \E roots :
        /\ submit' = [submit EXCEPT ![e] = Submitted(pc, roots)]
        /\ \/ tasks' = Inserted(e, req) /\ roots = RootTasks(e, req)
           \/ tasks' \in {tasks, Inserted(e, req)} /\ roots = {}
  <2>1. \A R : \E pc \in {"created", "push", "error"} : AfterCreate(R) = Submitted(pc, R)
    BY DEF AfterCreate
  <2>2. PICK req \in Requests :
          \/ tasks' = Inserted(e, req)
             /\ submit' = [submit EXCEPT ![e] = AfterCreate(RootTasks(e, req))]
          \/ tasks' \in {tasks, Inserted(e, req)}
             /\ submit' = [submit EXCEPT ![e] = Submitted("error", {})]
    BY Zenon DEF CreateExecution
  <2>3. PICK pc \in {"created", "push", "error"} :
          AfterCreate(RootTasks(e, req)) = Submitted(pc, RootTasks(e, req))
    BY <2>1
  <2> QED BY <2>2, <2>3
<1>3a. PICK roots :
         /\ submit' = [submit EXCEPT ![e] = Submitted(pc, roots)]
         /\ \/ tasks' = Inserted(e, req) /\ roots = RootTasks(e, req)
            \/ tasks' \in {tasks, Inserted(e, req)} /\ roots = {}
  BY <1>3
<1>4. /\ submit'[e].pc # "new" /\ submit'[e].roots = roots
      /\ \A e2 \in Execution \ {e} : submit'[e2] = submit[e2]
  BY <1>3a, SubmissionMoves
<1>5. PICK moved : moved = IF UNCHANGED tasks THEN {} ELSE TaskIDs(e, req)
  OBVIOUS
<1>6. roots \subseteq RootTasks(e, req) /\ RootTasks(e, req) \subseteq TaskIDs(e, req)
  BY <1>3a DEF RootTasks
<1>7. \A t \in TaskIDs(e, req) : t[1] = e /\ t \notin DOMAIN tasks
  BY <1>2 DEF TaskIDs
<1>8. /\ \A t \in DOMAIN tasks' : t \in DOMAIN tasks \/ (t \in moved /\ t[1] = e)
      /\ \A t \in DOMAIN tasks : tasks'[t] = tasks[t]
      /\ \A t \in moved : t \in TaskIDs(e, req) /\ tasks'[t] = ToTasks(e, req)[t]
  BY <1>3a, <1>5, <1>7 DEF Inserted
<1>9. FreshSubmissions'
  <2>1. \A t \in roots : t[1] = e
    BY <1>6, <1>7
  <2>2. ASSUME NEW e2 \in Execution, e2 # e, submit[e2].pc = "new"
        PROVE  \A t \in DOMAIN tasks' : t[1] # e2
    BY <1>2, <1>8, <2>2
  <2> QED BY <1>2, <1>4, <2>1, <2>2 DEF FreshSubmissions
<1>10. UniqueInQueues' /\ \A t : Queued(t)' => Queued(t)
  BY <1>1 DEF DeliveryInv, SingleDelivery, UniqueInQueues, Queued, InQueue
<1>11. \A t : /\ HeldByThread(t)' => HeldByThread(t)
              /\ \A w \in Thread : Holds(w, t)' => Holds(w, t)
              /\ AwaitsSubmit(t)' => AwaitsSubmit(t) \/ t \in roots
  BY <1>4 DEF HeldByThread, Holds, AwaitsSubmit
<1>12. ASSUME NEW t \in moved PROVE LandsInOnePlace(t)
  <2>1. t \notin DOMAIN tasks
    BY <1>7, <1>8, <1>12
  <2>2. ~Queued(t)' /\ ~HeldByThread(t)' /\ t \notin coord'.ready
        /\ (AwaitsSubmit(t)' => t \in roots)
    BY <1>10, <1>11, <2>1, NewTasksAreNowhere
  <2>3. tasks'[t].inDegree > 0 => ~AwaitsSubmit(t)'
    BY <1>6, <1>8, <1>12, <2>2 DEF RootTasks
  <2>4. InOnePlace(t)' /\ (tasks'[t].inDegree > 0 => Nowhere(t)')
    BY <2>2, <2>3 DEF InOnePlace, Nowhere
  <2>5. \A w, v \in Thread : Holds(w, t)' /\ Holds(v, t)' => w = v
    BY <2>2 DEF HeldByThread
  <2> QED BY <2>4, <2>5 DEF LandsInOnePlace
<1>13. ASSUME NEW t \in DOMAIN tasks' \ moved PROVE GainsNoPlace(t)
  <2>1. t \in DOMAIN tasks /\ tasks'[t] = tasks[t] /\ t \notin roots
    BY <1>6, <1>7, <1>8, <1>13
  <2> QED BY <1>10, <1>11, <2>1 DEF GainsNoPlace
<1>14. OnlyMoves(moved)
  BY <1>10, <1>12, <1>13 DEF OnlyMoves
<1> QED BY <1>9, <1>14, Deliveries DEF DeliveryInv

LEMMA EnqueueKeepsDelivery ==
  ASSUME TypeOK, DeliveryInv, NEW e \in Execution, EnqueueRootTask(e),
         UNCHANGED <<thread, coord>>, "dupPush" \notin FaultKinds
  PROVE  DeliveryInv'
<1>0. /\ RedisQueueTypeOK(DOMAIN tasks) /\ UniqueInQueues
      /\ \A t \in DOMAIN tasks : InOnePlace(t)
      /\ \A t \in DOMAIN tasks : tasks[t].inDegree > 0 => Nowhere(t)
      /\ submit[e].roots \subseteq DOMAIN tasks
  BY DEF TypeOK, DeliveryInv, SingleDelivery, DeliveredOnlyWhenReady, WorkflowServiceTypeOK
<1>1. PICK u \in submit[e].roots, ok \in BOOLEAN, pc \in {"created", "push", "error"},
           roots \in SUBSET submit[e].roots :
        /\ Push("main", u, ok)
        /\ submit' = [submit EXCEPT ![e] = Submitted(pc, roots)]
        /\ u \notin roots
  <2>1. PICK u \in submit[e].roots :
          \/ /\ Push("main", u, TRUE)
             /\ submit' = [submit EXCEPT ![e] = AfterCreate(submit[e].roots \ {u})]
          \/ /\ Push("main", u, FALSE)
             /\ submit' = [submit EXCEPT ![e] = Submitted("error", {})]
    BY DEF EnqueueRootTask, AfterPush
  <2>2. \A R : \E pc \in {"created", "push", "error"} : AfterCreate(R) = Submitted(pc, R)
    BY DEF AfterCreate
  <2>3. PICK rest : rest = submit[e].roots \ {u}
    OBVIOUS
  <2>4. PICK pc \in {"created", "push", "error"} : AfterCreate(rest) = Submitted(pc, rest)
    BY <2>2
  <2>5. ASSUME NEW ok \in BOOLEAN, Push("main", u, ok), NEW last \in {pc, "error"},
               NEW roots \in {rest, {}},
               submit' = [submit EXCEPT ![e] = Submitted(last, roots)]
        PROVE  \E ok_1 \in BOOLEAN, pc_1 \in {"created", "push", "error"},
                  roots_1 \in SUBSET submit[e].roots :
                 /\ Push("main", u, ok_1)
                 /\ submit' = [submit EXCEPT ![e] = Submitted(pc_1, roots_1)]
                 /\ u \notin roots_1
    <3>1. /\ last \in {"created", "push", "error"}
          /\ roots \in SUBSET submit[e].roots /\ u \notin roots
      BY <2>3
    <3> QED BY <2>5, <3>1
  <2>6. CASE Push("main", u, TRUE) /\ submit' = [submit EXCEPT ![e] = AfterCreate(rest)]
    BY <2>4, <2>5, <2>6
  <2>7. CASE Push("main", u, FALSE) /\ submit' = [submit EXCEPT ![e] = Submitted("error", {})]
    BY <2>5, <2>7
  <2> QED BY <2>1, <2>3, <2>6, <2>7
<1>2. UNCHANGED tasks
  BY DEF EnqueueRootTask
<1>3. /\ submit'[e].pc # "new" /\ submit'[e].roots = roots
      /\ \A e2 \in Execution \ {e} : submit'[e2] = submit[e2]
  BY <1>1, SubmissionMoves
<1>4. u \in DOMAIN tasks /\ AwaitsSubmit(u)
  BY <1>0, <1>1 DEF AwaitsSubmit
<1>5. ~Queued(u) /\ ~HeldByThread(u) /\ u \notin coord.ready /\ ~(tasks[u].inDegree > 0)
  BY <1>0, <1>4 DEF InOnePlace, Nowhere
<1>6. UniqueInQueues' /\ \A t : Queued(t)' => Queued(t) \/ t = u
  BY <1>0, <1>1, <1>4, <1>5, PushUnique DEF QueueName
<1>7. \A e2 \in Execution : \A t \in submit[e2].roots : t[1] = e2
  BY DEF DeliveryInv, FreshSubmissions
<1>8. ~AwaitsSubmit(u)'
  BY <1>1, <1>3, <1>7 DEF AwaitsSubmit
<1>9. \A t : /\ HeldByThread(t)' => HeldByThread(t)
             /\ \A w \in Thread : Holds(w, t)' => Holds(w, t)
             /\ AwaitsSubmit(t)' => AwaitsSubmit(t)
  BY <1>1, <1>3 DEF HeldByThread, Holds, AwaitsSubmit
<1>10. LandsInOnePlace(u)
  <2>1. InOnePlace(u)' /\ \A w, v \in Thread : Holds(w, u)' /\ Holds(v, u)' => w = v
    BY <1>5, <1>8, <1>9 DEF InOnePlace, HeldByThread
  <2> QED BY <1>2, <1>5, <2>1 DEF LandsInOnePlace
<1>11. \A t \in DOMAIN tasks' \ {u} : GainsNoPlace(t)
  BY <1>2, <1>6, <1>9 DEF GainsNoPlace
<1>12. OnlyMoves({u})
  BY <1>6, <1>10, <1>11 DEF OnlyMoves
<1>13. FreshSubmissions'
  BY <1>1, <1>2, <1>3 DEF DeliveryInv, FreshSubmissions
<1> QED BY <1>12, <1>13, Deliveries DEF DeliveryInv

-----------------------------------------------------------------------------
LEMMA CrashKeepsDelivery ==
  ASSUME TypeOK, DeliveryInv, Crash
  PROVE  DeliveryInv'
<1>1. /\ UNCHANGED <<tasks, queue>> /\ coord'.ready = {}
      /\ \A w \in Thread : thread'[w].pc = "pop"
      /\ \A e \in Execution : submit'[e] \in {submit[e], Submitted("error", {})}
  BY DEF Crash, Listening, CoordinatorAt, Idle
<1>2. /\ \A w \in Thread : \A t : Holds(w, t)' => Holds(w, t)
      /\ \A t : AwaitsSubmit(t)' => AwaitsSubmit(t)
  BY <1>1 DEF Holds, AwaitsSubmit, Submitted
<1>3. FreshSubmissions'
  BY <1>1 DEF DeliveryInv, FreshSubmissions, Submitted
<1> QED BY <1>1, <1>2, <1>3, LettingGo DEF DeliveryInv

LEMMA InitDelivery == Init => DeliveryInv
<1> SUFFICES ASSUME Init PROVE DeliveryInv
  OBVIOUS
<1>1. DOMAIN tasks = {} /\ \A q \in QueueName : queue[q] = <<>>
  BY DEF Init, TaskRepositoryInit, RedisQueueInit
<1>2. UniqueInQueues
  BY <1>1 DEF UniqueInQueues
<1>3. FreshSubmissions
  BY <1>1 DEF Init, WorkflowServiceInit, Submitted, FreshSubmissions
<1> QED
  BY <1>1, <1>2, <1>3 DEF DeliveryInv, SingleDelivery, DeliveredOnlyWhenReady, UniqueInThreads

LEMMA NextDelivery ==
  ASSUME TypeOK, DeliveryInv, [Next]_vars, "dupPush" \notin FaultKinds
  PROVE  DeliveryInv'
<1>1. ASSUME NEW w \in Thread, WorkerAction(w) PROVE DeliveryInv'
  BY <1>1, WorkerKeepsDelivery
<1>2. CASE CoordinatorAction
  BY <1>2, CoordinatorKeepsDelivery
<1>3. ASSUME NEW e \in Execution, ServiceAction(e) PROVE DeliveryInv'
  BY <1>3, CreateKeepsDelivery, EnqueueKeepsDelivery DEF ServiceAction, SubmitStep
<1>4. ASSUME UNCHANGED <<tasks, queue, thread, coord, submit>> PROVE DeliveryInv'
  <2>1. SingleDelivery' /\ DeliveredOnlyWhenReady'
    BY <1>4, LettingGo DEF Holds, AwaitsSubmit
  <2> QED BY <1>4, <2>1, SubmissionsUntouched DEF DeliveryInv
<1>5. CASE \E ch \in ChannelName : BusAction(ch)
  BY <1>4, <1>5 DEF BusAction
<1>6. CASE Crash
  BY <1>6, CrashKeepsDelivery
<1>7. CASE UNCHANGED vars
  BY <1>4, <1>7 DEF vars
<1> QED BY <1>1, <1>2, <1>3, <1>5, <1>6, <1>7 DEF Next

LEMMA DeliveryInvariant ==
  ASSUME "dupPush" \notin FaultKinds
  PROVE  Spec => []DeliveryInv
<1>1. Init => DeliveryInv
  BY InitDelivery
<1>2. TypeOK /\ DeliveryInv /\ [Next]_vars => DeliveryInv'
  BY NextDelivery
<1> QED BY <1>1, <1>2, TypeCorrect, PTL DEF Spec

(* Unless a push is re-sent, every task is delivered by one hand at a time: *)
(* for every set of requests, any numbers of threads and executions, and    *)
(* all other faults.  This is what ClaimTask's missing status check relies  *)
(* on.                                                                      *)
THEOREM DeliveriesAreSingle ==
  ASSUME "dupPush" \notin FaultKinds
  PROVE  Spec => []SingleDelivery
<1>1. DeliveryInv => SingleDelivery
  BY DEF DeliveryInv
<1> QED BY <1>1, DeliveryInvariant, PTL

(* Under the same assumption no task is in a list, with a thread or about   *)
(* to be pushed while a dependency is outstanding in its in-degree.         *)
THEOREM DeliveriesAreReady ==
  ASSUME "dupPush" \notin FaultKinds
  PROVE  Spec => []DeliveredOnlyWhenReady
<1>1. DeliveryInv => DeliveredOnlyWhenReady
  BY DEF DeliveryInv
<1> QED BY <1>1, DeliveryInvariant, PTL
=============================================================================
