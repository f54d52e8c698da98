----------------------------- MODULE ExactProofs -----------------------------
(***************************************************************************)
(* What is exact as long as nothing is lost.  Without a crash, executions  *)
(* fail with their tasks.  Without a lost event as well, in-degrees and    *)
(* skip hints are what the handled parents make of them.                   *)
(***************************************************************************)
EXTENDS DagProofs

(* How a task ends: by the thread that has it, which keeps it. *)
Ends(w, t) ==
  /\ WorkerAction(w) /\ Holds(w, t) /\ Holds(w, t)'
  /\ \/ SkipTask(w) /\ tasks'[t].status = "SKIPPED"
     \/ CompleteTask(w) /\ tasks'[t].status = "COMPLETED"
     \/ FailTask(w) /\ tasks'[t].status = "FAILED" /\ thread'[w].pc = "failWorkflow"

LEMMA EndingStep ==
  ASSUME Dependable, TypeOK, DeliveryInv, StageInv, [Next]_vars, NEW t \in DOMAIN tasks,
         tasks[t].status \notin Terminal, tasks'[t].status \in Terminal
  PROVE  \E w \in Thread : Ends(w, t)
<1>1. tasks[t] \in Task /\ GoodRow(tasks[t]) /\ WorkerTypeOK
  BY DEF TypeOK, TaskRepositoryTypeOK, StageInv
<1>2. \A skip \in BOOLEAN : ~CountsDown(skip)
  <2>1. ASSUME NEW skip \in BOOLEAN, CountsDown(skip) PROVE FALSE
    <3>1. tasks'[t] \in {tasks[t], DecrementedRow(tasks[t], skip)}
      BY <2>1 DEF CountsDown
    <3>2. DecrementedRow(tasks[t], skip).status \in {tasks[t].status} \cup Waiting
      BY <1>1, DecrementedRows DEF Task
    <3> QED BY <3>1, <3>2 DEF Terminal, Waiting
  <2> QED BY <2>1
<1>3. \A e \in Execution, req \in Requests : Submits(e, req) => tasks'[t] = tasks[t]
  BY FreshIDs DEF Submits, Inserted
<1>4. PICK w \in Thread : WorkerAction(w)
  <2>1. ~CoordinatorAction
    BY <1>2, CoordinatorMoves
  <2>2. ASSUME NEW e \in Execution, ServiceAction(e)
        PROVE  UNCHANGED tasks \/ \E req \in Requests : Submits(e, req)
    BY <2>2, Zenon DEF ServiceAction, SubmitStep, CreateExecution, EnqueueRootTask, Submits
  <2>3. ASSUME NEW e \in Execution, ServiceAction(e) PROVE tasks'[t] = tasks[t]
    BY <1>3, <2>2, <2>3
  <2> QED BY <2>1, <2>3 DEF Next, vars, BusAction, Crash
<1>5. /\ Holds(w, t) /\ thread[w].task = t /\ thread[w].pc # "pop"
      /\ StatusOK(thread[w].pc, tasks[t].status)
  BY <1>1, <1>4, WorkerMoves DEF RowBecomes, Holds, StageInv
<1>6. ASSUME NEW pc \in ThreadPC, pc # "pop", Goto(w, pc)
      PROVE  Holds(w, t)' /\ thread'[w].pc = pc
  BY <1>1, <1>5, <1>6, ThreadMoves DEF Holds
<1>7. ASSUME NEW status, NEW ok, Write(Marked(t, status), ok)
      PROVE  ok /\ tasks'[t].status = status
  BY <1>1, <1>7 DEF Write, Fault, Dependable, Marked, Task, TypeOK, TaskRepositoryTypeOK
<1>8. CASE SkipTask(w)
  <2>1. MarkSkipped(t, TRUE) /\ Goto(w, "publishSkipped")
    BY <1>5, <1>7, <1>8 DEF SkipTask, MarkSkipped
  <2> QED BY <1>4, <1>5, <1>6, <1>7, <1>8, <2>1 DEF Ends, MarkSkipped, ThreadPC
<1>9. CASE CompleteTask(w)
  <2>1. /\ \E ok \in BOOLEAN : MarkCompleted(t, ok)
        /\ Goto(w, "publishCompleted")
    BY <1>5, <1>9 DEF CompleteTask
  <2> QED BY <1>4, <1>5, <1>6, <1>7, <1>9, <2>1 DEF Ends, MarkCompleted, ThreadPC
<1>10. CASE FailTask(w)
  <2>1. /\ \E ok \in BOOLEAN : MarkFailed(t, ok)
        /\ Goto(w, "failWorkflow")
    BY <1>5, <1>10 DEF FailTask
  <2> QED BY <1>4, <1>5, <1>6, <1>7, <1>10, <2>1 DEF Ends, MarkFailed, ThreadPC
<1>11. CASE Claim(w) \/ Retry(w)
  <2>1. \A version : /\ Claimed(t, version)[t].status = "RUNNING"
                     /\ Retried(t, version)[t].status = "PENDING"
    BY <1>1 DEF Claimed, Retried, Task, TypeOK, TaskRepositoryTypeOK
  <2>2. tasks'[t].status \in {tasks[t].status, "RUNNING", "PENDING"}
    BY <1>5, <1>11, <2>1 DEF Claim, Retry, ClaimTask, IncrementRetryCount, Write
  <2> QED BY <2>2 DEF Terminal
<1>12. ~MarkUnknown(w)
  BY <1>1, <1>5 DEF MarkUnknown, Row, GoodRow, Dependable
<1>13. CASE PopTask(w) \/ FindTask(w) \/ PublishSkipped(w) \/ ExecuteHandler(w)
            \/ PublishUnknown(w) \/ FailUnknown(w) \/ PushRetry(w) \/ FailWorkflow(w)
            \/ PublishFailed(w) \/ PublishCompleted(w)
  BY <1>13 DEF PopTask, FindTask, PublishSkipped, ExecuteHandler, PublishUnknown,
     FailUnknown, PushRetry, FailWorkflow, PublishFailed, PublishCompleted, ReadError
<1> QED
  BY <1>4, <1>8, <1>9, <1>10, <1>11, <1>12, <1>13 DEF WorkerAction, ProcessNextTask

-----------------------------------------------------------------------------
LEMMA OthersRest ==
  ASSUME TypeOK, NEW v \in Thread, WorkerAction(v), NEW w \in Thread, w # v
  PROVE  thread'[w] = thread[w]
<1>1. CASE PopTask(v) \/ PushRetry(v)
  BY <1>1, ThreadMoves DEF PopTask, PushRetry, TypeOK
<1>2. CASE ~PopTask(v) /\ ~PushRetry(v)
  BY <1>2, WorkerKeepsPlaces DEF WorkerAction, KeepsPlaces
<1> QED BY <1>1, <1>2

(* The execution knows, or has been told, that the task failed. *)
Recorded(t) ==
  /\ tasks[t].status = "FAILED"
  /\ \A w \in Thread : Holds(w, t) => ~At(w, "failWorkflow")

Records(w, t) == WorkerAction(w) /\ FailWorkflow(w) /\ Holds(w, t)

LEMMA FailureRecorded ==
  ASSUME Dependable, "crash" \notin FaultKinds, TypeOK, DeliveryInv, StageInv, EndedInv,
         [Next]_vars, NEW t \in DOMAIN tasks
  PROVE  Recorded(t)' <=> Recorded(t) \/ \E w \in Thread : Records(w, t)
<1>1. WorkerTypeOK /\ UniqueInThreads
  BY DEF TypeOK, DeliveryInv, SingleDelivery
<1>2. tasks[t].status = "FAILED" => tasks'[t].status = "FAILED"
  BY TerminalStep DEF Dependable, Terminal
<1>3. ASSUME Recorded(t) PROVE Recorded(t)'
  <2>1. ASSUME NEW w \in Thread, Holds(w, t)', At(w, "failWorkflow")' PROVE FALSE
    <3>1. thread'[w].pc = "failWorkflow" /\ thread'[w].task = t
      BY <2>1 DEF Holds, At
    <3>2. thread'[w] # thread[w]
      BY <1>3, <3>1 DEF Recorded, Holds, At
    <3>3. thread[w].pc # "pop" /\ thread[w].task = t /\ WorkerAction(w) /\ ~PopTask(w)
      BY <3>1, <3>2, HeldBefore
    <3>4. FailTask(w)
      BY <3>1, <3>3, Arrivals DEF WorkerAction, Arrives
    <3>5. tasks[t].status = "RUNNING"
      BY <3>3, <3>4 DEF FailTask, At, StageInv, StatusOK, Dependable
    <3> QED BY <1>3, <3>5 DEF Recorded
  <2> QED BY <1>2, <1>3, <2>1 DEF Recorded
<1>4. ASSUME NEW w \in Thread, Records(w, t) PROVE Recorded(t)'
  <2>1. thread[w].pc = "failWorkflow" /\ thread[w].task = t /\ tasks[t].status = "FAILED"
    BY <1>4 DEF Records, FailWorkflow, At, EndedInv, Row, Holds
  <2>2. thread'[w].pc = "publishFailed" /\ \A v \in Thread \ {w} : thread'[v] = thread[v]
    BY <1>1, <1>4, ThreadMoves DEF Records, FailWorkflow
  <2>3. \A v \in Thread \ {w} : ~Holds(v, t)
    BY <1>1, <1>4 DEF UniqueInThreads, Records
  <2> QED BY <1>2, <2>1, <2>2, <2>3 DEF Recorded, Holds, At
<1>5. ASSUME Recorded(t)', ~Recorded(t) PROVE \E w \in Thread : Records(w, t)
  <2>1. CASE tasks[t].status = "FAILED"
    <3>1. PICK w \in Thread : Holds(w, t) /\ thread[w].pc = "failWorkflow"
      BY <1>5, <2>1 DEF Recorded, At
    <3>2. thread'[w] # thread[w]
      BY <1>5, <3>1 DEF Recorded, Holds, At
    <3>3. WorkerAction(w)
      <4>1. ASSUME NEW v \in Thread, v # w, WorkerAction(v) PROVE thread'[w] = thread[w]
        BY <4>1, OthersRest
      <4>2. ~Crash
        BY DEF Crash, Fault
      <4> QED
        BY <3>2, <4>1, <4>2 DEF Next, vars, CoordinatorAction, ServiceAction, BusAction
    <3>4. FailWorkflow(w)
      BY <3>1, <3>3 DEF WorkerAction, ProcessNextTask, At, PopTask, FindTask, SkipTask,
         PublishSkipped, Claim, ExecuteHandler, MarkUnknown, PublishUnknown, FailUnknown,
         Retry, PushRetry, FailTask, PublishFailed, CompleteTask, PublishCompleted
    <3> QED BY <3>1, <3>3, <3>4 DEF Records
  <2>2. CASE tasks[t].status # "FAILED"
    <3>1. tasks[t].status \notin Terminal
      BY <1>5, <2>2, TerminalStep DEF Recorded, Dependable
    <3>2. PICK w \in Thread : Ends(w, t)
      BY <1>5, <3>1, EndingStep DEF Recorded, Terminal
    <3> QED BY <1>5, <3>2 DEF Recorded, Ends, At
  <2> QED BY <2>1, <2>2
<1> QED BY <1>3, <1>4, <1>5

LEMMA ExecutionFails ==
  ASSUME Dependable, TypeOK, DeliveryInv, StageInv, RecordsInv, OutcomeInv, [Next]_vars,
         NEW e \in Execution
  PROVE  executions'[e] = "FAILED" <=>
           \/ executions[e] = "FAILED"
           \/ \E w \in Thread : \E t \in TasksOf(e) : Records(w, t)
<1>1. /\ executions \in [Execution -> WorkflowStatus \cup {"absent"}]
      /\ \A w \in Thread : thread[w].pc # "pop" => thread[w].task \in DOMAIN tasks
  BY DEF TypeOK, WorkflowRepositoryTypeOK, WorkerTypeOK
<1>2. executions[e] = "FAILED" => executions'[e] = "FAILED"
  BY OutcomeStays
<1>3. ASSUME NEW w \in Thread, NEW t \in TasksOf(e), Records(w, t)
      PROVE  executions'[e] = "FAILED"
  <2>1. Row(w).executionID = e /\ \E ok \in BOOLEAN : UpdateStatus(e, "FAILED", ok)
    BY <1>3 DEF Records, FailWorkflow, TasksOf, Holds, Row
  <2>2. executions' = Updated(e, "FAILED")
    BY <2>1 DEF UpdateStatus, ExecutionsWrite, Fault, Dependable
  <2> QED BY <1>1, <2>2 DEF Updated, MayBecome
<1>4. ASSUME executions'[e] = "FAILED", executions[e] # "FAILED"
      PROVE  \E w \in Thread : \E t \in TasksOf(e) : Records(w, t)
  <2>1. PICK w \in Thread : WorkerAction(w)
    <3>1. ~CompletesExecution
      BY <1>1, <1>4 DEF CompletesExecution, Updated
    <3>2. \A d \in Execution : executions' # [executions EXCEPT ![d] = "RUNNING"]
      BY <1>1, <1>4
    <3>3. ~CoordinatorAction
      <4>1. CASE CompleteWorkflow
        BY <1>4, <3>1, <4>1 DEF CompleteWorkflow, UpdateStatus, ExecutionsWrite,
           CompletesExecution
      <4>2. CASE ~CompleteWorkflow
        BY <1>4, <4>2 DEF CoordinatorAction, CoordinatorStep, SubscribeToEvents,
           SubscribeToTerminationEvents, ReceiveEvent, HandleTaskCompleted,
           HandleTaskTerminated, PushReady, CheckIfWorkflowFinished
      <4> QED BY <4>1, <4>2
    <3>4. ASSUME NEW d \in Execution, ServiceAction(d) PROVE FALSE
      BY <1>4, <3>2, <3>4, Zenon DEF ServiceAction, SubmitStep, CreateExecution,
         EnqueueRootTask
    <3> QED BY <1>4, <3>3, <3>4 DEF Next, vars, BusAction, Crash
  <2>2. FailWorkflow(w) \/ FailUnknown(w)
    BY <1>4, <2>1 DEF WorkerAction, ProcessNextTask, PopTask, FindTask, SkipTask,
       PublishSkipped, Claim, ExecuteHandler, MarkUnknown, PublishUnknown, Retry, PushRetry,
       FailTask, PublishFailed, CompleteTask, PublishCompleted
  <2>3. ~FailUnknown(w)
    BY DEF FailUnknown, At, StageInv, StatusOK, Dependable
  <2>4. FailWorkflow(w)
    BY <2>2, <2>3
  <2>5. thread[w].pc = "failWorkflow" /\ thread[w].task \in DOMAIN tasks
        /\ \E ok \in BOOLEAN : UpdateStatus(Row(w).executionID, "FAILED", ok)
    BY <1>1, <2>4 DEF FailWorkflow, At
  <2>6. Row(w).executionID = e
    BY <1>1, <1>4, <2>5 DEF UpdateStatus, ExecutionsWrite, Updated
  <2>7. thread[w].task \in TasksOf(e) /\ Records(w, thread[w].task)
    BY <2>1, <2>4, <2>5, <2>6 DEF TasksOf, Row, Records, Holds
  <2> QED BY <2>7
<1> QED BY <1>2, <1>3, <1>4

LEMMA FailuresStep ==
  ASSUME Dependable, "crash" \notin FaultKinds, TypeOK, DeliveryInv, StageInv, RecordsInv,
         OutcomeInv, EndedInv, WorkflowFailsWithItsTasks, [Next]_vars
  PROVE  WorkflowFailsWithItsTasks'
<1>1. ASSUME NEW e \in Execution
      PROVE  executions'[e] = "FAILED" <=> \E t \in TasksOf(e)' : Recorded(t)'
  <2>1. executions[e] = "FAILED" <=> \E t \in TasksOf(e) : Recorded(t)
    BY DEF WorkflowFailsWithItsTasks, Recorded
  <2>2. \A t \in TasksOf(e) : Recorded(t)' <=> Recorded(t) \/ \E w \in Thread : Records(w, t)
    BY FailureRecorded DEF TasksOf
  <2>3. CASE executions[e] # "absent"
    <3>1. TasksOf(e)' = TasksOf(e)
      BY <2>3, TasksStay
    <3> QED BY <2>1, <2>2, <3>1, ExecutionFails
  <2>4. CASE executions[e] = "absent"
    <3>1. TasksOf(e) = {}
      BY <2>4 DEF RecordsInv, TasksOf
    <3>2. \A t \in TasksOf(e)' : t \notin DOMAIN tasks
      BY <3>1, RowsStay DEF TasksOf, SameName
    <3>3. \A t \in TasksOf(e)' : tasks'[t].status # "FAILED"
      <4>1. ASSUME NEW t \in TasksOf(e)' PROVE tasks'[t].status # "FAILED"
        <5>1. PICK d \in Execution, req \in Requests : tasks'[t] = ToTasks(d, req)[t]
                                                       /\ t \in TaskIDs(d, req)
          BY <3>2, <4>1, RowsAppear DEF TasksOf
        <5> QED BY <5>1 DEF ToTasks, ToTask
      <4> QED BY <4>1
    <3> QED BY <2>4, <3>1, <3>3, ExecutionFails DEF Recorded
  <2> QED BY <2>3, <2>4
<1> QED BY <1>1 DEF WorkflowFailsWithItsTasks, Recorded

(* An execution is FAILED exactly when a task of it failed and the thread   *)
(* that failed it has got past UpdateStatus: as long as Postgres answers,   *)
(* actions are registered and the process lives, whatever pushes, pops and  *)
(* events are lost.  A crash between the two updates breaks it for good.    *)
THEOREM FailuresAreRecorded ==
  ASSUME Dependable, "crash" \notin FaultKinds
  PROVE  Spec => []WorkflowFailsWithItsTasks
<1>1. Init => WorkflowFailsWithItsTasks
  <2> SUFFICES ASSUME Init PROVE WorkflowFailsWithItsTasks
    OBVIOUS
  <2>1. DOMAIN tasks = {} /\ \A e \in Execution : executions[e] = "absent"
    BY DEF Init, TaskRepositoryInit, WorkflowRepositoryInit
  <2> QED BY <2>1 DEF WorkflowFailsWithItsTasks, TasksOf
<1>2. TypeOK /\ DeliveryInv /\ StageInv /\ (RecordsInv /\ OutcomeInv)
        /\ (EndedInv /\ EventsInv) /\ WorkflowFailsWithItsTasks /\ [Next]_vars
        => WorkflowFailsWithItsTasks'
  BY FailuresStep
<1>3. "dupPush" \notin FaultKinds
  BY DEF Dependable
<1> QED
  BY <1>1, <1>2, <1>3, TypeCorrect, DeliveryInvariant, StageInvariant, OutcomeInvariant,
     EventsInvariant, PTL DEF Spec

-----------------------------------------------------------------------------
(* The subscriptions are there from the start and stay, ...                 *)
Steady ==
  /\ Dependable /\ ~ColdStart
  /\ "disconnect" \notin FaultKinds /\ "crash" \notin FaultKinds

(* ... and no event is lost on its way to them.                             *)
Lossless == Steady /\ "publish" \notin FaultKinds

Subscribers ==
  /\ \A c \in ChannelName : subscription[c] = "live"
  /\ coord.pc \notin {"subscribeCompleted", "subscribeTerminated"}

LEMMA SubscribersStay ==
  ASSUME Steady, TypeOK, Subscribers, [Next]_vars
  PROVE  Subscribers'
<1>1. CASE CoordinatorAction
  <2>1. CASE CheckIfWorkflowFinished
    <3>1. coord' = [coord EXCEPT !.pc = "complete"] => coord'.pc = "complete"
      BY DEF TypeOK, CoordinatorTypeOK
    <3> QED
      BY <2>1, <3>1 DEF CheckIfWorkflowFinished, Select, CoordinatorAt, Subscribers, busVars
  <2>2. CASE PushReady
    <3>1. \A t : coord' = [coord EXCEPT !.ready = @ \ {t}] => coord'.pc = coord.pc
      BY DEF TypeOK, CoordinatorTypeOK
    <3> QED BY <2>2, <3>1 DEF PushReady, Select, CoordinatorAt, Subscribers, busVars
  <2>3. CASE HandleTaskCompleted \/ HandleTaskTerminated
    <3>1. \A ready : AfterDecrement(coord.event, ready).pc \in {"check", "push"}
      BY DEF AfterDecrement
    <3>2. Select \/ \E ready : coord' = AfterDecrement(coord.event, ready)
      BY <2>3 DEF HandleTaskCompleted, HandleTaskTerminated
    <3>3. UNCHANGED subscription
      BY <2>3 DEF HandleTaskCompleted, HandleTaskTerminated, busVars
    <3>4. coord'.pc \in {"check", "push", "select"}
      BY <3>1, <3>2 DEF Select, CoordinatorAt
    <3> QED BY <3>3, <3>4 DEF Subscribers
  <2>4. ~SubscribeToEvents /\ ~SubscribeToTerminationEvents
    BY DEF Subscribers, SubscribeToEvents, SubscribeToTerminationEvents
  <2>5. CASE CompleteWorkflow
    BY <2>5 DEF CompleteWorkflow, Select, CoordinatorAt, Subscribers, busVars
  <2>6. ASSUME NEW c \in ChannelName, ReceiveEvent(c) PROVE Subscribers'
    <3>1. /\ UNCHANGED subscription
          /\ \E event : coord' = [pc |-> "decrement", event |-> event, ready |-> {}]
      BY <2>6 DEF ReceiveEvent, Receive
    <3> QED BY <3>1 DEF Subscribers
  <2> QED
    BY <1>1, <2>1, <2>2, <2>3, <2>4, <2>5, <2>6 DEF CoordinatorAction, CoordinatorStep
<1>2. ASSUME NEW w \in Thread, WorkerAction(w) PROVE Subscribers'
  BY <1>2 DEF WorkerAction, ProcessNextTask, PopTask, FindTask, SkipTask, PublishSkipped,
     Claim, ExecuteHandler, MarkUnknown, PublishUnknown, FailUnknown, Retry, PushRetry,
     FailTask, FailWorkflow, PublishFailed, CompleteTask, PublishCompleted,
     PublishTaskCompleted, PublishTaskTerminated, Publish, busVars, Subscribers
<1>3. ~Crash /\ \A c \in ChannelName : ~BusAction(c)
  BY DEF Crash, BusAction, Subscribed, Disconnect, Fault, Steady, Subscribers
<1> QED
  BY <1>1, <1>2, <1>3 DEF Next, vars, ServiceAction, busVars, Subscribers

LEMMA SubscribersInvariant ==
  ASSUME Steady
  PROVE  Spec => []Subscribers
<1>1. Init => Subscribers
  <2> SUFFICES ASSUME Init PROVE Subscribers
    OBVIOUS
  <2>1. coord = CoordinatorAt("select") /\ subscription = [ch \in ChannelName |-> "live"]
    BY DEF Init, RedisEventBusInit, Subscriptions, CoordinatorInit, Listening, Steady
  <2>2. coord.pc = "select"
    BY <2>1 DEF CoordinatorAt
  <2> QED BY <2>1, <2>2 DEF Subscribers
<1>2. TypeOK /\ Subscribers /\ [Next]_vars => Subscribers'
  BY SubscribersStay
<1> QED BY <1>1, <1>2, TypeCorrect, PTL DEF Spec

(* A PUBLISH to a live subscription keeps the events that are there and, if *)
(* it is not lost, puts its own in the channel.                             *)
LEMMA PublishArrives ==
  ASSUME Steady, TypeOK, Subscribers, NEW c \in ChannelName, NEW event, Publish(c, event)
  PROVE  /\ \/ Fault("publish")
            \/ \E i \in DOMAIN channel'[c] : channel'[c][i] = event
         /\ \A d \in ChannelName : \A i \in DOMAIN channel[d] :
              i \in DOMAIN channel'[d] /\ channel'[d][i] = channel[d][i]
<1> SUFFICES ASSUME ~(Fault("publish") /\ UNCHANGED channel)
             PROVE  /\ \E i \in DOMAIN channel'[c] : channel'[c][i] = event
                    /\ \A d \in ChannelName : \A i \in DOMAIN channel[d] :
                         i \in DOMAIN channel'[d] /\ channel'[d][i] = channel[d][i]
  OBVIOUS
<1>1. channel' = [channel EXCEPT ![c] = @ \o [i \in 1..1 |-> event]]
  BY DEF Publish, Delivered, Subscribers, Steady, Dependable, Fault
<1>2. /\ channel[c] \in Seq(AnyEvent \cup {event}) /\ channel \in [ChannelName -> Seq(AnyEvent)]
  BY DEF TypeOK, RedisEventBusTypeOK, AnyEvent
<1>3. PICK s \in Seq(AnyEvent \cup {event}) :
        s = [j \in 1..1 |-> event] /\ Len(s) = 1 /\ s[1] = event
  <2>1. [j \in 1..1 |-> event] \in Seq(AnyEvent \cup {event})
        /\ Len([j \in 1..1 |-> event]) = 1 /\ [j \in 1..1 |-> event][1] = event
    BY SeqDef
  <2> QED BY <2>1
<1>4. channel'[c] = channel[c] \o s /\ \A d \in ChannelName \ {c} : channel'[d] = channel[d]
  BY <1>1, <1>2, <1>3
<1>5. channel[c] \o s \in Seq(AnyEvent \cup {event}) /\ Len(channel[c]) \in Nat
  BY <1>2, <1>3, ConcatProperties, LenProperties
<1>6. /\ Len(channel'[c]) = Len(channel[c]) + 1 /\ Len(channel[c]) \in Nat
      /\ DOMAIN channel[c] = 1..Len(channel[c]) /\ DOMAIN channel'[c] = 1..Len(channel'[c])
      /\ \A i \in 1..Len(channel[c]) : channel'[c][i] = channel[c][i]
      /\ channel'[c][Len(channel[c]) + 1] = event
  BY <1>2, <1>3, <1>4, <1>5, ConcatProperties, LenProperties
<1>7. Len(channel[c]) + 1 \in DOMAIN channel'[c]
  BY <1>6
<1>8. ASSUME NEW d \in ChannelName, NEW i \in DOMAIN channel[d]
      PROVE  i \in DOMAIN channel'[d] /\ channel'[d][i] = channel[d][i]
  <2>1. CASE d = c
    BY <1>6, <1>8, <2>1
  <2>2. CASE d # c
    BY <1>4, <1>8, <2>2
  <2> QED BY <2>1, <2>2
<1> QED BY <1>6, <1>7, <1>8

(* A thread lets go of a task that has ended by announcing it. *)
LEMMA ReleaseAnnounces ==
  ASSUME Steady, TypeOK, DeliveryInv, StageInv, Subscribers, NEW w \in Thread, WorkerAction(w),
         NEW t \in DOMAIN tasks, Holds(w, t), ~Holds(w, t)', tasks'[t].status \in Terminal
  PROVE  \/ Fault("publish")
         \/ \E c \in ChannelName : \E i \in DOMAIN channel'[c] : channel'[c][i].taskID = t
<1>1. /\ WorkerTypeOK /\ thread[w].task = t /\ thread[w].pc # "pop"
      /\ StatusOK(thread[w].pc, tasks[t].status)
  BY DEF Holds, StageInv, TypeOK
<1>2. \A pc \in ThreadPC \ {"pop"} : ~Goto(w, pc)
  BY <1>1, ThreadMoves DEF Holds
<1>3. \A ok : \A status : Write(Marked(t, status), ok) => ok
  BY DEF Write, Fault, Steady, Dependable
<1>4. CASE PublishSkipped(w) \/ PublishFailed(w) \/ PublishCompleted(w)
  <2>1. \E type \in {"completed", "failed", "skipped"}, c \in ChannelName :
          Publish(c, Event(t, tasks[t], type))
    BY <1>1, <1>4 DEF PublishSkipped, PublishFailed, PublishCompleted, PublishTaskCompleted,
       PublishTaskTerminated, ChannelName, Row
  <2>2. \A type : Event(t, tasks[t], type).taskID = t
    BY DEF Event
  <2> QED BY <2>1, <2>2, PublishArrives
<1>5. ~PopTask(w) /\ ~FindTask(w)
  <2>1. ~PopTask(w)
    BY <1>1 DEF PopTask, At
  <2>2. ~Become(w, Fetched(t))
    BY <1>1, ThreadMoves DEF Holds, Fetched
  <2> QED BY <1>1, <2>1, <2>2 DEF FindTask, ReadError, Fault, Steady, Dependable
<1>6. ~SkipTask(w)
  BY <1>1, <1>2, <1>3 DEF SkipTask, MarkSkipped, ThreadPC
<1>7. ~(ExecuteHandler(w) \/ MarkUnknown(w) \/ PublishUnknown(w) \/ FailUnknown(w)
        \/ FailTask(w) \/ FailWorkflow(w) \/ CompleteTask(w))
  BY <1>2 DEF ExecuteHandler, MarkUnknown, PublishUnknown, FailUnknown, FailTask,
     FailWorkflow, CompleteTask, FailurePC, ThreadPC
<1>8. ~Claim(w) /\ ~Retry(w) /\ ~PushRetry(w)
  <2>1. CASE Claim(w) \/ Retry(w) \/ PushRetry(w)
    <3>1. tasks[t].status \in Waiting \cup {"RUNNING"}
      BY <1>1, <2>1 DEF Claim, Retry, PushRetry, At, StatusOK, Steady, Dependable
    <3>2. tasks'[t].status = tasks[t].status
      <4>1. tasks' = tasks \/ tasks' = Claimed(t, thread[w].version)
              \/ tasks' = Retried(t, thread[w].version)
        BY <1>1, <2>1 DEF Claim, Retry, PushRetry, ClaimTask, IncrementRetryCount, Write
      <4>2. \A version : /\ Claimed(t, version)[t].status = "RUNNING"
                         /\ Retried(t, version)[t].status = "PENDING"
        BY DEF Claimed, Retried, Task, TypeOK, TaskRepositoryTypeOK
      <4> QED BY <4>1, <4>2 DEF Terminal
    <3> QED BY <3>1, <3>2 DEF Waiting, Terminal
  <2> QED BY <2>1
<1> QED BY <1>4, <1>5, <1>6, <1>7, <1>8 DEF WorkerAction, ProcessNextTask

(* A message that is not the one received stays in its channel. *)
LEMMA UnreceivedStay ==
  ASSUME RedisEventBusTypeOK, NEW ch \in ChannelName, NEW event, Receive(ch, event)
  PROVE  \A c \in ChannelName : \A i \in DOMAIN channel[c] :
           \/ channel[c][i] = event
           \/ \E j \in DOMAIN channel'[c] : channel'[c][j] = channel[c][i]
<1>1. \A c \in ChannelName : /\ channel[c] \in Seq(AnyEvent) /\ Len(channel[c]) \in Nat
                             /\ DOMAIN channel[c] = 1..Len(channel[c])
  BY LenProperties DEF RedisEventBusTypeOK, AnyEvent
<1>2. channel[ch] # <<>> /\ event = Head(channel[ch])
      /\ channel'[ch] = Tail(channel[ch])
      /\ \A c \in ChannelName \ {ch} : channel'[c] = channel[c]
  BY DEF Receive, RedisEventBusTypeOK
<1>3. /\ Len(channel[ch]) >= 1 /\ DOMAIN channel'[ch] = 1..(Len(channel[ch]) - 1)
      /\ \A i \in 1..(Len(channel[ch]) - 1) : channel'[ch][i] = channel[ch][i + 1]
      /\ event = channel[ch][1]
  BY <1>1, <1>2, EmptySeq, HeadTailProperties, LenProperties
<1>4. ASSUME NEW i \in DOMAIN channel[ch], i # 1
      PROVE  i - 1 \in DOMAIN channel'[ch] /\ channel'[ch][i - 1] = channel[ch][i]
  BY <1>1, <1>3, <1>4
<1>5. ASSUME NEW c \in ChannelName, c # ch, NEW i \in DOMAIN channel[c]
      PROVE  i \in DOMAIN channel'[c] /\ channel'[c][i] = channel[c][i]
  BY <1>2, <1>5
<1> QED BY <1>3, <1>4, <1>5

(* The coordinator learns of an end by handling the event, ...              *)
HandlesEnd(d) ==
  coord.pc = "decrement" /\ coord.event.taskID = d /\ coord'.pc # "decrement"

(* ... or never, when the event is lost as a thread sends it.               *)
LosesEvent(w, d) ==
  WorkerAction(w) /\ Holds(w, d) /\ thread'[w] # thread[w] /\ Fault("publish")

KeepsEvent(d) == EventPending(d) /\ ~EventPending(d)' => HandlesEnd(d)

LEMMA LearnedByHandling ==
  ASSUME Steady, TypeOK, DeliveryInv, StageInv, Subscribers, [Next]_vars,
         NEW d \in DOMAIN tasks
  PROVE  KeepsEvent(d) \/ \E w \in Thread : LosesEvent(w, d)
<1> SUFFICES ASSUME EventPending(d), ~EventPending(d)', \A w \in Thread : ~LosesEvent(w, d)
             PROVE  HandlesEnd(d)
  BY DEF KeepsEvent
<1>1. /\ tasks'[d].status \in Terminal /\ \A w \in Thread : ~Holds(w, d)'
      /\ \A c \in ChannelName : \A i \in DOMAIN channel'[c] : channel'[c][i].taskID # d
      /\ ~(coord'.pc = "decrement" /\ coord'.event.taskID = d)
  BY DEF EventPending, HeldByThread
<1>2. tasks[d].status \in Terminal
  BY <1>1, EndingStep DEF Ends, Steady
<1>3. ASSUME NEW w \in Thread, Holds(w, d) PROVE FALSE
  <2>1. thread'[w] # thread[w]
    BY <1>1, <1>3 DEF Holds
  <2>2. WorkerAction(w)
    <3>1. \A v \in Thread : v # w => ~WorkerAction(v)
      BY <2>1, OthersRest
    <3>2. ~Crash
      BY DEF Crash, Fault, Steady
    <3> QED
      BY <2>1, <3>1, <3>2 DEF Next, vars, CoordinatorAction, ServiceAction, BusAction
  <2>3. ~Fault("publish")
    BY <1>3, <2>1, <2>2 DEF LosesEvent
  <2> QED BY <1>1, <1>3, <2>2, <2>3, ReleaseAnnounces
<1>4. ASSUME NEW c \in ChannelName, NEW i \in DOMAIN channel[c], channel[c][i].taskID = d
      PROVE  FALSE
  <2>1. CASE UNCHANGED channel
    BY <1>1, <1>4, <2>1
  <2>2. ASSUME NEW w \in Thread, Sends(w) PROVE FALSE
    <3>1. \E type \in {"completed", "failed", "skipped"}, b \in ChannelName :
            Publish(b, Event(thread[w].task, tasks[thread[w].task], type))
      BY <2>2 DEF Sends
    <3>2. i \in DOMAIN channel'[c] /\ channel'[c][i] = channel[c][i]
      BY <3>1, PublishArrives
    <3> QED BY <1>1, <1>4, <3>2
  <2>3. ~Loses /\ ~Crash
    BY DEF Loses, Disconnect, Crash, Fault, Steady
  <2>4. ASSUME NEW b \in ChannelName, ReceiveEvent(b) PROVE FALSE
    <3>1. PICK event : /\ Receive(b, event)
                       /\ coord' = [pc |-> "decrement", event |-> event, ready |-> {}]
      BY <2>4 DEF ReceiveEvent
    <3>2. coord'.pc = "decrement" /\ coord'.event = event
      BY <3>1
    <3>3. channel[c][i] = event \/ \E j \in DOMAIN channel'[c] : channel'[c][j] = channel[c][i]
      BY <3>1, UnreceivedStay DEF TypeOK
    <3> QED BY <1>1, <1>4, <3>2, <3>3
  <2> QED BY <2>1, <2>2, <2>3, <2>4, ChannelMoves DEF Steady, Dependable
<1>5. coord.pc = "decrement" /\ coord.event.taskID = d
  BY <1>2, <1>3, <1>4 DEF EventPending, HeldByThread
<1>6. coord'.pc # "decrement"
  BY <1>1, <1>5, DecrementPC DEF ReceiveEvent
<1> QED BY <1>5, <1>6 DEF HandlesEnd

(* ... and handling it counts it down in every child. *)
LEMMA HandlingCountsDown ==
  ASSUME Steady, TypeOK, [Next]_vars, coord.pc = "decrement", coord'.pc # "decrement",
         NEW t \in Children(coord.event.executionID, coord.event.refID)
  PROVE  CountedDown(t)
<1>1. ~Crash
  BY DEF Crash, Fault, Steady
<1>2. HandleTaskCompleted \/ HandleTaskTerminated
  BY <1>1 DEF Next, vars, WorkerAction, ServiceAction, BusAction, CoordinatorAction,
     CoordinatorStep, SubscribeToEvents, SubscribeToTerminationEvents, ReceiveEvent,
     PushReady, CheckIfWorkflowFinished, CompleteWorkflow
<1>3. tasks' = Decremented(coord.event.executionID, coord.event.refID,
                           coord.event.type # "completed")
  BY <1>2 DEF HandleTaskCompleted, HandleTaskTerminated, Handling, DecrementInDegree,
     Write, Fault, Steady, Dependable
<1>4. UNCHANGED channel
  BY <1>2 DEF HandleTaskCompleted, HandleTaskTerminated, busVars
<1>5. t \in DOMAIN tasks
  BY DEF Children
<1> QED BY <1>3, <1>4, <1>5 DEF Decremented, CountedDown

-----------------------------------------------------------------------------
(* What DistinctRefs leaves out of what a client should send: a dependency  *)
(* is listed once and is there.                                             *)
WellFormed ==
  /\ DistinctRefs
  /\ \A req \in Requests : \A i \in DOMAIN req :
       LET deps == req[i].dependencies IN
       /\ \A j, k \in DOMAIN deps : deps[j] = deps[k] => j = k
       /\ \A j \in DOMAIN deps : \E m \in DOMAIN req : req[m].refID = deps[j]

ExactInv ==
  /\ \A t \in DOMAIN tasks : IsFiniteSet(Parents(t))
  /\ InDegreeExact /\ SkipHintExact

ExactFor(t) ==
  /\ tasks[t].inDegree = Cardinality(PendingParents(t))
  /\ tasks[t].skipHint <=>
       \E d \in Parents(t) \ PendingParents(t) : tasks[d].status \in Spoiling

(* The count of a task stays right as long as the ends of its parents are   *)
(* announced, whatever happens to the rest of the workflow.                 *)
LEMMA ExactStays ==
  ASSUME Steady, TypeOK, DeliveryInv, StageInv, RecordsInv, EndedInv, EventsInv,
         Subscribers, [Next]_vars, NEW t \in DOMAIN tasks,
         IsFiniteSet(Parents(t)), ExactFor(t), \A d \in Parents(t) : KeepsEvent(d)
  PROVE  IsFiniteSet(Parents(t))' /\ ExactFor(t)'
<1>1. Parents(t)' = Parents(t) /\ Parents(t) \subseteq DOMAIN tasks
  BY ParentsStay
<1>2. Dependable /\ "db" \notin FaultKinds
  BY DEF Steady, Dependable
<1>3. \A d \in Parents(t) :
        ~EventPending(d) => ~EventPending(d)' /\ tasks'[d].status = tasks[d].status
  BY <1>1, <1>2, LearnedStays
<1>4. ExactFor(t)
  OBVIOUS
<1>5. PendingParents(t) = {d \in Parents(t) : EventPending(d)}
      /\ PendingParents(t)' = {d \in Parents(t) : EventPending(d)'}
  BY <1>1 DEF PendingParents
<1>6. CASE CountedDown(t)
  <2>1. PICK d \in Parents(t) :
          /\ EventPending(d) /\ ~EventPending(d)'
          /\ tasks'[d].status \in Spoiling <=> coord.event.type # "completed"
    BY <1>2, <1>6, HandledParent
  <2>2. \A c \in Parents(t) : EventPending(c) /\ ~EventPending(c)' => c = d
    BY <2>1 DEF KeepsEvent, HandlesEnd
  <2>3. PendingParents(t)' = PendingParents(t) \ {d} /\ d \in PendingParents(t)
    BY <1>3, <1>5, <2>1, <2>2
  <2>4. IsFiniteSet(PendingParents(t))
    BY <1>1, <1>5, FS_Subset
  <2>5. Cardinality(PendingParents(t)') = Cardinality(PendingParents(t)) - 1
    BY <2>3, <2>4, FS_RemoveElement
  <2>6. /\ tasks'[t].inDegree = tasks[t].inDegree - 1
        /\ tasks'[t].skipHint <=> tasks[t].skipHint \/ coord.event.type # "completed"
    <3>1. tasks[t] \in Task
      BY DEF TypeOK, TaskRepositoryTypeOK
    <3>2. PICK skip \in BOOLEAN : /\ skip <=> coord.event.type # "completed"
                                  /\ tasks'[t] = DecrementedRow(tasks[t], skip)
      BY <1>6 DEF CountedDown
    <3> QED BY <3>1, <3>2 DEF DecrementedRow, Task
  <2>7. tasks'[t].inDegree = Cardinality(PendingParents(t)')
    BY <1>4, <2>5, <2>6 DEF ExactFor
  <2>8. Parents(t) \ PendingParents(t)' = (Parents(t) \ PendingParents(t)) \cup {d}
    BY <2>1, <2>3
  <2>9. \A c \in Parents(t) \ PendingParents(t) : tasks'[c].status = tasks[c].status
    BY <1>3, <1>5
  <2>10. tasks'[t].skipHint <=>
           \E c \in Parents(t) \ PendingParents(t)' : tasks'[c].status \in Spoiling
    BY <1>4, <2>1, <2>6, <2>8, <2>9 DEF ExactFor
  <2> QED BY <1>1, <2>7, <2>10 DEF ExactFor
<1>7. CASE ~CountedDown(t)
  <2>1. \A d \in Parents(t) : EventPending(d) => EventPending(d)'
    <3>1. ASSUME NEW d \in Parents(t), EventPending(d), ~EventPending(d)' PROVE FALSE
      <4>1. /\ coord.pc = "decrement" /\ coord.event.taskID = d
            /\ coord'.pc # "decrement"
        BY <3>1 DEF KeepsEvent, HandlesEnd
      <4>2. t \in Children(coord.event.executionID, coord.event.refID)
        BY <4>1 DEF RecordsInv, Handled, AboutARow, Children, Parents, TasksOf
      <4> QED BY <1>7, <4>1, <4>2, HandlingCountsDown
    <3> QED BY <3>1
  <2>2. PendingParents(t)' = PendingParents(t)
    BY <1>3, <1>5, <2>1
  <2>3. SameCount(t)
    BY <1>2, <1>7, CountMoves
  <2>4. \A c \in Parents(t) \ PendingParents(t) : tasks'[c].status = tasks[c].status
    BY <1>3, <1>5
  <2> QED BY <1>1, <1>4, <2>2, <2>3, <2>4 DEF ExactFor, SameCount
<1> QED BY <1>6, <1>7

-----------------------------------------------------------------------------
(* ... and in a well-formed request exactly once. *)
LEMMA ParentsAreNamedOnce ==
  ASSUME WellFormed, NEW e \in Execution, NEW req \in Requests, NEW t \in TaskIDs(e, req)
  PROVE  ToTasks(e, req)[t].inDegree = Cardinality(RequestGraph(e, req)[t])
<1> DEFINE deps == req[t[2]].dependencies
           P == RequestGraph(e, req)[t]
           parent == [k \in 1..Len(deps) |->
                        CHOOSE d \in TaskIDs(e, req) : req[d[2]].refID = deps[k]]
<1>1. t[2] \in DOMAIN req /\ ToTasks(e, req)[t].inDegree = Len(deps)
  BY DEF TaskIDs, ToTasks, ToTask
<1>2. Len(deps) \in Nat /\ DOMAIN deps = 1..Len(deps)
  <2>1. req \in Seq(TaskDTO)
    BY RequestsAssumption
  <2>2. req[t[2]] \in TaskDTO
    BY <1>1, <2>1, ElementOfSeq, LenProperties
  <2> QED BY <2>2, LenProperties DEF TaskDTO
<1>3. \A k \in DOMAIN deps : \E d \in TaskIDs(e, req) : req[d[2]].refID = deps[k]
  <2>1. ASSUME NEW k \in DOMAIN deps
        PROVE  \E d \in TaskIDs(e, req) : req[d[2]].refID = deps[k]
    <3>1. PICK m \in DOMAIN req : req[m].refID = deps[k]
      BY <1>1, <2>1 DEF WellFormed
    <3>2. <<e, m>> \in TaskIDs(e, req) /\ <<e, m>>[2] = m
      BY DEF TaskIDs
    <3> QED BY <3>1, <3>2
  <2> QED BY <2>1
<1>4. \A k \in 1..Len(deps) : parent[k] \in TaskIDs(e, req) /\ req[parent[k][2]].refID = deps[k]
  BY <1>2, <1>3
<1>5. \A k \in 1..Len(deps) : parent[k] \in P
  <2>1. P = {d \in TaskIDs(e, req) : req[d[2]].refID \in Range(deps)}
    BY DEF RequestGraph
  <2>2. \A k \in DOMAIN deps : deps[k] \in Range(deps)
    BY DEF Range
  <2> HIDE DEF P, parent, deps
  <2> QED BY <1>2, <1>4, <2>1, <2>2
<1>6. \A j, k \in DOMAIN deps : deps[j] = deps[k] => j = k
  BY <1>1 DEF WellFormed
<1> HIDE DEF P, deps
<1>7. parent \in Injection(1..Len(deps), P)
  BY <1>2, <1>4, <1>5, <1>6 DEF Injection, IsInjective
<1>8. DistinctRefs
  BY DEF WellFormed
<1>9. IsFiniteSet(P) /\ ToTasks(e, req)[t].inDegree >= Cardinality(P)
  BY <1>8, ParentsAreNamed DEF P
<1> HIDE DEF parent
<1>10. Cardinality(1..Len(deps)) <= Cardinality(P)
  BY <1>7, <1>9, FS_Injection
<1>11. Cardinality(1..Len(deps)) = Len(deps) /\ Cardinality(P) \in Nat
  <2>1. Cardinality(1..Len(deps)) = IF 1 > Len(deps) THEN 0 ELSE Len(deps) - 1 + 1
    BY <1>2, FS_Interval
  <2> QED BY <1>2, <1>9, <2>1, FS_CardinalityType
<1> QED BY <1>1, <1>2, <1>9, <1>10, <1>11 DEF P, deps

LEMMA ExactStarts ==
  ASSUME WellFormed, TypeOK, DeliveryInv, StageInv, RecordsInv, [Next]_vars,
         NEW t \in DOMAIN tasks', t \notin DOMAIN tasks
  PROVE  IsFiniteSet(Parents(t))' /\ ExactFor(t)'
<1>1. PICK e \in Execution, req \in Requests :
        Submits(e, req) /\ t \in TaskIDs(e, req) /\ tasks'[t] = ToTasks(e, req)[t]
  BY RowsAppear
<1>2. Parents(t)' = RequestGraph(e, req)[t] /\ TasksOf(e)' = TaskIDs(e, req)
  BY <1>1, NewGraph
<1>3. DistinctRefs
  BY DEF WellFormed
<1>4. IsFiniteSet(Parents(t))' /\ tasks'[t].inDegree = Cardinality(Parents(t)')
  BY <1>1, <1>2, <1>3, ParentsAreNamed, ParentsAreNamedOnce
<1>5. \A d \in Parents(t)' : EventPending(d)'
  <2>1. \A d \in Parents(t)' : d \in TaskIDs(e, req)
    BY <1>1, <1>2 DEF RequestGraph
  <2>2. \A d \in TaskIDs(e, req) : tasks'[d] = ToTasks(e, req)[d]
    BY <1>1 DEF Submits, Inserted
  <2>3. \A d \in TaskIDs(e, req) : tasks'[d].status \notin Terminal
    <3>1. \A d \in TaskIDs(e, req) :
            ToTasks(e, req)[d].status = IF Len(req[d[2]].dependencies) = 0
                                        THEN "QUEUED" ELSE "PENDING"
      BY DEF ToTasks, ToTask
    <3> QED BY <2>2, <3>1 DEF Terminal
  <2> QED BY <2>1, <2>3 DEF EventPending
<1>6. PendingParents(t)' = Parents(t)'
  BY <1>5 DEF PendingParents
<1>7. ~tasks'[t].skipHint
  BY <1>1 DEF ToTasks, ToTask
<1> QED BY <1>4, <1>6, <1>7 DEF ExactFor

LEMMA ExactStep ==
  ASSUME Lossless, WellFormed, TypeOK, DeliveryInv, StageInv, RecordsInv, EndedInv,
         EventsInv, Subscribers, ExactInv, [Next]_vars
  PROVE  ExactInv'
<1>1. ASSUME NEW t \in DOMAIN tasks' PROVE IsFiniteSet(Parents(t))' /\ ExactFor(t)'
  <2>1. CASE t \in DOMAIN tasks
    <3>1. IsFiniteSet(Parents(t)) /\ ExactFor(t)
      BY <2>1 DEF ExactInv, InDegreeExact, SkipHintExact, ExactFor, Spoiling
    <3>2. \A d \in Parents(t) : KeepsEvent(d)
      BY LearnedByHandling DEF LosesEvent, Fault, Lossless, Parents, TasksOf
    <3>3. Steady
      BY DEF Lossless
    <3> QED BY <2>1, <3>1, <3>2, <3>3, ExactStays
  <2>2. CASE t \notin DOMAIN tasks
    BY <1>1, <2>2, ExactStarts
  <2> QED BY <2>1, <2>2
<1> QED BY <1>1 DEF ExactInv, InDegreeExact, SkipHintExact, ExactFor, Spoiling

LEMMA ExactInvariant ==
  ASSUME Lossless, WellFormed
  PROVE  Spec => []ExactInv
<1>1. Init => ExactInv
  <2> SUFFICES ASSUME Init PROVE ExactInv
    OBVIOUS
  <2>1. DOMAIN tasks = {}
    BY DEF Init, TaskRepositoryInit
  <2> QED BY <2>1 DEF ExactInv, InDegreeExact, SkipHintExact
<1>2. TypeOK /\ DeliveryInv /\ StageInv /\ (RecordsInv /\ OutcomeInv)
        /\ (EndedInv /\ EventsInv) /\ Subscribers /\ ExactInv /\ [Next]_vars => ExactInv'
  BY ExactStep
<1>3. "dupPush" \notin FaultKinds /\ Dependable /\ Steady
  BY DEF Lossless, Steady, Dependable
<1> QED
  BY <1>1, <1>2, <1>3, TypeCorrect, DeliveryInvariant, StageInvariant, OutcomeInvariant,
     EventsInvariant, SubscribersInvariant, PTL DEF Spec

(* in_degree is the number of parents whose end the coordinator has not     *)
(* handled, as long as requests are well formed and no event is lost; lost  *)
(* pushes and pops strand tasks and leave the counts right.                 *)
THEOREM InDegreesAreExact ==
  ASSUME Lossless, WellFormed
  PROVE  Spec => []InDegreeExact
<1>1. ExactInv => InDegreeExact
  BY DEF ExactInv
<1> QED BY <1>1, ExactInvariant, PTL

(* Under the same conditions skip_hint is set exactly when a parent's       *)
(* failure or skip has been handled.                                        *)
THEOREM HintsAreExact ==
  ASSUME Lossless, WellFormed
  PROVE  Spec => []SkipHintExact
<1>1. ExactInv => SkipHintExact
  BY DEF ExactInv
<1> QED BY <1>1, ExactInvariant, PTL
=============================================================================
