---------------------------- MODULE OutcomeProofs ----------------------------
(***************************************************************************)
(* The outcome of an execution: it is decided once, and COMPLETED means    *)
(* that every task is.  What the rows, the events and the table of         *)
(* executions say of each other, on the way and after it.                  *)
(***************************************************************************)
EXTENDS LifecycleProofs

(* The event is about a task of the table and agrees with its row. *)
AboutARow(event, table) ==
  /\ event.taskID \in DOMAIN table
  /\ event.executionID = table[event.taskID].executionID
  /\ event.refID = table[event.taskID].refID

Handled == {"decrement", "push", "check", "complete"}

RecordsInv ==
  /\ \A t \in DOMAIN tasks : tasks[t].executionID = t[1] /\ executions[t[1]] # "absent"
  /\ \A e \in Execution : submit[e].pc = "new" => executions[e] = "absent"
  /\ \A ch \in ChannelName : \A i \in DOMAIN channel[ch] : AboutARow(channel[ch][i], tasks)
  /\ coord.pc \in Handled => AboutARow(coord.event, tasks)

OutcomeInv ==
  /\ coord.pc = "complete" => AllTasksCompleted(coord.event.executionID)
  /\ CompletedMeansAllCompleted

-----------------------------------------------------------------------------
(* The columns that say which task a row is never change. *)
SameName(row, new) ==
  /\ new.executionID = row.executionID /\ new.refID = row.refID
  /\ new.dependencies = row.dependencies /\ new.action = row.action

LEMMA MovesKeepNames ==
  ASSUME NEW row \in Task, NEW new, NEW skip,
         Move(row, new) \/ new = DecrementedRow(row, skip)
  PROVE  SameName(row, new)
BY DEF Move, DecrementedRow, Task, SameName

(* What a step does to the rows there were, and where new rows come from. *)
LEMMA RowsStay ==
  ASSUME TypeOK, DeliveryInv, StageInv, [Next]_vars, NEW t \in DOMAIN tasks
  PROVE  /\ t \in DOMAIN tasks' /\ SameName(tasks[t], tasks'[t])
         /\ tasks[t].status = "COMPLETED" => tasks'[t].status = "COMPLETED"
<1>1. tasks[t] \in Task /\ GoodRow(tasks[t]) /\ tasks[t].inDegree \in Int
  BY DEF TypeOK, TaskRepositoryTypeOK, StageInv, Task
<1>2. CASE UNCHANGED tasks
  BY <1>2 DEF SameName
<1>3. ASSUME NEW u \in DOMAIN tasks, NEW new, Move(tasks[u], new), RowBecomes(tasks', u, new)
      PROVE  /\ t \in DOMAIN tasks' /\ SameName(tasks[t], tasks'[t])
             /\ tasks[t].status = "COMPLETED" => tasks'[t].status = "COMPLETED"
  <2>1. CASE u = t
    <3>1. t \in DOMAIN tasks' /\ tasks'[t] = new
      BY <1>3, <2>1 DEF RowBecomes
    <3>2. SameName(tasks[t], new)
      BY <1>1, <1>3, <2>1, MovesKeepNames
    <3>3. tasks[t].status = "COMPLETED" => new = tasks[t]
      BY <1>3, <2>1 DEF Move, Waiting
    <3> QED BY <3>1, <3>2, <3>3
  <2>2. CASE u # t
    BY <1>3, <2>2 DEF RowBecomes, SameName
  <2> QED BY <2>1, <2>2
<1>4. ASSUME NEW skip \in BOOLEAN, CountsDown(skip)
      PROVE  /\ t \in DOMAIN tasks' /\ SameName(tasks[t], tasks'[t])
             /\ tasks[t].status = "COMPLETED" => tasks'[t].status = "COMPLETED"
  <2>1. SameName(tasks[t], DecrementedRow(tasks[t], skip)) /\ SameName(tasks[t], tasks[t])
    BY <1>1, MovesKeepNames DEF Move
  <2>2. tasks[t].status = "COMPLETED" => tasks[t].inDegree <= 0
    BY <1>1 DEF GoodRow
  <2>3. tasks[t].inDegree <= 0 => DecrementedRow(tasks[t], skip).status = tasks[t].status
    BY <1>1, DecrementedRows
  <2> QED BY <1>4, <2>1, <2>2, <2>3 DEF CountsDown
<1>5. ASSUME NEW e \in Execution, NEW req \in Requests, Submits(e, req)
      PROVE  t \in DOMAIN tasks' /\ tasks'[t] = tasks[t]
  <2>1. TaskIDs(e, req) \cap DOMAIN tasks = {}
    BY <1>5, FreshIDs DEF Submits
  <2> QED BY <1>5, <2>1 DEF Submits, Inserted
<1> QED BY <1>2, <1>3, <1>4, <1>5, TableMoves DEF SameName

LEMMA RowsAppear ==
  ASSUME TypeOK, DeliveryInv, StageInv, [Next]_vars,
         NEW t \in DOMAIN tasks', t \notin DOMAIN tasks
  PROVE  \E e \in Execution, req \in Requests :
           /\ Submits(e, req) /\ t \in TaskIDs(e, req)
           /\ tasks'[t] = ToTasks(e, req)[t]
<1>1. PICK e \in Execution, req \in Requests : Submits(e, req)
  BY TableMoves DEF RowBecomes, CountsDown
<1>2. t \in TaskIDs(e, req) /\ tasks'[t] = ToTasks(e, req)[t]
  BY <1>1 DEF Submits, Inserted
<1> QED BY <1>1, <1>2

(* A new row is one of an execution that was absent and is RUNNING now. *)
LEMMA NewExecution ==
  ASSUME TypeOK, DeliveryInv, NEW e \in Execution, NEW req \in Requests, Submits(e, req)
  PROVE  /\ submit[e].pc = "new" /\ executions' = [executions EXCEPT ![e] = "RUNNING"]
         /\ \A t \in TaskIDs(e, req) : t[1] = e /\ ToTasks(e, req)[t].executionID = e
<1>1. tasks' # tasks
  <2>1. TaskIDs(e, req) # {} /\ TaskIDs(e, req) \cap DOMAIN tasks = {}
    BY FreshIDs DEF Submits
  <2> QED BY <2>1 DEF Submits, Inserted
<1>2. submit[e].pc = "new" /\ executions' = [executions EXCEPT ![e] = "RUNNING"]
  BY <1>1, Zenon DEF Submits, CreateExecution
<1>3. \A t \in TaskIDs(e, req) : t[1] = e /\ ToTasks(e, req)[t].executionID = e
  BY DEF TaskIDs, ToTasks, ToTask
<1> QED BY <1>2, <1>3

-----------------------------------------------------------------------------
(* Everything any step does to the table of executions. *)
FailsExecution(w) ==
  /\ thread[w].pc \in {"failWorkflow", "failUnknown"}
  /\ executions' = Updated(Row(w).executionID, "FAILED")

CompletesExecution ==
  /\ coord.pc = "complete"
  /\ executions' = Updated(coord.event.executionID, "COMPLETED")

LEMMA ExecutionMoves ==
  ASSUME [Next]_vars
  PROVE  \/ UNCHANGED executions
         \/ \E e \in Execution : /\ submit[e].pc = "new"
                                 /\ executions' = [executions EXCEPT ![e] = "RUNNING"]
                                 /\ CreateExecution(e)
         \/ UNCHANGED tasks /\ \E w \in Thread : FailsExecution(w)
         \/ UNCHANGED tasks /\ CompletesExecution
<1>1. ASSUME NEW w \in Thread, WorkerAction(w)
      PROVE  UNCHANGED executions \/ (UNCHANGED tasks /\ FailsExecution(w))
  <2>1. CASE FailWorkflow(w) \/ FailUnknown(w)
    BY <2>1 DEF FailWorkflow, FailUnknown, UpdateStatus, ExecutionsWrite, FailsExecution, At
  <2>2. CASE ~(FailWorkflow(w) \/ FailUnknown(w))
    BY <1>1, <2>2 DEF WorkerAction, ProcessNextTask, PopTask, FindTask, SkipTask,
       PublishSkipped, Claim, ExecuteHandler, MarkUnknown, PublishUnknown, Retry, PushRetry,
       FailTask, PublishFailed, CompleteTask, PublishCompleted
  <2> QED BY <2>1, <2>2
<1>2. CASE CoordinatorAction
  <2>1. CASE CompleteWorkflow
    BY <2>1 DEF CompleteWorkflow, UpdateStatus, ExecutionsWrite, CompletesExecution
  <2>2. CASE ~CompleteWorkflow
    BY <1>2, <2>2 DEF CoordinatorAction, CoordinatorStep, SubscribeToEvents,
       SubscribeToTerminationEvents, ReceiveEvent, HandleTaskCompleted,
       HandleTaskTerminated, PushReady, CheckIfWorkflowFinished
  <2> QED BY <2>1, <2>2
<1>3. ASSUME NEW e \in Execution, ServiceAction(e)
      PROVE  \/ UNCHANGED executions
             \/ /\ submit[e].pc = "new" /\ CreateExecution(e)
                /\ executions' = [executions EXCEPT ![e] = "RUNNING"]
  BY <1>3, Zenon DEF ServiceAction, SubmitStep, CreateExecution, EnqueueRootTask
<1>4. CASE (\E ch \in ChannelName : BusAction(ch)) \/ Crash \/ UNCHANGED vars
  BY <1>4 DEF BusAction, Crash, vars
<1> QED BY <1>1, <1>2, <1>3, <1>4 DEF Next

-----------------------------------------------------------------------------
(* Every message in a channel was there before or is the announcement of a  *)
(* thread about the task it holds.                                          *)
Announces(pc, type) ==
  \/ pc = "publishCompleted" /\ type = "completed"
  \/ pc = "publishSkipped" /\ type = "skipped"
  \/ pc \in {"publishFailed", "publishUnknown"} /\ type = "failed"

Announcement(w, event) ==
  \E type : /\ Announces(thread[w].pc, type)
            /\ event = Event(thread[w].task, tasks[thread[w].task], type)

LEMMA PublishedMessages ==
  ASSUME RedisEventBusTypeOK, NEW ch \in ChannelName, NEW event, Publish(ch, event)
  PROVE  \A c \in ChannelName : \A i \in DOMAIN channel'[c] :
           \/ i \in DOMAIN channel[c] /\ channel'[c][i] = channel[c][i]
           \/ channel'[c][i] = event
<1>1. ASSUME NEW n \in 1..2, channel' = [channel EXCEPT ![ch] = @ \o [i \in 1..n |-> event]],
             NEW c \in ChannelName, NEW i \in DOMAIN channel'[c]
      PROVE  \/ i \in DOMAIN channel[c] /\ channel'[c][i] = channel[c][i]
             \/ channel'[c][i] = event
  <2>1. channel[ch] \in Seq(AnyEvent \cup {event})
    BY DEF RedisEventBusTypeOK, AnyEvent
  <2>2. [j \in 1..n |-> event] \in Seq(AnyEvent \cup {event})
        /\ Len([j \in 1..n |-> event]) = n
    BY SeqDef
  <2>3. CASE c = ch
    BY <1>1, <2>1, <2>2, <2>3, ConcatProperties, LenProperties DEF RedisEventBusTypeOK
  <2>4. CASE c # ch
    BY <1>1, <2>4 DEF RedisEventBusTypeOK
  <2> QED BY <2>3, <2>4
<1>2. CASE channel' = channel
  BY <1>2
<1> QED BY <1>1, <1>2 DEF Publish, Delivered

LEMMA LostMessages ==
  ASSUME RedisEventBusTypeOK, NEW ch \in ChannelName,
         Disconnect(ch) \/ (\E event : Receive(ch, event))
  PROVE  \E k \in 0..1 : \A c \in ChannelName : \A i \in DOMAIN channel'[c] :
           /\ i \in Int
           /\ c = ch => i + k \in DOMAIN channel[c] /\ channel'[c][i] = channel[c][i + k]
           /\ c # ch => i \in DOMAIN channel[c] /\ channel'[c][i] = channel[c][i]
<1>1. \A c \in ChannelName : /\ channel[c] \in Seq(AnyEvent) /\ Len(channel[c]) \in Nat
                             /\ DOMAIN channel[c] = 1..Len(channel[c])
  BY LenProperties DEF RedisEventBusTypeOK, AnyEvent
<1>2. ASSUME NEW m \in 0..1, m <= Len(channel[ch]),
             channel' = [channel EXCEPT ![ch] = SubSeq(@, 1, m)],
             NEW c \in ChannelName, NEW i \in DOMAIN channel'[c]
      PROVE  i \in Int /\ i \in DOMAIN channel[c] /\ channel'[c][i] = channel[c][i]
  <2>1. CASE c = ch
    BY <1>1, <1>2, <2>1, SubSeqProperties DEF RedisEventBusTypeOK
  <2>2. CASE c # ch
    BY <1>1, <1>2, <2>2 DEF RedisEventBusTypeOK
  <2> QED BY <2>1, <2>2
<1>3. CASE Disconnect(ch)
  <2>1. PICK m \in 0..1 : m <= Len(channel[ch]) /\ channel' = [channel EXCEPT ![ch] = SubSeq(@, 1, m)]
    <3>1. PICK kept \in 0..1 :
            channel' = [channel EXCEPT ![ch] = SubSeq(@, 1, IF @ = <<>> THEN 0 ELSE kept)]
      BY <1>3 DEF Disconnect
    <3>2. CASE channel[ch] = <<>>
      BY <1>1, <3>1, <3>2 DEF RedisEventBusTypeOK
    <3>3. CASE channel[ch] # <<>>
      <4>1. Len(channel[ch]) >= 1
        BY <1>1, <3>3, EmptySeq
      <4>2. channel' = [channel EXCEPT ![ch] = SubSeq(@, 1, kept)] /\ kept <= Len(channel[ch])
        BY <1>1, <3>1, <3>3, <4>1 DEF RedisEventBusTypeOK
      <4> QED BY <4>2
    <3> QED BY <3>2, <3>3
  <2> QED BY <1>1, <1>2, <2>1
<1>4. CASE \E event : Receive(ch, event)
  <2>1. channel[ch] # <<>> /\ channel' = [channel EXCEPT ![ch] = Tail(@)]
    BY <1>4 DEF Receive
  <2>2. /\ Len(channel[ch]) >= 1 /\ DOMAIN channel'[ch] = 1..(Len(channel[ch]) - 1)
        /\ \A i \in 1..(Len(channel[ch]) - 1) : channel'[ch][i] = channel[ch][i + 1]
    BY <1>1, <2>1, EmptySeq, HeadTailProperties, LenProperties DEF RedisEventBusTypeOK
  <2>3. ASSUME NEW c \in ChannelName, NEW i \in DOMAIN channel'[c]
        PROVE  /\ i \in Int
               /\ c = ch => i + 1 \in DOMAIN channel[c] /\ channel'[c][i] = channel[c][i + 1]
               /\ c # ch => i \in DOMAIN channel[c] /\ channel'[c][i] = channel[c][i]
    <3>1. CASE c = ch
      BY <1>1, <2>2, <2>3, <3>1
    <3>2. CASE c # ch
      BY <1>1, <2>1, <2>3, <3>2 DEF RedisEventBusTypeOK
    <3> QED BY <3>1, <3>2
  <2> QED BY <2>3
<1> QED BY <1>3, <1>4

LEMMA EventMoves ==
  ASSUME TypeOK, StageInv, [Next]_vars
  PROVE  /\ \A c \in ChannelName : \A i \in DOMAIN channel'[c] :
              \/ \E j \in DOMAIN channel[c] : channel'[c][i] = channel[c][j]
              \/ UNCHANGED tasks /\ \E w \in Thread : Announcement(w, channel'[c][i])
         /\ coord'.pc \in Handled =>
              \/ coord.pc \in Handled /\ coord'.event = coord.event
              \/ \E c \in ChannelName : \E j \in DOMAIN channel[c] : coord'.event = channel[c][j]
<1> DEFINE Kept(c, i) == \E j \in DOMAIN channel[c] : channel'[c][i] = channel[c][j]
           Carried == coord'.pc \in Handled =>
                        coord.pc \in Handled /\ coord'.event = coord.event
<1>0. RedisEventBusTypeOK /\ \A c \in ChannelName : channel[c] \in Seq(AnyEvent)
  BY DEF TypeOK, RedisEventBusTypeOK, AnyEvent
<1>1. UNCHANGED channel => \A c \in ChannelName : \A i \in DOMAIN channel'[c] : Kept(c, i)
  OBVIOUS
<1>2. UNCHANGED coord => Carried
  OBVIOUS
<1>3. ASSUME NEW w \in Thread, WorkerAction(w)
      PROVE  \A c \in ChannelName : \A i \in DOMAIN channel'[c] :
               Kept(c, i) \/ (UNCHANGED tasks /\ Announcement(w, channel'[c][i]))
  <2>1. ASSUME NEW type, Announces(thread[w].pc, type), NEW c0 \in ChannelName,
               Publish(c0, Event(thread[w].task, Row(w), type)), UNCHANGED tasks
        PROVE  \A c \in ChannelName : \A i \in DOMAIN channel'[c] :
                 Kept(c, i) \/ (UNCHANGED tasks /\ Announcement(w, channel'[c][i]))
    BY <1>0, <2>1, PublishedMessages DEF Announcement, Row
  <2>2. CASE PublishSkipped(w) \/ PublishFailed(w) \/ PublishCompleted(w) \/ PublishUnknown(w)
    <3>1. UNCHANGED tasks
      BY <2>2 DEF PublishSkipped, PublishFailed, PublishCompleted, PublishUnknown
    <3>2. \E type, c0 : /\ c0 \in ChannelName /\ Announces(thread[w].pc, type)
                        /\ Publish(c0, Event(thread[w].task, Row(w), type))
      BY <2>2 DEF PublishSkipped, PublishFailed, PublishCompleted, PublishUnknown,
         PublishTaskCompleted, PublishTaskTerminated, Announces, At, ChannelName
    <3> QED BY <2>1, <3>1, <3>2
  <2>3. CASE ~(PublishSkipped(w) \/ PublishFailed(w) \/ PublishCompleted(w)
               \/ PublishUnknown(w))
    <3>1. UNCHANGED channel
      BY <1>3, <2>3 DEF WorkerAction, ProcessNextTask, PopTask, FindTask, SkipTask, Claim,
         ExecuteHandler, MarkUnknown, FailUnknown, Retry, PushRetry, FailTask, FailWorkflow,
         CompleteTask, busVars
    <3> QED BY <1>1, <3>1
  <2> QED BY <2>2, <2>3
<1>4. CASE CoordinatorAction
  <2>1. ASSUME NEW ch \in ChannelName, ReceiveEvent(ch)
        PROVE  /\ \A c \in ChannelName : \A i \in DOMAIN channel'[c] : Kept(c, i)
               /\ \E j \in DOMAIN channel[ch] : coord'.event = channel[ch][j]
    <3>1. PICK j \in DOMAIN channel[ch] :
            Receive(ch, channel[ch][j]) /\ coord'.event = channel[ch][j]
      BY <2>1 DEF ReceiveEvent
    <3> QED BY <1>0, <3>1, LostMessages
  <2>2. CASE ~(\E ch \in ChannelName : ReceiveEvent(ch))
    <3>1. UNCHANGED channel
      BY <1>4, <2>2 DEF CoordinatorAction, CoordinatorStep, SubscribeToEvents, Subscribe,
         SubscribeToTerminationEvents, HandleTaskCompleted, HandleTaskTerminated, PushReady,
         CheckIfWorkflowFinished, CompleteWorkflow, busVars
    <3>2. coord.pc = "check" /\ coord' = [coord EXCEPT !.pc = "complete"] =>
            coord.pc \in Handled /\ coord'.event = coord.event
      BY DEF TypeOK, CoordinatorTypeOK, Handled
    <3>3. ASSUME HandleTaskCompleted \/ HandleTaskTerminated PROVE Carried
      <4>1. coord.pc = "decrement"
        BY <3>3 DEF HandleTaskCompleted, HandleTaskTerminated, Handling
      <4>2. Select \/ \E ready : coord' = AfterDecrement(coord.event, ready)
        BY <3>3 DEF HandleTaskCompleted, HandleTaskTerminated
      <4>3. \A ready : AfterDecrement(coord.event, ready).event = coord.event
        BY DEF AfterDecrement
      <4> QED BY <4>1, <4>2, <4>3 DEF Select, CoordinatorAt, Handled
    <3>4. ASSUME PushReady PROVE Carried
      <4>1. \A t : coord' = [coord EXCEPT !.ready = @ \ {t}] => coord'.event = coord.event
        BY DEF TypeOK, CoordinatorTypeOK
      <4> QED BY <3>4, <4>1 DEF PushReady, Select, CoordinatorAt, Handled
    <3>5. ASSUME CheckIfWorkflowFinished PROVE Carried
      BY <3>2, <3>5 DEF CheckIfWorkflowFinished, Select, CoordinatorAt, Handled
    <3>6. ASSUME SubscribeToEvents \/ SubscribeToTerminationEvents \/ CompleteWorkflow
          PROVE  Carried
      <4>1. \E pc \in {"select", "subscribeTerminated"} : coord' = CoordinatorAt(pc)
        BY <3>6 DEF SubscribeToEvents, SubscribeToTerminationEvents, CompleteWorkflow, Select
      <4> QED BY <4>1 DEF CoordinatorAt, Handled
    <3> QED
      BY <1>1, <1>4, <2>2, <3>1, <3>3, <3>4, <3>5, <3>6 DEF CoordinatorAction, CoordinatorStep
  <2> QED BY <2>1, <2>2
<1>5. ASSUME NEW ch \in ChannelName, BusAction(ch)
      PROVE  /\ UNCHANGED coord
             /\ \A c \in ChannelName : \A i \in DOMAIN channel'[c] : Kept(c, i)
  <2>1. CASE Disconnect(ch)
    BY <1>0, <1>5, <2>1, LostMessages DEF BusAction
  <2>2. CASE Subscribed(ch)
    BY <1>1, <1>5, <2>2 DEF BusAction, Subscribed
  <2> QED BY <1>5, <2>1, <2>2 DEF BusAction
<1>6. CASE Crash
  <2>1. \A c \in ChannelName : channel'[c] = <<>>
    BY <1>6 DEF Crash, NoMessages
  <2>2. coord'.pc \notin Handled
    BY <1>6 DEF Crash, Listening, CoordinatorAt, Handled
  <2> QED BY <2>1, <2>2
<1>7. ASSUME NEW e \in Execution, ServiceAction(e) PROVE UNCHANGED <<channel, coord>>
  BY <1>7 DEF ServiceAction, busVars
<1>9. \A w \in Thread : WorkerAction(w) => UNCHANGED coord
  BY DEF WorkerAction
<1>8. CASE UNCHANGED vars
  BY <1>1, <1>2, <1>8 DEF vars
<1> QED BY <1>1, <1>2, <1>3, <1>4, <1>5, <1>6, <1>7, <1>8, <1>9 DEF Next

-----------------------------------------------------------------------------
(* Once submitted, an execution is not submitted again. *)
LEMMA SubmitStays ==
  ASSUME TypeOK, [Next]_vars, NEW e \in Execution, submit'[e].pc = "new"
  PROVE  submit[e].pc = "new" /\ ~CreateExecution(e)
<1>1. ASSUME NEW d \in Execution, SubmitStep(d) PROVE d # e /\ submit'[e] = submit[e]
  <2>1. Submitted("error", {}).pc # "new" /\ \A roots : AfterCreate(roots).pc # "new"
    BY DEF AfterCreate, Submitted
  <2>2. CASE CreateExecution(d)
    <3>1. PICK s : submit' = [submit EXCEPT ![d] = s] /\ s.pc # "new"
      BY <2>1, <2>2, Zenon DEF CreateExecution
    <3> QED BY <3>1 DEF TypeOK, WorkflowServiceTypeOK
  <2>3. CASE EnqueueRootTask(d)
    <3>1. PICK s : submit' = [submit EXCEPT ![d] = s] /\ s.pc # "new"
      BY <2>1, <2>3, Zenon DEF EnqueueRootTask, AfterPush
    <3> QED BY <3>1 DEF TypeOK, WorkflowServiceTypeOK
  <2> QED BY <1>1, <2>2, <2>3 DEF SubmitStep
<1>2. ~CreateExecution(e)
  BY <1>1 DEF SubmitStep
<1>3. CASE Crash
  BY <1>2, <1>3 DEF Crash, Submitted
<1>4. CASE UNCHANGED submit
  BY <1>2, <1>4
<1> QED
  BY <1>1, <1>2, <1>3, <1>4
     DEF Next, vars, WorkerAction, CoordinatorAction, BusAction, ServiceAction

(* The coordinator completes an execution after a successful check. *)
LEMMA CompletePC ==
  ASSUME TypeOK, [Next]_vars, coord'.pc = "complete"
  PROVE  \/ UNCHANGED coord
         \/ /\ coord.pc = "check" /\ coord'.event = coord.event
            /\ AllTasksCompleted(coord.event.executionID)
<1>1. CASE CoordinatorAction
  <2>1. CASE CheckIfWorkflowFinished
    <3>1. coord' = [coord EXCEPT !.pc = "complete"] => coord'.event = coord.event
      BY DEF TypeOK, CoordinatorTypeOK
    <3> QED BY <2>1, <3>1 DEF CheckIfWorkflowFinished, Select, CoordinatorAt
  <2>2. CASE PushReady
    <3>1. \A t : coord' = [coord EXCEPT !.ready = @ \ {t}] => coord'.pc = coord.pc
      BY DEF TypeOK, CoordinatorTypeOK
    <3> QED BY <2>2, <3>1 DEF PushReady, Select, CoordinatorAt
  <2>3. CASE HandleTaskCompleted \/ HandleTaskTerminated
    <3>1. \A ready : AfterDecrement(coord.event, ready).pc # "complete"
      BY DEF AfterDecrement
    <3>2. Select \/ \E ready : coord' = AfterDecrement(coord.event, ready)
      BY <2>3 DEF HandleTaskCompleted, HandleTaskTerminated
    <3> QED BY <3>1, <3>2 DEF Select, CoordinatorAt
  <2>4. CASE SubscribeToEvents \/ SubscribeToTerminationEvents \/ CompleteWorkflow
    <3>1. \E pc \in {"select", "subscribeTerminated"} : coord' = CoordinatorAt(pc)
      BY <2>4 DEF SubscribeToEvents, SubscribeToTerminationEvents, CompleteWorkflow, Select
    <3> QED BY <3>1 DEF CoordinatorAt
  <2>5. CASE \E ch \in ChannelName : ReceiveEvent(ch)
    BY <2>5 DEF ReceiveEvent
  <2> QED BY <1>1, <2>1, <2>2, <2>3, <2>4, <2>5 DEF CoordinatorAction, CoordinatorStep
<1>2. CASE Crash
  BY <1>2 DEF Crash, Listening, CoordinatorAt
<1> QED BY <1>1, <1>2 DEF Next, vars, WorkerAction, ServiceAction, BusAction

-----------------------------------------------------------------------------
LEMMA RecordsStep ==
  ASSUME TypeOK, DeliveryInv, StageInv, RecordsInv, [Next]_vars
  PROVE  RecordsInv'
<1>1. ASSUME NEW event, AboutARow(event, tasks) PROVE AboutARow(event, tasks')
  BY <1>1, RowsStay DEF AboutARow, SameName
<1>2. ASSUME NEW e \in Execution, executions[e] # "absent" PROVE executions'[e] # "absent"
  BY <1>2, ExecutionMoves DEF Updated, TypeOK, WorkflowRepositoryTypeOK, FailsExecution,
     CompletesExecution
<1>3. ASSUME NEW t \in DOMAIN tasks'
      PROVE  tasks'[t].executionID = t[1] /\ executions'[t[1]] # "absent"
  <2>1. CASE t \in DOMAIN tasks
    <3>1. t[1] \in Execution
      BY <2>1 DEF TypeOK, TaskRepositoryTypeOK, TaskID
    <3> QED BY <1>2, <2>1, <3>1, RowsStay DEF RecordsInv, SameName
  <2>2. CASE t \notin DOMAIN tasks
    <3>1. PICK e \in Execution, req \in Requests :
            Submits(e, req) /\ t \in TaskIDs(e, req) /\ tasks'[t] = ToTasks(e, req)[t]
      BY <1>3, <2>2, RowsAppear
    <3> QED BY <3>1, NewExecution DEF TypeOK, WorkflowRepositoryTypeOK
  <2> QED BY <2>1, <2>2
<1>4. ASSUME NEW e \in Execution, submit'[e].pc = "new" PROVE executions'[e] = "absent"
  <2>1. submit[e].pc = "new" /\ ~CreateExecution(e)
    BY <1>4, SubmitStays
  <2>2. executions[e] = "absent" /\ \A t \in DOMAIN tasks : tasks[t].executionID # e
    BY <2>1 DEF RecordsInv, DeliveryInv, FreshSubmissions
  <2>3. \A w \in Thread : FailsExecution(w) => Row(w).executionID # e
    BY <2>2 DEF FailsExecution, Row, TypeOK, WorkerTypeOK
  <2>4. CompletesExecution => coord.event.executionID # e
    BY <2>2 DEF CompletesExecution, RecordsInv, AboutARow, Handled
  <2> QED
    BY <2>1, <2>2, <2>3, <2>4, ExecutionMoves
       DEF Updated, TypeOK, WorkflowRepositoryTypeOK, FailsExecution, CompletesExecution
<1>5. ASSUME NEW w \in Thread, NEW event, Announcement(w, event) PROVE AboutARow(event, tasks)
  BY <1>5 DEF Announcement, Announces, AboutARow, Event, TypeOK, WorkerTypeOK
<1>6. ASSUME NEW ch \in ChannelName, NEW i \in DOMAIN channel'[ch]
      PROVE  AboutARow(channel'[ch][i], tasks')
  <2>1. AboutARow(channel'[ch][i], tasks)
    BY <1>5, <1>6, EventMoves DEF RecordsInv
  <2> QED BY <1>1, <2>1
<1>7. coord'.pc \in Handled => AboutARow(coord'.event, tasks')
  <2>1. coord'.pc \in Handled => AboutARow(coord'.event, tasks)
    BY EventMoves DEF RecordsInv
  <2> QED BY <1>1, <2>1
<1> QED BY <1>3, <1>4, <1>6, <1>7 DEF RecordsInv

-----------------------------------------------------------------------------
(* Nothing is added to an execution that exists, so what completed stays. *)
LEMMA TasksStay ==
  ASSUME TypeOK, DeliveryInv, StageInv, RecordsInv, [Next]_vars,
         NEW e \in Execution, executions[e] # "absent"
  PROVE  TasksOf(e)' = TasksOf(e)
<1>1. \A t \in DOMAIN tasks : t \in DOMAIN tasks' /\ tasks'[t].executionID = tasks[t].executionID
  BY RowsStay DEF SameName
<1>2. ASSUME NEW t \in DOMAIN tasks', t \notin DOMAIN tasks PROVE tasks'[t].executionID # e
  <2>1. PICK d \in Execution, req \in Requests :
          Submits(d, req) /\ t \in TaskIDs(d, req) /\ tasks'[t] = ToTasks(d, req)[t]
    BY <1>2, RowsAppear
  <2>2. submit[d].pc = "new" /\ tasks'[t].executionID = d
    BY <2>1, NewExecution
  <2> QED BY <2>2 DEF RecordsInv
<1> QED BY <1>1, <1>2 DEF TasksOf

LEMMA AllCompletedStays ==
  ASSUME TypeOK, DeliveryInv, StageInv, RecordsInv, [Next]_vars,
         NEW e \in Execution, executions[e] # "absent", EveryTaskIs("COMPLETED", e)
  PROVE  EveryTaskIs("COMPLETED", e)'
<1>1. \A t \in TasksOf(e) : tasks'[t].status = "COMPLETED"
  BY RowsStay DEF EveryTaskIs, TasksOf
<1> QED BY <1>1, TasksStay DEF EveryTaskIs

LEMMA OutcomeStep ==
  ASSUME TypeOK, DeliveryInv, StageInv, RecordsInv, OutcomeInv, [Next]_vars
  PROVE  OutcomeInv'
<1>1. \A e : AllTasksCompleted(e) <=> EveryTaskIs("COMPLETED", e)
  BY DEF AllTasksCompleted, EveryTaskIs, TasksOf
<1>3. ASSUME coord.pc \in Handled
      PROVE  coord.event.executionID \in Execution /\ executions[coord.event.executionID] # "absent"
  BY <1>3 DEF RecordsInv, AboutARow, TypeOK, TaskRepositoryTypeOK, TaskID
<1>4. ASSUME coord'.pc = "complete" PROVE AllTasksCompleted(coord.event.executionID)'
  <2>1. /\ coord.pc \in Handled /\ coord'.event = coord.event
        /\ AllTasksCompleted(coord.event.executionID)
    BY <1>4, CompletePC DEF OutcomeInv, Handled
  <2>2. PICK e \in Execution : e = coord.event.executionID /\ e = coord'.event.executionID
    BY <1>3, <2>1
  <2>3. EveryTaskIs("COMPLETED", e)'
    BY <1>1, <1>3, <2>1, <2>2, AllCompletedStays
  <2> QED BY <2>2, <2>3 DEF AllTasksCompleted, EveryTaskIs, TasksOf
<1>5. ASSUME NEW e \in Execution, executions'[e] = "COMPLETED"
      PROVE  EveryTaskIs("COMPLETED", e)'
  <2>1. CASE executions[e] = "COMPLETED"
    BY <2>1, AllCompletedStays DEF OutcomeInv, CompletedMeansAllCompleted
  <2>2. CASE executions[e] # "COMPLETED"
    <3>1. UNCHANGED tasks /\ CompletesExecution /\ coord.event.executionID = e
      BY <1>5, <2>2, ExecutionMoves
         DEF Updated, TypeOK, WorkflowRepositoryTypeOK, FailsExecution, CompletesExecution
    <3>2. EveryTaskIs("COMPLETED", e)
      BY <1>1, <3>1 DEF OutcomeInv, CompletesExecution
    <3> QED BY <3>1, <3>2 DEF EveryTaskIs, TasksOf
  <2> QED BY <2>1, <2>2
<1> QED BY <1>4, <1>5 DEF OutcomeInv, CompletedMeansAllCompleted

LEMMA OutcomeInvariant ==
  ASSUME "dupPush" \notin FaultKinds
  PROVE  Spec => [](RecordsInv /\ OutcomeInv)
<1>1. Init => RecordsInv /\ OutcomeInv
  <2> SUFFICES ASSUME Init PROVE RecordsInv /\ OutcomeInv
    OBVIOUS
  <2>1. /\ DOMAIN tasks = {} /\ \A e \in Execution : executions[e] = "absent"
        /\ \A ch \in ChannelName : channel[ch] = <<>>
    BY DEF Init, TaskRepositoryInit, WorkflowRepositoryInit, RedisEventBusInit, NoMessages
  <2>2. coord.pc \notin Handled /\ coord.pc # "complete"
    BY DEF Init, CoordinatorInit, Listening, CoordinatorAt, Handled
  <2> QED
    BY <2>1, <2>2 DEF RecordsInv, OutcomeInv, CompletedMeansAllCompleted
<1>2. TypeOK /\ DeliveryInv /\ StageInv /\ (RecordsInv /\ OutcomeInv) /\ [Next]_vars
        => (RecordsInv /\ OutcomeInv)'
  BY RecordsStep, OutcomeStep
<1> QED
  BY <1>1, <1>2, TypeCorrect, DeliveryInvariant, StageInvariant, PTL DEF Spec

-----------------------------------------------------------------------------
(* An execution that is COMPLETED has completed tasks only, although the    *)
(* check and the update are two statements and the process may die, or an   *)
(* event come twice, in between.                                            *)
THEOREM CompletionIsTrue ==
  ASSUME "dupPush" \notin FaultKinds
  PROVE  Spec => []CompletedMeansAllCompleted
<1>1. OutcomeInv => CompletedMeansAllCompleted
  BY DEF OutcomeInv
<1> QED BY <1>1, OutcomeInvariant, PTL

(* The outcome of an execution is decided once: the WHERE clause of         *)
(* UpdateStatus keeps FAILED, and nobody fails an execution whose tasks are *)
(* all completed.                                                           *)
LEMMA OutcomeStays ==
  ASSUME TypeOK, DeliveryInv, StageInv, RecordsInv, OutcomeInv, [Next]_vars,
         NEW e \in Execution, executions[e] \in {"COMPLETED", "FAILED"}
  PROVE  executions'[e] = executions[e]
<1>1. \A d \in Execution : submit[d].pc = "new" => d # e
  BY DEF RecordsInv
<1>2. CASE executions[e] = "FAILED"
  BY <1>1, <1>2, ExecutionMoves
     DEF Updated, MayBecome, TypeOK, WorkflowRepositoryTypeOK, FailsExecution, CompletesExecution
<1>3. CASE executions[e] = "COMPLETED"
  <2>1. ASSUME NEW w \in Thread, FailsExecution(w) PROVE Row(w).executionID # e
    <3>1. /\ thread[w].pc \in {"failWorkflow", "failUnknown"}
          /\ thread[w].task \in DOMAIN tasks
          /\ tasks[thread[w].task].status \in {"RUNNING", "FAILED"}
      BY <2>1 DEF FailsExecution, StageInv, StatusOK, TypeOK, WorkerTypeOK
    <3> QED
      BY <1>3, <3>1 DEF OutcomeInv, CompletedMeansAllCompleted, EveryTaskIs, TasksOf, Row
  <2> QED
    BY <1>1, <1>3, <2>1, ExecutionMoves
       DEF Updated, MayBecome, TypeOK, WorkflowRepositoryTypeOK, FailsExecution,
           CompletesExecution
<1> QED BY <1>2, <1>3

THEOREM OutcomesAreFinal ==
  ASSUME "dupPush" \notin FaultKinds
  PROVE  Spec => OutcomeIsFinal
<1>1. TypeOK /\ DeliveryInv /\ StageInv /\ (RecordsInv /\ OutcomeInv) /\ [Next]_vars =>
        [\A e \in Execution : executions[e] \in {"COMPLETED", "FAILED"} =>
                                executions'[e] = executions[e]]_executions
  BY OutcomeStays
<1> QED
  BY <1>1, TypeCorrect, DeliveryInvariant, StageInvariant, OutcomeInvariant, PTL
     DEF Spec, OutcomeIsFinal

-----------------------------------------------------------------------------
(* What an event says, when Postgres answers, actions are registered and    *)
(* neither RPUSH nor PUBLISH is re-sent: its task has ended that way, no    *)
(* thread has the task any more, and there is no other event about it.      *)
Dependable ==
  Registered /\ "db" \notin FaultKinds /\ "dupPush" \notin FaultKinds
             /\ "dupPublish" \notin FaultKinds

(* A thread that fails an execution or announces an end has recorded it.    *)
EndedInv ==
  \A w \in Thread :
    /\ thread[w].pc = "publishCompleted" => Row(w).status = "COMPLETED"
    /\ thread[w].pc \in {"failWorkflow", "publishFailed"} => Row(w).status = "FAILED"

Reports(type, status) ==
  \/ type = "completed" /\ status = "COMPLETED"
  \/ type \in {"failed", "skipped"} /\ status \in {"FAILED", "SKIPPED"}

Released(threads, t) == \A w \in Thread : threads[w].pc # "pop" => threads[w].task # t

Settled(event, table, threads) ==
  /\ Reports(event.type, table[event.taskID].status)
  /\ Released(threads, event.taskID)

UniqueEvents ==
  \A c, d \in ChannelName : \A i \in DOMAIN channel[c], j \in DOMAIN channel[d] :
    channel[c][i].taskID = channel[d][j].taskID => c = d /\ i = j

EventsInv ==
  /\ UniqueEvents
  /\ \A c \in ChannelName : \A i \in DOMAIN channel[c] :
       /\ Settled(channel[c][i], tasks, thread)
       /\ coord.pc = "decrement" => coord.event.taskID # channel[c][i].taskID
  /\ coord.pc = "decrement" => Settled(coord.event, tasks, thread)

-----------------------------------------------------------------------------
(* Where a thread comes to the calls that follow the end of a task or its   *)
(* fetch.                                                                   *)
Arrives(w) ==
  LET pc == thread'[w].pc IN
  \/ pc \in {"pop", "find", "execute", "markCompleted", "retry", "markFailed",
             "publishUnknown", "failUnknown", "pushRetry"}
  \/ pc \in {"skip", "claim"} /\ FindTask(w)
  \/ pc = "publishSkipped" /\ SkipTask(w)
  \/ pc = "publishCompleted" /\ CompleteTask(w)
  \/ pc = "failWorkflow" /\ FailTask(w)
  \/ pc = "publishFailed" /\ FailWorkflow(w)

LEMMA Arrivals ==
  ASSUME TypeOK, NEW w \in Thread, ProcessNextTask(w)
  PROVE  Arrives(w)
<1>1. /\ \A th : Become(w, th) => thread'[w] = th
      /\ \A pc : Goto(w, pc) => thread'[w].pc = pc
      /\ Return(w) => thread'[w].pc = "pop"
  BY ThreadMoves DEF TypeOK
<1>2. CASE PopTask(w)
  <2>1. PICK u : Become(w, [Idle EXCEPT !.pc = "find", !.task = u]) \/ Return(w)
    BY <1>2 DEF PopTask
  <2>2. [Idle EXCEPT !.pc = "find", !.task = u].pc = "find"
    BY DEF Idle
  <2> QED BY <1>1, <2>1, <2>2 DEF Arrives
<1>3. CASE FindTask(w)
  <2>1. Fetched(thread[w].task).pc \in {"skip", "claim"}
    BY DEF Fetched
  <2> QED BY <1>1, <1>3, <2>1 DEF FindTask, Arrives
<1>4. CASE SkipTask(w)
  BY <1>1, <1>4 DEF SkipTask, Arrives
<1>5. CASE PublishSkipped(w) \/ PushRetry(w) \/ PublishFailed(w) \/ PublishCompleted(w)
  BY <1>1, <1>5 DEF PublishSkipped, PushRetry, PublishFailed, PublishCompleted, Arrives
<1>6. CASE Claim(w)
  <2>1. AfterClaim(thread[w]).pc = "execute"
    BY DEF AfterClaim, TypeOK, WorkerTypeOK
  <2> QED BY <1>1, <1>6, <2>1 DEF Claim, Arrives
<1>7. CASE ExecuteHandler(w) \/ FailUnknown(w)
  <2>1. FailurePC(thread[w]) \in {"retry", "markFailed"}
    BY DEF FailurePC
  <2> QED BY <1>1, <1>7, <2>1 DEF ExecuteHandler, FailUnknown, Arrives
<1>8. CASE MarkUnknown(w) \/ PublishUnknown(w) \/ Retry(w)
  BY <1>1, <1>8 DEF MarkUnknown, PublishUnknown, Retry, Arrives
<1>9. CASE FailTask(w) \/ FailWorkflow(w) \/ CompleteTask(w)
  BY <1>1, <1>9 DEF FailTask, FailWorkflow, CompleteTask, Arrives
<1> QED
  BY <1>2, <1>3, <1>4, <1>5, <1>6, <1>7, <1>8, <1>9 DEF ProcessNextTask

(* A thread that has a task after a step had it before, or has popped it.   *)
LEMMA HeldBefore ==
  ASSUME TypeOK, DeliveryInv, StageInv, [Next]_vars,
         NEW w \in Thread, thread'[w].pc # "pop"
  PROVE  \/ thread'[w] = thread[w]
         \/ /\ thread[w].pc # "pop" /\ thread'[w].task = thread[w].task
            /\ WorkerAction(w) /\ ~PopTask(w)
         \/ /\ thread'[w].pc = "find" /\ UNCHANGED <<tasks, coord, channel>>
            /\ tasks[thread'[w].task].status \in Waiting
<1>1. CASE WorkerAction(w)
  <2>1. CASE PopTask(w)
    <3>1. PICK u \in DOMAIN tasks, ok \in BOOLEAN :
            /\ Pop(SourceQueue(w), u, ok)
            /\ \/ Become(w, [Idle EXCEPT !.pc = "find", !.task = u])
               \/ Return(w)
      BY <2>1 DEF PopTask
    <3>2. Queued(u)
      BY <3>1, PopUnique DEF TypeOK, DeliveryInv, SingleDelivery, SourceQueue, QueueName
    <3>3. tasks[u].status \in Waiting
      BY <3>2 DEF StageInv, OnItsWay
    <3>4. PICK th : th = [Idle EXCEPT !.pc = "find", !.task = u]
      OBVIOUS
    <3>5. th.pc = "find" /\ th.task = u
      BY <3>4 DEF Idle
    <3>6. thread'[w] = th
      BY <3>1, <3>4, ThreadMoves DEF TypeOK
    <3> QED BY <1>1, <2>1, <3>3, <3>5, <3>6 DEF PopTask, busVars, WorkerAction
  <2>2. CASE PushRetry(w)
    BY <2>2, ThreadMoves DEF PushRetry, TypeOK
  <2>3. CASE ~PopTask(w) /\ ~PushRetry(w)
    BY <1>1, <2>3, WorkerKeepsPlaces DEF WorkerAction, KeepsPlaces
  <2> QED BY <2>1, <2>2, <2>3
<1>2. ASSUME NEW v \in Thread, v # w, WorkerAction(v) PROVE thread'[w] = thread[w]
  <2>1. CASE PopTask(v)
    BY <1>2, <2>1, ThreadMoves DEF PopTask, TypeOK
  <2>2. CASE PushRetry(v)
    BY <1>2, <2>2, ThreadMoves DEF PushRetry, TypeOK
  <2>3. CASE ~PopTask(v) /\ ~PushRetry(v)
    BY <1>2, <2>3, WorkerKeepsPlaces DEF WorkerAction, KeepsPlaces
  <2> QED BY <2>1, <2>2, <2>3
<1>3. CASE Crash
  BY <1>3 DEF Crash, Idle
<1> QED
  BY <1>1, <1>2, <1>3 DEF Next, vars, CoordinatorAction, ServiceAction, BusAction

(* A task that has ended and left its last thread is taken up by nobody.    *)
LEMMA DoneStays ==
  ASSUME "dupPush" \notin FaultKinds, Registered, TypeOK, DeliveryInv, StageInv, [Next]_vars,
         NEW t \in DOMAIN tasks, tasks[t].status \in Terminal, Released(thread, t)
  PROVE  tasks'[t].status = tasks[t].status /\ Released(thread', t)
<1>1. tasks'[t].status = tasks[t].status
  BY TerminalStep
<1>2. ASSUME NEW w \in Thread, thread'[w].pc # "pop", thread'[w].task = t PROVE FALSE
  BY <1>2, HeldBefore DEF Released, Terminal, Waiting
<1> QED BY <1>1, <1>2 DEF Released

LEMMA EndedStep ==
  ASSUME Dependable, TypeOK, DeliveryInv, StageInv, EndedInv, [Next]_vars
  PROVE  EndedInv'
<1> SUFFICES ASSUME NEW w \in Thread,
                    thread'[w].pc \in {"publishCompleted", "failWorkflow", "publishFailed"}
             PROVE  tasks'[thread'[w].task].status =
                      IF thread'[w].pc = "publishCompleted" THEN "COMPLETED" ELSE "FAILED"
  BY DEF EndedInv, Row
<1> DEFINE t == thread[w].task
<1>1. CASE thread'[w] = thread[w]
  <2>1. t \in DOMAIN tasks
    BY <1>1 DEF TypeOK, WorkerTypeOK
  <2>2. tasks[t].status = IF thread[w].pc = "publishCompleted" THEN "COMPLETED" ELSE "FAILED"
    BY <1>1 DEF EndedInv, Row
  <2> QED BY <1>1, <2>1, <2>2, TerminalStep DEF Dependable, Terminal
<1>2. CASE /\ thread[w].pc # "pop" /\ thread'[w].task = t
           /\ WorkerAction(w) /\ ~PopTask(w)
  <2>1. t \in DOMAIN tasks
    BY <1>2 DEF TypeOK, WorkerTypeOK
  <2>2. Arrives(w)
    BY <1>2, Arrivals DEF WorkerAction
  <2>3. \A status : tasks' = Marked(t, status) => tasks'[t].status = status
    BY <2>1 DEF Marked, TypeOK, TaskRepositoryTypeOK, Task
  <2>4. CASE thread'[w].pc = "publishCompleted" /\ CompleteTask(w)
    <3>1. tasks' = Marked(t, "COMPLETED")
      BY <2>4 DEF CompleteTask, MarkCompleted, Write, Fault, Dependable
    <3> QED BY <1>2, <2>3, <2>4, <3>1
  <2>5. CASE thread'[w].pc = "failWorkflow" /\ FailTask(w)
    <3>1. tasks' = Marked(t, "FAILED")
      BY <2>5 DEF FailTask, MarkFailed, Write, Fault, Dependable
    <3> QED BY <1>2, <2>3, <2>5, <3>1
  <2>6. CASE thread'[w].pc = "publishFailed" /\ FailWorkflow(w)
    <3>1. UNCHANGED tasks /\ thread[w].pc = "failWorkflow"
      BY <2>6 DEF FailWorkflow, At
    <3> QED BY <1>2, <2>6, <3>1 DEF EndedInv, Row
  <2> QED BY <2>2, <2>4, <2>5, <2>6 DEF Arrives
<1> QED BY <1>1, <1>2, HeldBefore

-----------------------------------------------------------------------------
(* Everything any step does to the two channels. *)
Sends(w) ==
  /\ WorkerAction(w) /\ Return(w) /\ UNCHANGED <<tasks, coord>>
  /\ \E type \in {"completed", "failed", "skipped"}, c \in ChannelName :
       /\ Announces(thread[w].pc, type)
       /\ Publish(c, Event(thread[w].task, tasks[thread[w].task], type))

Loses == \E c \in ChannelName : Disconnect(c) /\ UNCHANGED <<tasks, thread, coord>>

LEMMA ChannelMoves ==
  ASSUME Registered, TypeOK, StageInv, [Next]_vars
  PROVE  \/ UNCHANGED channel
         \/ \E w \in Thread : Sends(w)
         \/ Loses
         \/ \E c \in ChannelName : ReceiveEvent(c) /\ UNCHANGED <<tasks, thread>>
         \/ Crash
<1>1. ASSUME NEW w \in Thread, WorkerAction(w) PROVE UNCHANGED channel \/ Sends(w)
  <2>1. CASE PublishSkipped(w) \/ PublishFailed(w) \/ PublishCompleted(w)
    <3>1. UNCHANGED tasks /\ Return(w)
      BY <2>1 DEF PublishSkipped, PublishFailed, PublishCompleted
    <3>2. \E type \in {"completed", "failed", "skipped"}, c \in ChannelName :
            /\ Announces(thread[w].pc, type)
            /\ Publish(c, Event(thread[w].task, tasks[thread[w].task], type))
      BY <2>1 DEF PublishSkipped, PublishFailed, PublishCompleted, PublishTaskCompleted,
         PublishTaskTerminated, Announces, At, ChannelName, Row
    <3> QED BY <1>1, <3>1, <3>2 DEF Sends, WorkerAction
  <2>2. ~PublishUnknown(w)
    BY DEF PublishUnknown, At, StageInv, StatusOK
  <2>3. CASE ~(PublishSkipped(w) \/ PublishFailed(w) \/ PublishCompleted(w))
    BY <1>1, <2>2, <2>3 DEF WorkerAction, ProcessNextTask, PopTask, FindTask, SkipTask, Claim,
       ExecuteHandler, MarkUnknown, FailUnknown, Retry, PushRetry, FailTask, FailWorkflow,
       CompleteTask, busVars
  <2> QED BY <2>1, <2>3
<1>2. CASE CoordinatorAction
  BY <1>2 DEF CoordinatorAction, CoordinatorStep, SubscribeToEvents, Subscribe,
     SubscribeToTerminationEvents, HandleTaskCompleted, HandleTaskTerminated, PushReady,
     CheckIfWorkflowFinished, CompleteWorkflow, ReceiveEvent, busVars
<1>3. ASSUME NEW c \in ChannelName, BusAction(c) PROVE UNCHANGED channel \/ Loses
  BY <1>3 DEF BusAction, Subscribed, Loses
<1>4. ASSUME NEW e \in Execution, ServiceAction(e) PROVE UNCHANGED channel
  BY <1>4 DEF ServiceAction, busVars
<1> QED BY <1>1, <1>2, <1>3, <1>4 DEF Next, vars

(* The coordinator gets its next event from a channel and from nowhere else. *)
LEMMA DecrementPC ==
  ASSUME TypeOK, [Next]_vars, coord'.pc = "decrement"
  PROVE  UNCHANGED coord \/ \E c \in ChannelName : ReceiveEvent(c)
<1>1. CASE CoordinatorAction
  <2>1. CASE CheckIfWorkflowFinished
    <3>1. coord' = [coord EXCEPT !.pc = "complete"] => coord'.pc = "complete"
      BY DEF TypeOK, CoordinatorTypeOK
    <3> QED BY <2>1, <3>1 DEF CheckIfWorkflowFinished, Select, CoordinatorAt
  <2>2. CASE PushReady
    <3>1. \A t : coord' = [coord EXCEPT !.ready = @ \ {t}] => coord'.pc = coord.pc
      BY DEF TypeOK, CoordinatorTypeOK
    <3> QED BY <2>2, <3>1 DEF PushReady, Select, CoordinatorAt
  <2>3. CASE HandleTaskCompleted \/ HandleTaskTerminated
    <3>1. \A ready : AfterDecrement(coord.event, ready).pc # "decrement"
      BY DEF AfterDecrement
    <3>2. Select \/ \E ready : coord' = AfterDecrement(coord.event, ready)
      BY <2>3 DEF HandleTaskCompleted, HandleTaskTerminated
    <3> QED BY <3>1, <3>2 DEF Select, CoordinatorAt
  <2>4. CASE SubscribeToEvents \/ SubscribeToTerminationEvents \/ CompleteWorkflow
    <3>1. \E pc \in {"select", "subscribeTerminated"} : coord' = CoordinatorAt(pc)
      BY <2>4 DEF SubscribeToEvents, SubscribeToTerminationEvents, CompleteWorkflow, Select
    <3> QED BY <3>1 DEF CoordinatorAt
  <2> QED BY <1>1, <2>1, <2>2, <2>3, <2>4 DEF CoordinatorAction, CoordinatorStep
<1>2. CASE Crash
  BY <1>2 DEF Crash, Listening, CoordinatorAt
<1> QED BY <1>1, <1>2 DEF Next, vars, WorkerAction, ServiceAction, BusAction

-----------------------------------------------------------------------------
(* Messages keep their places, move up by one, or come last. *)
LEMMA OneMessage ==
  ASSUME RedisEventBusTypeOK, "dupPublish" \notin FaultKinds,
         NEW ch \in ChannelName, NEW event, Publish(ch, event)
  PROVE  \A c \in ChannelName : \A i \in DOMAIN channel'[c] :
           \/ i \in DOMAIN channel[c] /\ channel'[c][i] = channel[c][i]
           \/ channel'[c][i] = event /\ c = ch /\ i = Len(channel[ch]) + 1
<1>1. CASE channel' = [channel EXCEPT ![ch] = @ \o [i \in 1..1 |-> event]]
  <2>1. channel[ch] \in Seq(AnyEvent \cup {event})
    BY DEF RedisEventBusTypeOK, AnyEvent
  <2>2. [j \in 1..1 |-> event] \in Seq(AnyEvent \cup {event})
        /\ Len([j \in 1..1 |-> event]) = 1
    BY SeqDef
  <2>3. ASSUME NEW c \in ChannelName, NEW i \in DOMAIN channel'[c]
        PROVE  \/ i \in DOMAIN channel[c] /\ channel'[c][i] = channel[c][i]
               \/ channel'[c][i] = event /\ c = ch /\ i = Len(channel[ch]) + 1
    <3>1. CASE c = ch
      BY <1>1, <2>1, <2>2, <2>3, <3>1, ConcatProperties, LenProperties
         DEF RedisEventBusTypeOK
    <3>2. CASE c # ch
      BY <1>1, <2>3, <3>2 DEF RedisEventBusTypeOK
    <3> QED BY <3>1, <3>2
  <2> QED BY <2>3
<1>2. CASE channel' = channel
  BY <1>2
<1> QED BY <1>1, <1>2 DEF Publish, Delivered, Fault

LEMMA ReceivedMessage ==
  ASSUME RedisEventBusTypeOK, NEW ch \in ChannelName, NEW event, Receive(ch, event)
  PROVE  /\ 1 \in DOMAIN channel[ch] /\ event = channel[ch][1]
         /\ \A c \in ChannelName : \A i \in DOMAIN channel'[c] :
              /\ i \in Int /\ i # 0
              /\ c = ch => i + 1 \in DOMAIN channel[c] /\ channel'[c][i] = channel[c][i + 1]
              /\ c # ch => i \in DOMAIN channel[c] /\ channel'[c][i] = channel[c][i]
<1>1. \A c \in ChannelName : /\ channel[c] \in Seq(AnyEvent) /\ Len(channel[c]) \in Nat
                             /\ DOMAIN channel[c] = 1..Len(channel[c])
  BY LenProperties DEF RedisEventBusTypeOK, AnyEvent
<1>2. channel[ch] # <<>> /\ channel' = [channel EXCEPT ![ch] = Tail(@)]
      /\ event = Head(channel[ch])
  BY DEF Receive
<1>3. /\ Len(channel[ch]) >= 1 /\ DOMAIN channel'[ch] = 1..(Len(channel[ch]) - 1)
      /\ \A i \in 1..(Len(channel[ch]) - 1) : channel'[ch][i] = channel[ch][i + 1]
      /\ event = channel[ch][1]
  BY <1>1, <1>2, EmptySeq, HeadTailProperties, LenProperties DEF RedisEventBusTypeOK
<1>4. ASSUME NEW c \in ChannelName, NEW i \in DOMAIN channel'[c]
      PROVE  /\ i \in Int /\ i # 0
             /\ c = ch => i + 1 \in DOMAIN channel[c] /\ channel'[c][i] = channel[c][i + 1]
             /\ c # ch => i \in DOMAIN channel[c] /\ channel'[c][i] = channel[c][i]
  <2>1. CASE c = ch
    BY <1>1, <1>3, <1>4, <2>1
  <2>2. CASE c # ch
    BY <1>1, <1>2, <1>4, <2>2 DEF RedisEventBusTypeOK
  <2> QED BY <2>1, <2>2
<1> QED BY <1>1, <1>3, <1>4

(* Messages that keep their order and lose some of their number stay unique. *)
LEMMA UniqueShrinks ==
  ASSUME UniqueEvents, NEW ch \in ChannelName, NEW k \in 0..1,
         \A c \in ChannelName : \A i \in DOMAIN channel'[c] :
           /\ i \in Int
           /\ c = ch => i + k \in DOMAIN channel[c] /\ channel'[c][i] = channel[c][i + k]
           /\ c # ch => i \in DOMAIN channel[c] /\ channel'[c][i] = channel[c][i]
  PROVE  UniqueEvents'
<1> SUFFICES ASSUME NEW c \in ChannelName, NEW d \in ChannelName,
                    NEW i \in DOMAIN channel'[c], NEW j \in DOMAIN channel'[d],
                    channel'[c][i].taskID = channel'[d][j].taskID
             PROVE  c = d /\ i = j
  BY DEF UniqueEvents
<1>1. PICK m \in Int : /\ m \in DOMAIN channel[c] /\ channel'[c][i] = channel[c][m]
                       /\ m = IF c = ch THEN i + k ELSE i
  OBVIOUS
<1>2. PICK n \in Int : /\ n \in DOMAIN channel[d] /\ channel'[d][j] = channel[d][n]
                       /\ n = IF d = ch THEN j + k ELSE j
  OBVIOUS
<1>3. c = d /\ m = n
  BY <1>1, <1>2 DEF UniqueEvents
<1> QED BY <1>1, <1>2, <1>3

-----------------------------------------------------------------------------
LEMMA SettledStays ==
  ASSUME Dependable, TypeOK, DeliveryInv, StageInv, [Next]_vars,
         NEW event, AboutARow(event, tasks), Settled(event, tasks, thread)
  PROVE  Settled(event, tasks', thread')
<1>1. tasks[event.taskID].status \in Terminal
  BY DEF Settled, Reports, Terminal
<1> QED BY <1>1, DoneStays DEF Settled, AboutARow, Dependable

(* The thread that sends an event lets go of its task, of which the table   *)
(* has the end and no channel an event.                                     *)
LEMMA SentEvent ==
  ASSUME Dependable, TypeOK, DeliveryInv, StageInv, EndedInv, [Next]_vars,
         NEW w \in Thread, Sends(w)
  PROVE  \E c \in ChannelName, event \in AnyEvent :
           /\ Publish(c, event) /\ ~Released(thread, event.taskID)
           /\ Settled(event, tasks', thread')
<1> DEFINE t == thread[w].task
<1>1. PICK type \in {"completed", "failed", "skipped"}, c \in ChannelName :
        Announces(thread[w].pc, type) /\ Publish(c, Event(t, tasks[t], type))
  BY DEF Sends
<1>2. thread[w].pc # "pop" /\ t \in DOMAIN tasks
  BY <1>1 DEF Announces, TypeOK, WorkerTypeOK
<1>3. PICK event \in AnyEvent : event = Event(t, tasks[t], type)
  BY <1>2, EventTyped DEF TypeOK, TaskRepositoryTypeOK, TableOK
<1>4. event.taskID = t /\ event.type = type
  BY <1>3 DEF Event
<1>5. Reports(type, tasks[t].status)
  BY <1>1, <1>2 DEF Announces, Reports, EndedInv, StageInv, StatusOK, Row, Dependable
<1>6. Released(thread', t)
  <2>1. thread'[w].pc = "pop" /\ \A v \in Thread \ {w} : thread'[v] = thread[v]
    BY ThreadMoves DEF Sends, TypeOK
  <2>2. \A v \in Thread \ {w} : thread[v].pc # "pop" => thread[v].task # t
    BY <1>2 DEF DeliveryInv, SingleDelivery, UniqueInThreads, Holds
  <2> QED BY <2>1, <2>2 DEF Released
<1>7. ~Released(thread, t)
  BY <1>2 DEF Released
<1>8. UNCHANGED tasks
  BY DEF Sends
<1> HIDE DEF t
<1> QED BY <1>1, <1>3, <1>4, <1>5, <1>6, <1>7, <1>8 DEF Settled

LEMMA ReceptionKeepsEvents ==
  ASSUME Dependable, TypeOK, DeliveryInv, StageInv, RecordsInv, EventsInv, [Next]_vars,
         NEW ch \in ChannelName, ReceiveEvent(ch)
  PROVE  EventsInv'
<1>1. PICK j \in DOMAIN channel[ch] :
        Receive(ch, channel[ch][j]) /\ coord'.event = channel[ch][j]
  BY DEF ReceiveEvent
<1>2. /\ 1 \in DOMAIN channel[ch] /\ coord'.event = channel[ch][1]
      /\ \A c \in ChannelName : \A i \in DOMAIN channel'[c] :
           /\ i \in Int /\ i # 0
           /\ c = ch => i + 1 \in DOMAIN channel[c] /\ channel'[c][i] = channel[c][i + 1]
           /\ c # ch => i \in DOMAIN channel[c] /\ channel'[c][i] = channel[c][i]
  BY <1>1, ReceivedMessage DEF TypeOK
<1>3. UniqueEvents'
  <2>1. PICK k \in 0..1 : k = 1
    OBVIOUS
  <2>2. UniqueEvents
    BY DEF EventsInv
  <2>3. \A c \in ChannelName : \A i \in DOMAIN channel'[c] :
           /\ i \in Int
           /\ c = ch => i + k \in DOMAIN channel[c] /\ channel'[c][i] = channel[c][i + k]
           /\ c # ch => i \in DOMAIN channel[c] /\ channel'[c][i] = channel[c][i]
    BY <1>2, <2>1
  <2> QED BY <2>2, <2>3, UniqueShrinks
<1>4. ASSUME NEW c \in ChannelName, NEW i \in DOMAIN channel'[c]
      PROVE  /\ Settled(channel'[c][i], tasks', thread')
             /\ coord'.event.taskID # channel'[c][i].taskID
  <2>1. PICK m \in DOMAIN channel[c] : channel'[c][i] = channel[c][m] /\ (c = ch => m # 1)
    BY <1>2, <1>4
  <2>2. AboutARow(channel[c][m], tasks) /\ Settled(channel[c][m], tasks, thread)
    BY <2>1 DEF RecordsInv, EventsInv
  <2>3. channel[ch][1].taskID # channel[c][m].taskID
    BY <1>2, <2>1 DEF EventsInv, UniqueEvents
  <2> QED BY <1>2, <2>1, <2>2, <2>3, SettledStays
<1>5. Settled(coord'.event, tasks', thread')
  BY <1>2, SettledStays DEF RecordsInv, EventsInv
<1> QED BY <1>3, <1>4, <1>5 DEF EventsInv

LEMMA EventsStep ==
  ASSUME Dependable, TypeOK, DeliveryInv, StageInv, RecordsInv, EndedInv, EventsInv,
         [Next]_vars
  PROVE  EventsInv'
<1>1. CASE \E c \in ChannelName : ReceiveEvent(c)
  BY <1>1, ReceptionKeepsEvents
<1>2. CASE ~\E c \in ChannelName : ReceiveEvent(c)
  <2>1. coord'.pc = "decrement" =>
          UNCHANGED coord /\ Settled(coord'.event, tasks', thread')
    BY <1>2, DecrementPC, SettledStays DEF RecordsInv, EventsInv, Handled
  <2>2. ASSUME NEW c \in ChannelName, NEW i \in DOMAIN channel'[c],
               NEW d \in ChannelName, NEW j \in DOMAIN channel[d],
               channel'[c][i] = channel[d][j]
        PROVE  /\ Settled(channel'[c][i], tasks', thread')
               /\ coord'.pc = "decrement" => coord'.event.taskID # channel'[c][i].taskID
    BY <2>1, <2>2, SettledStays DEF RecordsInv, EventsInv
  <2>3. ASSUME UniqueEvents',
               \A c \in ChannelName : \A i \in DOMAIN channel'[c] :
                 \E d \in ChannelName : \E j \in DOMAIN channel[d] :
                   channel'[c][i] = channel[d][j]
        PROVE  EventsInv'
    BY <2>1, <2>2, <2>3 DEF EventsInv
  <2>4. CASE UNCHANGED channel
    BY <2>3, <2>4 DEF EventsInv, UniqueEvents
  <2>5. CASE Loses
    <3>1. PICK ch \in ChannelName : Disconnect(ch)
      BY <2>5 DEF Loses
    <3>2. PICK k \in 0..1 : \A c \in ChannelName : \A i \in DOMAIN channel'[c] :
            /\ i \in Int
            /\ c = ch => i + k \in DOMAIN channel[c] /\ channel'[c][i] = channel[c][i + k]
            /\ c # ch => i \in DOMAIN channel[c] /\ channel'[c][i] = channel[c][i]
      BY <3>1, LostMessages DEF TypeOK
    <3>3. UniqueEvents'
      BY <3>2, UniqueShrinks DEF EventsInv
    <3> QED BY <2>3, <3>2, <3>3
  <2>6. ASSUME NEW w \in Thread, Sends(w) PROVE EventsInv'
    <3>1. PICK ch \in ChannelName, event \in AnyEvent :
            /\ Publish(ch, event) /\ ~Released(thread, event.taskID)
            /\ Settled(event, tasks', thread')
      BY <2>6, SentEvent
    <3>2. \A c \in ChannelName : \A i \in DOMAIN channel'[c] :
            \/ i \in DOMAIN channel[c] /\ channel'[c][i] = channel[c][i]
            \/ channel'[c][i] = event /\ c = ch /\ i = Len(channel[ch]) + 1
      BY <3>1, OneMessage DEF TypeOK, Dependable
    <3>3. /\ \A c \in ChannelName : \A i \in DOMAIN channel[c] :
               channel[c][i].taskID # event.taskID
          /\ coord.pc = "decrement" => coord.event.taskID # event.taskID
      BY <3>1 DEF EventsInv, Settled
    <3>4. UniqueEvents'
      BY <3>2, <3>3 DEF EventsInv, UniqueEvents
    <3> QED BY <2>1, <2>2, <3>1, <3>2, <3>3, <3>4 DEF EventsInv
  <2>7. CASE Crash
    <3>1. (\A c \in ChannelName : channel'[c] = <<>>) /\ coord'.pc # "decrement"
      BY <2>7 DEF Crash, NoMessages, Listening, CoordinatorAt
    <3> QED BY <3>1 DEF EventsInv, UniqueEvents
  <2> QED BY <1>2, <2>4, <2>5, <2>6, <2>7, ChannelMoves DEF Dependable
<1> QED BY <1>1, <1>2

LEMMA EventsInvariant ==
  ASSUME Dependable
  PROVE  Spec => [](EndedInv /\ EventsInv)
<1>1. Init => EndedInv /\ EventsInv
  <2> SUFFICES ASSUME Init PROVE EndedInv /\ EventsInv
    OBVIOUS
  <2>1. /\ \A ch \in ChannelName : channel[ch] = <<>>
        /\ \A w \in Thread : thread[w].pc = "pop"
        /\ coord.pc # "decrement"
    BY DEF Init, RedisEventBusInit, NoMessages, WorkerInit, Idle, CoordinatorInit,
       Listening, CoordinatorAt
  <2> QED BY <2>1 DEF EndedInv, EventsInv, UniqueEvents
<1>2. TypeOK /\ DeliveryInv /\ StageInv /\ (RecordsInv /\ OutcomeInv)
        /\ (EndedInv /\ EventsInv) /\ [Next]_vars => (EndedInv /\ EventsInv)'
  BY EndedStep, EventsStep
<1>3. "dupPush" \notin FaultKinds
  BY DEF Dependable
<1> QED
  BY <1>1, <1>2, <1>3, TypeCorrect, DeliveryInvariant, StageInvariant, OutcomeInvariant, PTL
     DEF Spec
=============================================================================
