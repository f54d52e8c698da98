--------------------------- MODULE LifecycleProofs ---------------------------
(***************************************************************************)
(* What becomes of a task: the versions, the retries, the claims and the   *)
(* final statuses, and the proof that the server implements TaskLifecycle. *)
(***************************************************************************)
EXTENDS GoTempoRefinement, GoTempoProofs

(* Every request uses registered actions only. *)
Registered ==
  \A req \in Requests : \A i \in DOMAIN req : req[i].action \in DOMAIN Registry

Waiting == {"PENDING", "QUEUED"}

OnItsWay(t) == Queued(t) \/ AwaitsSubmit(t) \/ t \in coord.ready

(* What the columns of one row say of each other. *)
GoodRow(row) ==
  /\ row.inDegree > 0 => row.status = "PENDING"
  /\ row.retryCount <= MaxRetries
  /\ row.version = 2 * row.retryCount
                 + (IF row.status \in {"RUNNING", "COMPLETED", "FAILED"} THEN 2 ELSE 1)
  /\ Registered => /\ row.action \in DOMAIN Registry
                   /\ row.status = "FAILED" => row.retryCount = MaxRetries

(* What the program counter and the snapshot of a thread say of the row of  *)
(* the task it holds.                                                       *)
StatusOK(pc, status) ==
  /\ pc \in {"find", "skip", "claim", "pushRetry"} => status \in Waiting
  /\ pc = "publishSkipped" => status = "SKIPPED"
  /\ pc \in {"execute", "markCompleted"} => status = "RUNNING"
  /\ pc \in {"publishUnknown", "failUnknown", "retry", "markFailed", "failWorkflow",
             "publishFailed"} => status \in {"RUNNING", "FAILED"}
  /\ pc = "publishCompleted" => status \in {"RUNNING", "COMPLETED"}
  /\ Registered => /\ pc \notin {"publishUnknown", "failUnknown"}
                   /\ pc \in {"retry", "markFailed"} => status = "RUNNING"
  /\ "db" \notin FaultKinds => /\ pc \in {"failWorkflow", "publishFailed"} => status = "FAILED"
                               /\ pc = "publishCompleted" => status = "COMPLETED"

SnapshotOK(th, row) ==
  /\ th.pc \notin {"find", "pushRetry"} =>
       th.version = row.version /\ th.retryCount = row.retryCount
  /\ th.pc = "retry" => th.retryCount < MaxRetries
  /\ th.pc \in {"markFailed", "failWorkflow", "publishFailed"} => th.retryCount >= MaxRetries

(* Everything the life of a task rests on: a task that is on its way to a   *)
(* worker waits, and whoever holds a task knows its row.                    *)
StageInv ==
  /\ \A t \in DOMAIN tasks :
       GoodRow(tasks[t]) /\ (OnItsWay(t) => tasks[t].status \in Waiting)
  /\ \A w \in Thread :
       thread[w].pc # "pop" =>
         /\ StatusOK(thread[w].pc, tasks[thread[w].task].status)
         /\ SnapshotOK(thread[w], tasks[thread[w].task])

-----------------------------------------------------------------------------
(* One row of the table changes, *)
RowBecomes(table, t, row) ==
  /\ DOMAIN table = DOMAIN tasks
  /\ table[t] = row
  /\ \A u \in DOMAIN tasks \ {t} : table[u] = tasks[u]

(* ... one thread does. *)
ThreadBecomes(w, th) ==
  /\ thread'[w] = th
  /\ \A v \in Thread \ {w} : thread'[v] = thread[v]

LEMMA StatementRows ==
  ASSUME TableOK(tasks), NEW t \in DOMAIN tasks, NEW version
  PROVE  /\ RowBecomes(tasks, t, tasks[t])
         /\ RowBecomes(Claimed(t, version), t,
                       [tasks[t] EXCEPT !.status = "RUNNING", !.version = version + 1])
         /\ RowBecomes(Retried(t, version), t,
                       [tasks[t] EXCEPT !.retryCount = @ + 1, !.status = "PENDING",
                                        !.version = version + 1])
         /\ \A status : RowBecomes(Marked(t, status), t, [tasks[t] EXCEPT !.status = status])
BY DEF TableOK, Task, RowBecomes, Claimed, Retried, Marked

LEMMA ThreadSteps ==
  ASSUME WorkerTypeOK, NEW w \in Thread
  PROVE  /\ \A th : Become(w, th) => ThreadBecomes(w, th)
         /\ \A pc : Goto(w, pc) => ThreadBecomes(w, [thread[w] EXCEPT !.pc = pc])
         /\ Return(w) => ThreadBecomes(w, Idle)
BY DEF WorkerTypeOK, ThreadBecomes, Become, Goto, Return

LEMMA WriteRows ==
  ASSUME NEW table, NEW ok, Write(table, ok), NEW t, NEW row,
         RowBecomes(table, t, row), RowBecomes(tasks, t, tasks[t])
  PROVE  /\ \E new \in {tasks[t], row} : RowBecomes(tasks', t, new)
         /\ ok \/ "db" \notin FaultKinds => ok /\ RowBecomes(tasks', t, row)
BY DEF Write, RowBecomes, Fault

(* A step of thread w on the task it holds: all other rows and threads      *)
(* stay as they are, because nobody else has the task.                      *)
LEMMA HeldTaskStep ==
  ASSUME TypeOK, DeliveryInv, StageInv, NEW w \in Thread, thread[w].pc # "pop",
         NEW row, RowBecomes(tasks', thread[w].task, row), GoodRow(row),
         NEW th, ThreadBecomes(w, th),
         th.pc # "pop" =>
           th.task = thread[w].task /\ StatusOK(th.pc, row.status) /\ SnapshotOK(th, row),
         \A t : OnItsWay(t)' => OnItsWay(t) \/ (t = thread[w].task /\ row.status \in Waiting)
  PROVE  StageInv'
<1>1. PICK u \in DOMAIN tasks : u = thread[w].task /\ Holds(w, u) /\ HeldByThread(u)
  BY DEF TypeOK, WorkerTypeOK, Holds, HeldByThread
<1>2. ~OnItsWay(u)
  BY <1>1 DEF DeliveryInv, SingleDelivery, InOnePlace, OnItsWay
<1>3. \A t \in DOMAIN tasks' :
        GoodRow(tasks'[t]) /\ (OnItsWay(t)' => tasks'[t].status \in Waiting)
  BY <1>1, <1>2 DEF RowBecomes, StageInv
<1>4. ASSUME NEW v \in Thread, thread'[v].pc # "pop"
      PROVE  /\ StatusOK(thread'[v].pc, tasks'[thread'[v].task].status)
             /\ SnapshotOK(thread'[v], tasks'[thread'[v].task])
  <2>1. CASE v = w
    BY <1>1, <1>4, <2>1 DEF ThreadBecomes, RowBecomes
  <2>2. CASE v # w
    <3>1. thread'[v] = thread[v] /\ thread[v].pc # "pop" /\ thread[v].task \in DOMAIN tasks
      BY <1>4, <2>2 DEF ThreadBecomes, TypeOK, WorkerTypeOK
    <3>2. thread[v].task # u
      BY <1>1, <2>2, <3>1 DEF DeliveryInv, SingleDelivery, UniqueInThreads, Holds
    <3>3. tasks'[thread[v].task] = tasks[thread[v].task]
      BY <1>1, <3>1, <3>2 DEF RowBecomes
    <3> QED BY <3>1, <3>3 DEF StageInv
  <2> QED BY <2>1, <2>2
<1> QED BY <1>3, <1>4 DEF StageInv

(* A push adds nothing but the task it pushes, once, twice or not at all. *)
LEMMA PushedTasks ==
  ASSUME NEW ids, RedisQueueTypeOK(ids), NEW q \in QueueName, NEW t \in ids, NEW ok,
         Push(q, t, ok)
  PROVE  \A u : Queued(u)' => Queued(u) \/ u = t
<1>1. \A r \in QueueName : queue[r] \in Seq(ids)
  BY DEF RedisQueueTypeOK
<1>2. queue' \in {queue, Pushed(q, t), PushedTwice(q, t)}
  BY DEF Push
<1>3. ASSUME NEW s \in Seq(ids)
      PROVE  /\ Append(s, t) \in Seq(ids)
             /\ Range(Append(s, t)) = Range(s) \cup {t}
  BY AppendProperties, LenProperties DEF Range
<1>4. \A r \in QueueName : Range(queue'[r]) \subseteq Range(queue[r]) \cup {t}
  <2>1. ASSUME NEW r \in QueueName
        PROVE  queue'[r] \in {queue[r], Append(queue[r], t), Append(Append(queue[r], t), t)}
    BY <1>2 DEF Pushed, PushedTwice, RedisQueueTypeOK
  <2> QED BY <1>1, <1>3, <2>1
<1> QED BY <1>4 DEF Queued, InQueue

-----------------------------------------------------------------------------
(* The steps of a thread.  Each leaves a good row and a thread that knows   *)
(* it, whatever the statement returned.                                     *)
LEMMA WorkerKeepsStage ==
  ASSUME TypeOK, DeliveryInv, StageInv, NEW w \in Thread, ProcessNextTask(w),
         ~PopTask(w), UNCHANGED <<coord, submit>>
  PROVE  StageInv'
<1> DEFINE t == thread[w].task
           row == tasks[t]
           th == thread[w]
<1> USE DEF At
<1>0. TableOK(tasks) /\ WorkerTypeOK
  BY DEF TypeOK, TableOK, TaskRepositoryTypeOK
<1>1. th.pc # "pop"
  BY DEF ProcessNextTask, FindTask, SkipTask, PublishSkipped, Claim, ExecuteHandler,
     MarkUnknown, PublishUnknown, FailUnknown, Retry, PushRetry, FailTask, FailWorkflow,
     PublishFailed, CompleteTask, PublishCompleted
<1>2. /\ t \in DOMAIN tasks /\ row \in Task /\ th \in ThreadState /\ Row(w) = row
      /\ GoodRow(row) /\ StatusOK(th.pc, row.status) /\ SnapshotOK(th, row)
  BY <1>0, <1>1 DEF WorkerTypeOK, StageInv, TableOK, ThreadState, Row
<1>3. /\ RowBecomes(tasks, t, row)
      /\ RowBecomes(Claimed(t, th.version), t,
                    [row EXCEPT !.status = "RUNNING", !.version = th.version + 1])
      /\ RowBecomes(Retried(t, th.version), t,
                    [row EXCEPT !.retryCount = @ + 1, !.status = "PENDING",
                                !.version = th.version + 1])
      /\ \A status : RowBecomes(Marked(t, status), t, [row EXCEPT !.status = status])
  BY <1>0, <1>2, StatementRows
<1>4. UNCHANGED tasks => RowBecomes(tasks', t, row)
  BY <1>3 DEF RowBecomes
<1>5. UNCHANGED queue => \A u : OnItsWay(u)' => OnItsWay(u)
  BY DEF OnItsWay, Queued, InQueue, AwaitsSubmit
<1>6. row.inDegree <= 0
  BY <1>1, <1>2 DEF DeliveryInv, DeliveredOnlyWhenReady, Nowhere, HeldByThread, Holds, Task
<1>7. ASSUME UNCHANGED queue, NEW new, RowBecomes(tasks', t, new), GoodRow(new), Return(w)
      PROVE  StageInv'
  <2>1. ThreadBecomes(w, Idle) /\ Idle.pc = "pop"
    BY <1>0, <1>7, ThreadSteps DEF Idle
  <2> QED BY <1>1, <1>5, <1>7, <2>1, HeldTaskStep
<1>8. ASSUME UNCHANGED queue, NEW new, RowBecomes(tasks', t, new), GoodRow(new),
             NEW pc, Goto(w, pc), StatusOK(pc, new.status),
             SnapshotOK([th EXCEPT !.pc = pc], new)
      PROVE  StageInv'
  <2>1. ThreadBecomes(w, [th EXCEPT !.pc = pc])
    BY <1>0, <1>8, ThreadSteps
  <2>2. [th EXCEPT !.pc = pc].task = t /\ [th EXCEPT !.pc = pc].pc = pc
    BY <1>2 DEF ThreadState
  <2> QED BY <1>1, <1>5, <1>8, <2>1, <2>2, HeldTaskStep
<1>9. \A status \in {"COMPLETED", "FAILED"} :
        /\ /\ row.status \in {"RUNNING", "FAILED"}
           /\ Registered /\ status = "FAILED" => row.retryCount = MaxRetries
           => GoodRow([row EXCEPT !.status = status])
        /\ [row EXCEPT !.status = status].status = status
  BY <1>2, <1>6 DEF GoodRow, Task
<1>10. CASE FindTask(w)
  <2>1. CASE Return(w)
    BY <1>2, <1>4, <1>7, <1>10, <2>1 DEF FindTask, ReadError
  <2>2. CASE Become(w, Fetched(t))
    <3>1. ThreadBecomes(w, Fetched(t))
      BY <1>0, <2>2, ThreadSteps
    <3>2. Fetched(t).task = t /\ StatusOK(Fetched(t).pc, row.status) /\ SnapshotOK(Fetched(t), row)
      BY <1>2, <1>10 DEF Fetched, FindTask, StatusOK, SnapshotOK
    <3> QED BY <1>1, <1>2, <1>4, <1>5, <1>10, <3>1, <3>2, HeldTaskStep DEF FindTask, ReadError
  <2> QED BY <1>10, <2>1, <2>2 DEF FindTask
<1>11. CASE SkipTask(w)
  <2>1. row.status \in Waiting /\ GoodRow([row EXCEPT !.status = "SKIPPED"])
    BY <1>2, <1>6, <1>11 DEF SkipTask, GoodRow, StatusOK, Waiting, Task
  <2>2. CASE MarkSkipped(t, TRUE) /\ Goto(w, "publishSkipped")
    <3>1. RowBecomes(tasks', t, [row EXCEPT !.status = "SKIPPED"])
      BY <1>3, <2>2, WriteRows DEF MarkSkipped
    <3>2. StatusOK("publishSkipped", [row EXCEPT !.status = "SKIPPED"].status)
      BY <1>2 DEF StatusOK, Task
    <3>3. SnapshotOK([th EXCEPT !.pc = "publishSkipped"], [row EXCEPT !.status = "SKIPPED"])
      BY <1>2, <1>11 DEF SnapshotOK, Task, ThreadState, SkipTask
    <3> QED BY <1>8, <1>11, <2>1, <2>2, <3>1, <3>2, <3>3 DEF SkipTask
  <2>3. CASE MarkSkipped(t, FALSE) /\ Return(w)
    <3>1. PICK new \in {row, [row EXCEPT !.status = "SKIPPED"]} : RowBecomes(tasks', t, new)
      <4>1. PICK ok \in BOOLEAN : Write(Marked(t, "SKIPPED"), ok)
        BY <2>3 DEF MarkSkipped
      <4> QED BY <1>3, <4>1, WriteRows
    <3> QED BY <1>2, <1>7, <1>11, <2>1, <2>3, <3>1 DEF SkipTask
  <2> QED BY <1>11, <2>2, <2>3 DEF SkipTask
<1>12. CASE PublishSkipped(w) \/ PublishFailed(w) \/ PublishCompleted(w)
  BY <1>2, <1>4, <1>7, <1>12 DEF PublishSkipped, PublishFailed, PublishCompleted

<1>13. CASE Claim(w)
  <2>1. row.status \in Waiting /\ th.version = row.version /\ th.retryCount = row.retryCount
    BY <1>2, <1>13 DEF Claim, StatusOK, SnapshotOK
  <2>2. PICK new : new = [row EXCEPT !.status = "RUNNING", !.version = th.version + 1]
    OBVIOUS
  <2>3. /\ GoodRow(new) /\ new.status = "RUNNING" /\ new.version = th.version + 1
        /\ new.retryCount = row.retryCount
    BY <1>2, <1>6, <2>1, <2>2 DEF GoodRow, Waiting, Task
  <2>4. CASE ClaimTask(t, th.version, TRUE) /\ Become(w, AfterClaim(th))
    <3>1. RowBecomes(tasks', t, new)
      BY <1>3, <2>2, <2>4, WriteRows DEF ClaimTask
    <3>2. ThreadBecomes(w, AfterClaim(th))
      BY <1>0, <2>4, ThreadSteps
    <3>3. /\ AfterClaim(th).pc = "execute" /\ AfterClaim(th).task = t
          /\ AfterClaim(th).version = th.version + 1
          /\ AfterClaim(th).retryCount = th.retryCount
      BY <1>2 DEF AfterClaim, ThreadState
    <3>4. StatusOK("execute", "RUNNING") /\ SnapshotOK(AfterClaim(th), new)
      BY <2>1, <2>3, <3>3 DEF StatusOK, SnapshotOK
    <3> QED
      BY <1>1, <1>5, <1>13, <2>3, <3>1, <3>2, <3>3, <3>4, HeldTaskStep DEF Claim
  <2>5. CASE ClaimTask(t, th.version, FALSE) /\ Return(w)
    <3>1. PICK now \in {row, new} : RowBecomes(tasks', t, now)
      <4>1. UNCHANGED tasks \/ \E ok \in BOOLEAN : Write(Claimed(t, th.version), ok)
        BY <2>5 DEF ClaimTask
      <4> QED BY <1>3, <1>4, <2>2, <4>1, WriteRows
    <3> QED BY <1>2, <1>7, <1>13, <2>3, <2>5, <3>1 DEF Claim
  <2> QED BY <1>13, <2>4, <2>5 DEF Claim
<1>14. ASSUME th.pc # "find", th.pc # "pushRetry", NEW now, now.retryCount = row.retryCount,
              now.version = row.version, now.status \in {"RUNNING", "FAILED"},
              Registered => now.status = "RUNNING"
       PROVE  /\ StatusOK(FailurePC(th), now.status)
              /\ SnapshotOK([th EXCEPT !.pc = FailurePC(th)], now)
  <2>1. [th EXCEPT !.pc = FailurePC(th)].pc = FailurePC(th)
        /\ [th EXCEPT !.pc = FailurePC(th)].version = th.version
        /\ [th EXCEPT !.pc = FailurePC(th)].retryCount = th.retryCount
    BY <1>2 DEF ThreadState
  <2>2. th.version = row.version /\ th.retryCount = row.retryCount /\ th.retryCount \in Nat
    BY <1>2, <1>14 DEF SnapshotOK, ThreadState
  <2> QED
    BY <1>14, <2>1, <2>2, MaxRetriesAssumption
       DEF FailurePC, CanRetry, StatusOK, SnapshotOK
<1>15. ASSUME th.pc \notin {"find", "pushRetry"}, NEW now, now.retryCount = row.retryCount,
              now.version = row.version,
              NEW pc \in {"publishUnknown", "failUnknown", "markCompleted", "publishCompleted",
                          "publishSkipped"}
       PROVE  SnapshotOK([th EXCEPT !.pc = pc], now)
  BY <1>2, <1>15 DEF SnapshotOK, ThreadState
<1>16. CASE ExecuteHandler(w)
  <2>1. row.status = "RUNNING"
    BY <1>2, <1>16 DEF ExecuteHandler, StatusOK
  <2>2. CASE Goto(w, FailurePC(th))
    BY <1>2, <1>4, <1>8, <1>14, <1>16, <2>1, <2>2 DEF ExecuteHandler
  <2>3. CASE Goto(w, "markCompleted")
    <3>1. StatusOK("markCompleted", row.status)
      BY <2>1 DEF StatusOK
    <3> QED BY <1>2, <1>4, <1>8, <1>15, <1>16, <2>3, <3>1 DEF ExecuteHandler
  <2> QED BY <1>16, <2>2, <2>3 DEF ExecuteHandler
<1>17. ASSUME th.pc \notin {"find", "pushRetry"}, NEW status \in {"COMPLETED", "FAILED"}
       PROVE  [row EXCEPT !.status = status].version = row.version
              /\ [row EXCEPT !.status = status].retryCount = row.retryCount
              /\ [row EXCEPT !.status = status].status = status
  BY <1>2 DEF Task
<1>18. CASE MarkUnknown(w)
  <2>1. row.status = "RUNNING" /\ ~Registered /\ th.pc = "execute"
    BY <1>2, <1>18 DEF MarkUnknown, StatusOK, GoodRow
  <2>2. PICK new \in {row, [row EXCEPT !.status = "FAILED"]} : RowBecomes(tasks', t, new)
    BY <1>3, <1>18, WriteRows DEF MarkUnknown, MarkFailed
  <2>3. /\ GoodRow(new) /\ new.status \in {"RUNNING", "FAILED"}
        /\ new.version = row.version /\ new.retryCount = row.retryCount
    BY <1>2, <1>9, <1>17, <2>1, <2>2
  <2>4. StatusOK("publishUnknown", new.status) /\ SnapshotOK([th EXCEPT !.pc = "publishUnknown"], new)
    BY <1>15, <2>1, <2>3 DEF StatusOK
  <2> QED BY <1>8, <1>18, <2>2, <2>3, <2>4 DEF MarkUnknown
<1>19. CASE PublishUnknown(w)
  <2>1. StatusOK("failUnknown", row.status) /\ SnapshotOK([th EXCEPT !.pc = "failUnknown"], row)
    BY <1>2, <1>15, <1>19 DEF PublishUnknown, StatusOK
  <2> QED BY <1>2, <1>4, <1>8, <1>19, <2>1 DEF PublishUnknown
<1>20. CASE FailUnknown(w)
  <2>1. row.status \in {"RUNNING", "FAILED"} /\ ~Registered
    BY <1>2, <1>20 DEF FailUnknown, StatusOK
  <2> QED BY <1>2, <1>4, <1>8, <1>14, <1>20, <2>1 DEF FailUnknown
<1>21. CASE Retry(w)
  <2>1. /\ row.status \in {"RUNNING", "FAILED"} /\ th.version = row.version
        /\ th.retryCount = row.retryCount /\ th.retryCount < MaxRetries
    BY <1>2, <1>21 DEF Retry, StatusOK, SnapshotOK
  <2>2. PICK new : new = [row EXCEPT !.retryCount = @ + 1, !.status = "PENDING",
                                     !.version = th.version + 1]
    OBVIOUS
  <2>3. GoodRow(new) /\ new.status = "PENDING"
    <3>1. /\ new.retryCount = row.retryCount + 1 /\ new.status = "PENDING"
          /\ new.version = row.version + 1 /\ new.inDegree = row.inDegree
          /\ new.action = row.action
      BY <1>2, <2>1, <2>2 DEF Task
    <3>2. row.version \in Nat /\ row.retryCount \in Nat /\ row.inDegree \in Int
      BY <1>2 DEF Task
    <3> QED BY <1>2, <1>6, <2>1, <3>1, <3>2, MaxRetriesAssumption DEF GoodRow
  <2>4. CASE IncrementRetryCount(t, th.version, TRUE) /\ Goto(w, "pushRetry")
    <3>1. RowBecomes(tasks', t, new)
      BY <1>3, <2>2, <2>4, WriteRows DEF IncrementRetryCount
    <3>2. StatusOK("pushRetry", "PENDING") /\ SnapshotOK([th EXCEPT !.pc = "pushRetry"], new)
      BY <1>2 DEF StatusOK, SnapshotOK, Waiting, ThreadState
    <3> QED BY <1>8, <1>21, <2>3, <2>4, <3>1, <3>2 DEF Retry
  <2>5. CASE IncrementRetryCount(t, th.version, FALSE) /\ Return(w)
    <3>1. PICK now \in {row, new} : RowBecomes(tasks', t, now)
      <4>1. UNCHANGED tasks \/ \E ok \in BOOLEAN : Write(Retried(t, th.version), ok)
        BY <2>5 DEF IncrementRetryCount
      <4> QED BY <1>3, <1>4, <2>2, <4>1, WriteRows
    <3> QED BY <1>2, <1>7, <1>21, <2>3, <2>5, <3>1 DEF Retry
  <2> QED BY <1>21, <2>4, <2>5 DEF Retry
<1>22. CASE PushRetry(w)
  <2>1. row.status \in Waiting
    BY <1>2, <1>22 DEF PushRetry, StatusOK
  <2>2. ThreadBecomes(w, Idle) /\ Idle.pc = "pop"
    BY <1>0, <1>22, ThreadSteps DEF PushRetry, Idle
  <2>3. \A u : OnItsWay(u)' => OnItsWay(u) \/ u = t
    <3>1. PICK ok \in BOOLEAN : Push("retry", t, ok)
      BY <1>22 DEF PushRetry
    <3>2. RedisQueueTypeOK(DOMAIN tasks) /\ "retry" \in QueueName
      BY DEF TypeOK, QueueName
    <3>3. \A u : Queued(u)' => Queued(u) \/ u = t
      BY <1>2, <3>1, <3>2, PushedTasks
    <3> QED BY <3>3 DEF OnItsWay, AwaitsSubmit
  <2> QED BY <1>1, <1>2, <1>4, <1>22, <2>1, <2>2, <2>3, HeldTaskStep DEF PushRetry
<1>23. CASE FailTask(w)
  <2>1. /\ row.status \in {"RUNNING", "FAILED"} /\ th.retryCount >= MaxRetries
        /\ th.retryCount = row.retryCount /\ th.version = row.version
    BY <1>2, <1>23 DEF FailTask, StatusOK, SnapshotOK
  <2>2. PICK ok \in BOOLEAN : Write(Marked(t, "FAILED"), ok)
    BY <1>23 DEF FailTask, MarkFailed
  <2>3. PICK new \in {row, [row EXCEPT !.status = "FAILED"]} :
          /\ RowBecomes(tasks', t, new)
          /\ "db" \notin FaultKinds => new.status = "FAILED"
    BY <1>3, <1>17, <1>23, <2>2, WriteRows DEF FailTask
  <2>4. /\ GoodRow(new) /\ new.status \in {"RUNNING", "FAILED"}
        /\ new.version = row.version /\ new.retryCount = row.retryCount
    <3>1. row.retryCount = MaxRetries
      <4>1. row.retryCount <= MaxRetries /\ row.retryCount \in Nat
        BY <1>2 DEF GoodRow, Task
      <4> QED BY <2>1, <4>1, MaxRetriesAssumption
    <3> QED BY <1>2, <1>9, <1>17, <1>23, <2>1, <3>1 DEF FailTask
  <2>5. StatusOK("failWorkflow", new.status)
    BY <2>3, <2>4 DEF StatusOK
  <2>6. SnapshotOK([th EXCEPT !.pc = "failWorkflow"], new)
    BY <1>2, <2>1, <2>4 DEF SnapshotOK, ThreadState
  <2> QED BY <1>8, <1>23, <2>3, <2>4, <2>5, <2>6 DEF FailTask
<1>24. CASE FailWorkflow(w)
  <2>1. StatusOK("publishFailed", row.status) /\ SnapshotOK([th EXCEPT !.pc = "publishFailed"], row)
    BY <1>2, <1>24 DEF FailWorkflow, StatusOK, SnapshotOK, ThreadState
  <2> QED BY <1>2, <1>4, <1>8, <1>24, <2>1 DEF FailWorkflow
<1>25. CASE CompleteTask(w)
  <2>1. row.status = "RUNNING" /\ th.pc = "markCompleted"
    BY <1>2, <1>25 DEF CompleteTask, StatusOK
  <2>2. PICK ok \in BOOLEAN : Write(Marked(t, "COMPLETED"), ok)
    BY <1>25 DEF CompleteTask, MarkCompleted
  <2>3. PICK new \in {row, [row EXCEPT !.status = "COMPLETED"]} :
          /\ RowBecomes(tasks', t, new)
          /\ "db" \notin FaultKinds => new.status = "COMPLETED"
    BY <1>3, <1>17, <2>1, <2>2, WriteRows
  <2>4. /\ GoodRow(new) /\ new.status \in {"RUNNING", "COMPLETED"}
        /\ new.version = row.version /\ new.retryCount = row.retryCount
    BY <1>2, <1>9, <1>17, <2>1
  <2>5. StatusOK("publishCompleted", new.status)
    BY <2>3, <2>4 DEF StatusOK
  <2> QED BY <1>8, <1>15, <1>25, <2>1, <2>3, <2>4, <2>5 DEF CompleteTask
<1> QED
  BY <1>10, <1>11, <1>12, <1>13, <1>16, <1>18, <1>19, <1>20, <1>21, <1>22, <1>23, <1>24,
     <1>25 DEF ProcessNextTask

(* Steps that leave the rows alone, bring nothing on its way and let        *)
(* threads do no more than give up.                                         *)
LEMMA RestKeepsStage ==
  ASSUME StageInv, UNCHANGED tasks,
         \A t : OnItsWay(t)' => OnItsWay(t),
         \A w \in Thread : thread'[w].pc # "pop" => thread'[w] = thread[w]
  PROVE  StageInv'
BY DEF StageInv

LEMMA PopKeepsStage ==
  ASSUME TypeOK, DeliveryInv, StageInv, NEW w \in Thread, PopTask(w),
         UNCHANGED <<coord, submit>>
  PROVE  StageInv'
<1>1. PICK u \in DOMAIN tasks, ok \in BOOLEAN :
        /\ Pop(SourceQueue(w), u, ok)
        /\ \/ Become(w, [Idle EXCEPT !.pc = "find", !.task = u])
           \/ Return(w)
  BY DEF PopTask
<1>2. RedisQueueTypeOK(DOMAIN tasks) /\ UniqueInQueues /\ SourceQueue(w) \in QueueName
      /\ WorkerTypeOK /\ UNCHANGED tasks
  BY DEF TypeOK, DeliveryInv, SingleDelivery, SourceQueue, QueueName, PopTask
<1>3. Queued(u) /\ \A t : Queued(t)' => Queued(t)
  BY <1>1, <1>2, PopUnique
<1>4. \A t : OnItsWay(t)' => OnItsWay(t)
  BY <1>3 DEF OnItsWay, AwaitsSubmit
<1>5. tasks[u].status \in Waiting
  BY <1>3 DEF StageInv, OnItsWay
<1>6. CASE Return(w)
  <2>1. ThreadBecomes(w, Idle) /\ Idle.pc = "pop"
    BY <1>2, <1>6, ThreadSteps DEF Idle
  <2> QED BY <1>2, <1>4, <2>1, RestKeepsStage DEF ThreadBecomes
<1>7. CASE Become(w, [Idle EXCEPT !.pc = "find", !.task = u])
  <2>1. PICK th : th = [Idle EXCEPT !.pc = "find", !.task = u]
    OBVIOUS
  <2>2. th.pc = "find" /\ th.task = u /\ ThreadBecomes(w, th)
    BY <1>2, <1>7, <2>1, ThreadSteps DEF Idle
  <2>3. StatusOK("find", tasks[u].status) /\ SnapshotOK(th, tasks[u])
    BY <1>5, <2>2 DEF StatusOK, SnapshotOK
  <2> QED BY <1>2, <1>4, <2>2, <2>3 DEF StageInv, ThreadBecomes
<1> QED BY <1>1, <1>6, <1>7

-----------------------------------------------------------------------------
(* A decrement changes the status of a task only when it takes the          *)
(* in-degree from one to zero; then the task is PENDING and nowhere.        *)
LEMMA DecrementedRows ==
  ASSUME NEW row \in Task, GoodRow(row), NEW skip \in BOOLEAN,
         NEW new, new = DecrementedRow(row, skip)
  PROVE  /\ GoodRow(new)
         /\ row.status \in Waiting => new.status \in Waiting
         /\ row.inDegree > 0 => new.status \in Waiting
         /\ row.inDegree <= 0 => new.status = row.status
         /\ new.version = row.version /\ new.retryCount = row.retryCount
         /\ AbstractState(new.status) = AbstractState(row.status)
<1>1. /\ new.inDegree = row.inDegree - 1 /\ new.version = row.version
      /\ new.retryCount = row.retryCount /\ new.action = row.action
      /\ new.status = IF row.inDegree - 1 = 0 THEN "QUEUED" ELSE row.status
  BY DEF DecrementedRow, Task
<1>2. row.inDegree \in Int /\ row.version \in Nat /\ row.retryCount \in Nat
  BY DEF Task
<1>3. row.inDegree > 0 => row.status = "PENDING"
  BY DEF GoodRow
<1>4. GoodRow(new)
  BY <1>1, <1>2, <1>3 DEF GoodRow
<1> QED BY <1>1, <1>2, <1>3, <1>4 DEF Waiting, AbstractState

LEMMA DecrementKeepsStage ==
  ASSUME TypeOK, DeliveryInv, StageInv, NEW e, NEW ref, NEW skip \in BOOLEAN,
         NEW ready \in SUBSET DOMAIN tasks, NEW ok \in BOOLEAN,
         DecrementInDegree(e, ref, skip, ready, ok),
         coord'.ready = IF ok THEN ready ELSE {},
         UNCHANGED <<queue, thread, submit>>
  PROVE  StageInv'
<1>0. \A t \in DOMAIN tasks : tasks[t] \in Task /\ GoodRow(tasks[t])
  BY DEF TypeOK, TaskRepositoryTypeOK, StageInv
<1>1. tasks' \in {tasks, Decremented(e, ref, skip)}
      /\ (ok => tasks' = Decremented(e, ref, skip) /\ ready \subseteq ReadyTasks(e, ref))
  BY DEF DecrementInDegree, Write
<1>2. \A t : OnItsWay(t)' => OnItsWay(t) \/ (ok /\ t \in ready)
  BY DEF OnItsWay, Queued, InQueue, AwaitsSubmit
<1>3. DOMAIN tasks' = DOMAIN tasks
      /\ \A t \in DOMAIN tasks : tasks'[t] \in {tasks[t], DecrementedRow(tasks[t], skip)}
  BY <1>1 DEF Decremented
<1>4. ASSUME NEW t \in DOMAIN tasks
      PROVE  /\ GoodRow(tasks'[t])
             /\ tasks[t].status \in Waiting => tasks'[t].status \in Waiting
             /\ tasks[t].inDegree <= 0 => tasks'[t].status = tasks[t].status
             /\ tasks'[t].version = tasks[t].version
             /\ tasks'[t].retryCount = tasks[t].retryCount
  BY <1>0, <1>3, DecrementedRows
<1>5. ASSUME ok, NEW t \in ready PROVE tasks'[t].status \in Waiting
  <2>1. t \in ReadyTasks(e, ref) /\ tasks'[t] = DecrementedRow(tasks[t], skip)
        /\ DecrementedRow(tasks[t], FALSE).inDegree = 0
    BY <1>1, <1>5 DEF Decremented, ReadyTasks
  <2>2. tasks[t].inDegree > 0
    BY <1>0, <2>1 DEF DecrementedRow, Task
  <2> QED BY <1>0, <2>1, <2>2, DecrementedRows
<1>6. \A t \in DOMAIN tasks' : OnItsWay(t)' => tasks'[t].status \in Waiting
  BY <1>2, <1>3, <1>4, <1>5 DEF StageInv
<1>7. ASSUME NEW w \in Thread, thread'[w].pc # "pop"
      PROVE  /\ StatusOK(thread'[w].pc, tasks'[thread'[w].task].status)
             /\ SnapshotOK(thread'[w], tasks'[thread'[w].task])
  <2>1. PICK t \in DOMAIN tasks : t = thread[w].task /\ HeldByThread(t)
    BY <1>7 DEF TypeOK, WorkerTypeOK, HeldByThread, Holds
  <2>2. tasks[t].inDegree <= 0
    BY <1>0, <2>1 DEF DeliveryInv, DeliveredOnlyWhenReady, Nowhere, Task
  <2>3. StatusOK(thread[w].pc, tasks[t].status) /\ SnapshotOK(thread[w], tasks[t])
    BY <1>7, <2>1 DEF StageInv
  <2> QED BY <1>4, <2>1, <2>2, <2>3 DEF SnapshotOK
<1> QED BY <1>3, <1>4, <1>6, <1>7 DEF StageInv

LEMMA CoordinatorTakesNothingUp ==
  ASSUME TypeOK,
         \/ SubscribeToEvents \/ SubscribeToTerminationEvents
         \/ \E ch \in ChannelName : ReceiveEvent(ch)
         \/ CheckIfWorkflowFinished \/ CompleteWorkflow
  PROVE  coord'.ready \subseteq coord.ready
<1>1. coord' = [coord EXCEPT !.pc = "complete"] => coord'.ready = coord.ready
  BY DEF TypeOK, CoordinatorTypeOK
<1>2. Select => coord'.ready = {}
  BY DEF Select, CoordinatorAt
<1>3. CASE CheckIfWorkflowFinished
  BY <1>1, <1>2, <1>3 DEF CheckIfWorkflowFinished
<1>4. CASE SubscribeToEvents \/ SubscribeToTerminationEvents
  BY <1>2, <1>4 DEF SubscribeToEvents, SubscribeToTerminationEvents, CoordinatorAt
<1>5. CASE CompleteWorkflow
  BY <1>2, <1>5 DEF CompleteWorkflow
<1>6. CASE \E ch \in ChannelName : ReceiveEvent(ch)
  BY <1>6 DEF ReceiveEvent
<1> QED BY <1>3, <1>4, <1>5, <1>6

LEMMA CoordinatorKeepsStage ==
  ASSUME TypeOK, DeliveryInv, StageInv, CoordinatorAction
  PROVE  StageInv'
<1>1. CoordinatorStep /\ UNCHANGED <<thread, submit>>
  BY DEF CoordinatorAction
<1>2. CASE HandleTaskCompleted
  <2>1. PICK ready \in SUBSET DOMAIN tasks, ok \in BOOLEAN :
          /\ DecrementInDegree(coord.event.executionID, coord.event.refID, FALSE, ready, ok)
          /\ IF ok THEN coord' = AfterDecrement(coord.event, ready) ELSE Select
    BY <1>2 DEF HandleTaskCompleted
  <2>2. coord'.ready = IF ok THEN ready ELSE {}
    BY <2>1 DEF AfterDecrement, Select, CoordinatorAt
  <2> QED BY <1>1, <1>2, <2>1, <2>2, DecrementKeepsStage DEF HandleTaskCompleted
<1>3. CASE HandleTaskTerminated
  <2>1. PICK ready \in SUBSET DOMAIN tasks, ok \in BOOLEAN :
          /\ DecrementInDegree(coord.event.executionID, coord.event.refID, TRUE, ready, ok)
          /\ IF ok /\ ready # {} THEN coord' = AfterDecrement(coord.event, ready) ELSE Select
    BY <1>3 DEF HandleTaskTerminated
  <2>2. coord'.ready = IF ok THEN ready ELSE {}
    BY <2>1 DEF AfterDecrement, Select, CoordinatorAt
  <2> QED BY <1>1, <1>3, <2>1, <2>2, DecrementKeepsStage DEF HandleTaskTerminated
<1>4. CASE PushReady
  <2>1. PICK u \in coord.ready, ok \in BOOLEAN :
          /\ Push("main", u, ok)
          /\ IF coord.ready = {u} THEN Select ELSE coord' = [coord EXCEPT !.ready = @ \ {u}]
    BY <1>4 DEF PushReady
  <2>2. u \in DOMAIN tasks /\ RedisQueueTypeOK(DOMAIN tasks) /\ coord'.ready \subseteq coord.ready
    BY <2>1 DEF TypeOK, CoordinatorTypeOK, Select, CoordinatorAt
  <2>3. \A t : Queued(t)' => Queued(t) \/ t = u
    BY <2>1, <2>2, PushedTasks DEF QueueName
  <2>4. \A t : OnItsWay(t)' => OnItsWay(t)
    BY <1>1, <2>1, <2>2, <2>3 DEF OnItsWay, AwaitsSubmit
  <2> QED BY <1>1, <1>4, <2>4, RestKeepsStage DEF PushReady
<1>5. ASSUME \/ SubscribeToEvents \/ SubscribeToTerminationEvents
             \/ \E ch \in ChannelName : ReceiveEvent(ch)
             \/ CheckIfWorkflowFinished \/ CompleteWorkflow
      PROVE  StageInv'
  <2>1. UNCHANGED <<tasks, queue>>
    BY <1>5 DEF SubscribeToEvents, SubscribeToTerminationEvents, ReceiveEvent,
       CheckIfWorkflowFinished, CompleteWorkflow, ReadError
  <2>2. coord'.ready \subseteq coord.ready
    BY <1>5, CoordinatorTakesNothingUp
  <2>3. \A t : OnItsWay(t)' => OnItsWay(t)
    BY <1>1, <2>1, <2>2 DEF OnItsWay, Queued, InQueue, AwaitsSubmit
  <2> QED BY <1>1, <2>1, <2>3, RestKeepsStage
<1> QED BY <1>1, <1>2, <1>3, <1>4, <1>5 DEF CoordinatorStep

-----------------------------------------------------------------------------
LEMMA NewRows ==
  ASSUME NEW e \in Execution, NEW req \in Requests, NEW t \in TaskIDs(e, req)
  PROVE  GoodRow(ToTasks(e, req)[t]) /\ ToTasks(e, req)[t].status \in Waiting
<1>1. PICK i \in DOMAIN req : t[2] = i
  BY DEF TaskIDs
<1>2. ToTasks(e, req)[t] = ToTask(e, req[i])
  BY <1>1 DEF ToTasks
<1>3. Len(req[i].dependencies) \in Nat
  <2>1. req \in Seq(TaskDTO)
    BY RequestsAssumption
  <2>2. req[i] \in TaskDTO
    BY <1>1, <2>1, ElementOfSeq, LenProperties
  <2> QED BY <2>2, LenProperties DEF TaskDTO
<1>4. Registered => req[i].action \in DOMAIN Registry
  BY <1>1 DEF Registered
<1> QED BY <1>2, <1>3, <1>4, MaxRetriesAssumption DEF ToTask, GoodRow, Waiting

(* The ids of a new submission are new. *)
LEMMA FreshIDs ==
  ASSUME DeliveryInv, NEW e \in Execution, CreateExecution(e), NEW req \in Requests
  PROVE  TaskIDs(e, req) # {} /\ TaskIDs(e, req) \cap DOMAIN tasks = {}
<1>1. \A t \in DOMAIN tasks : t[1] # e
  BY DEF DeliveryInv, FreshSubmissions, CreateExecution
<1>2. DOMAIN req # {}
  <2>1. req \in Seq(TaskDTO) /\ req # <<>>
    BY RequestsAssumption
  <2>2. Len(req) > 0 /\ DOMAIN req = 1..Len(req)
    BY <2>1, EmptySeq, LenProperties
  <2> QED BY <2>2
<1>3. PICK i \in DOMAIN req : TRUE
  BY <1>2
<1>4. <<e, i>> \in TaskIDs(e, req) /\ \A t \in TaskIDs(e, req) : t[1] = e
  BY DEF TaskIDs
<1> QED BY <1>1, <1>4

LEMMA ServiceKeepsStage ==
  ASSUME TypeOK, DeliveryInv, StageInv, NEW e \in Execution, ServiceAction(e)
  PROVE  StageInv'
<1>1. UNCHANGED <<thread, coord>>
  BY DEF ServiceAction
<1>2. CASE CreateExecution(e)
  <2>1. PICK req \in Requests :
          /\ tasks' \in {tasks, Inserted(e, req)} /\ UNCHANGED queue
          /\ \E roots :
               /\ submit' = [submit EXCEPT ![e] = roots]
               /\ roots.roots \subseteq TaskIDs(e, req)
               /\ tasks' = tasks => roots.roots = {}
    <3>1. PICK req \in Requests :
            \/ /\ tasks' = Inserted(e, req)
               /\ submit' = [submit EXCEPT ![e] = AfterCreate(RootTasks(e, req))]
            \/ /\ tasks' \in {tasks, Inserted(e, req)}
               /\ submit' = [submit EXCEPT ![e] = Submitted("error", {})]
      BY <1>2, Zenon DEF CreateExecution
    <3>2. /\ AfterCreate(RootTasks(e, req)).roots = RootTasks(e, req)
          /\ RootTasks(e, req) \subseteq TaskIDs(e, req)
          /\ Submitted("error", {}).roots = {}
      BY DEF AfterCreate, Submitted, RootTasks
    <3>3. TaskIDs(e, req) # {} /\ TaskIDs(e, req) \cap DOMAIN tasks = {}
      BY <1>2, FreshIDs
    <3>4. Inserted(e, req) # tasks
      BY <3>3 DEF Inserted
    <3> QED BY <1>2, <3>1, <3>2, <3>4 DEF CreateExecution
  <2>2. CASE tasks' = tasks
    <3>1. \A t : OnItsWay(t)' => OnItsWay(t)
      BY <1>1, <2>1, <2>2 DEF OnItsWay, Queued, InQueue, AwaitsSubmit, TypeOK,
         WorkflowServiceTypeOK
    <3> QED BY <1>1, <2>2, <3>1, RestKeepsStage
  <2>3. CASE tasks' = Inserted(e, req)
    <3>1. TaskIDs(e, req) \cap DOMAIN tasks = {}
      BY <1>2, FreshIDs
    <3>2. /\ DOMAIN tasks' = DOMAIN tasks \cup TaskIDs(e, req)
          /\ \A t \in DOMAIN tasks : tasks'[t] = tasks[t]
          /\ \A t \in TaskIDs(e, req) : tasks'[t] = ToTasks(e, req)[t]
      BY <2>3, <3>1 DEF Inserted
    <3>3. \A t : OnItsWay(t)' => OnItsWay(t) \/ t \in TaskIDs(e, req)
      BY <1>1, <2>1 DEF OnItsWay, Queued, InQueue, AwaitsSubmit, TypeOK,
         WorkflowServiceTypeOK
    <3>4. \A t \in DOMAIN tasks' :
            GoodRow(tasks'[t]) /\ (OnItsWay(t)' => tasks'[t].status \in Waiting)
      BY <3>2, <3>3, NewRows DEF StageInv
    <3>5. \A w \in Thread : thread[w].pc # "pop" => thread[w].task \in DOMAIN tasks
      BY DEF TypeOK, WorkerTypeOK
    <3> QED BY <1>1, <3>2, <3>4, <3>5 DEF StageInv
  <2> QED BY <2>1, <2>2, <2>3
<1>3. CASE EnqueueRootTask(e)
  <2>1. PICK u \in submit[e].roots, ok \in BOOLEAN :
          /\ Push("main", u, ok)
          /\ \/ submit' = [submit EXCEPT ![e] = AfterPush(e, u)]
             \/ submit' = [submit EXCEPT ![e] = Submitted("error", {})]
    BY <1>3 DEF EnqueueRootTask
  <2>2. u \in DOMAIN tasks /\ RedisQueueTypeOK(DOMAIN tasks)
    BY DEF TypeOK, WorkflowServiceTypeOK
  <2>3. \A t : Queued(t)' => Queued(t) \/ t = u
    BY <2>1, <2>2, PushedTasks DEF QueueName
  <2>4. \A t : AwaitsSubmit(t)' => AwaitsSubmit(t)
    <3>1. \A d \in Execution : submit'[d].roots \subseteq submit[d].roots
      BY <2>1 DEF AfterPush, AfterCreate, Submitted, TypeOK, WorkflowServiceTypeOK
    <3> QED BY <3>1 DEF AwaitsSubmit
  <2>5. \A t : OnItsWay(t)' => OnItsWay(t)
    BY <1>1, <2>1, <2>3, <2>4 DEF OnItsWay, AwaitsSubmit
  <2> QED BY <1>1, <1>3, <2>5, RestKeepsStage DEF EnqueueRootTask
<1> QED BY <1>2, <1>3 DEF ServiceAction, SubmitStep

-----------------------------------------------------------------------------
LEMMA StageStep ==
  ASSUME TypeOK, DeliveryInv, StageInv, [Next]_vars
  PROVE  StageInv'
<1>1. ASSUME NEW w \in Thread, WorkerAction(w) PROVE StageInv'
  BY <1>1, PopKeepsStage, WorkerKeepsStage DEF WorkerAction
<1>2. CASE CoordinatorAction
  BY <1>2, CoordinatorKeepsStage
<1>3. ASSUME NEW e \in Execution, ServiceAction(e) PROVE StageInv'
  BY <1>3, ServiceKeepsStage
<1>4. CASE \E ch \in ChannelName : BusAction(ch)
  BY <1>4, RestKeepsStage DEF BusAction, OnItsWay, Queued, InQueue, AwaitsSubmit
<1>5. CASE Crash
  <2>1. /\ UNCHANGED <<tasks, queue>> /\ coord'.ready = {}
        /\ \A w \in Thread : thread'[w].pc = "pop"
        /\ \A e \in Execution : submit'[e].roots \subseteq submit[e].roots
    BY <1>5 DEF Crash, Listening, CoordinatorAt, Idle, Submitted
  <2>2. \A t : OnItsWay(t)' => OnItsWay(t)
    BY <2>1 DEF OnItsWay, Queued, InQueue, AwaitsSubmit
  <2> QED BY <2>1, <2>2, RestKeepsStage
<1>6. CASE UNCHANGED vars
  BY <1>6, RestKeepsStage DEF vars, OnItsWay, Queued, InQueue, AwaitsSubmit
<1> QED BY <1>1, <1>2, <1>3, <1>4, <1>5, <1>6 DEF Next

LEMMA StageInvariant ==
  ASSUME "dupPush" \notin FaultKinds
  PROVE  Spec => []StageInv
<1>1. Init => StageInv
  BY DEF Init, StageInv, TaskRepositoryInit, WorkerInit, Idle
<1>2. TypeOK /\ DeliveryInv /\ StageInv /\ [Next]_vars => StageInv'
  BY StageStep
<1> QED BY <1>1, <1>2, TypeCorrect, DeliveryInvariant, PTL DEF Spec


-----------------------------------------------------------------------------
(* What a statement of a worker does to the row of the task it holds. *)
Move(row, new) ==
  \/ new = row
  \/ /\ row.status \in Waiting
     /\ new = [row EXCEPT !.status = "RUNNING", !.version = row.version + 1]
  \/ row.status \in Waiting /\ new = [row EXCEPT !.status = "SKIPPED"]
  \/ row.status = "RUNNING" /\ new = [row EXCEPT !.status = "COMPLETED"]
  \/ /\ row.status \in {"RUNNING", "FAILED"}
     /\ Registered => row.status = "RUNNING" /\ row.retryCount = MaxRetries
     /\ new = [row EXCEPT !.status = "FAILED"]
  \/ /\ row.status \in {"RUNNING", "FAILED"} /\ row.retryCount < MaxRetries
     /\ Registered => row.status = "RUNNING"
     /\ new = [row EXCEPT !.retryCount = @ + 1, !.status = "PENDING",
                          !.version = row.version + 1]

(* Only a claim starts a task, only handleSkippedTask skips one. *)
CausedAt(pc, row, new) ==
  /\ new.status = "RUNNING" => new = row \/ pc = "claim"
  /\ new.status = "SKIPPED" => new = row \/ pc = "skip"

LEMMA WorkerMoves ==
  ASSUME TypeOK, StageInv, NEW w \in Thread, WorkerAction(w)
  PROVE  \/ UNCHANGED tasks
         \/ \E t \in DOMAIN tasks : \E new :
              /\ Holds(w, t) /\ Move(tasks[t], new) /\ CausedAt(thread[w].pc, tasks[t], new)
              /\ RowBecomes(tasks', t, new)
<1> DEFINE t == thread[w].task
           row == tasks[t]
           th == thread[w]
<1> USE DEF At
<1>1. CASE PopTask(w) \/ FindTask(w) \/ PublishSkipped(w) \/ ExecuteHandler(w)
           \/ PublishUnknown(w) \/ FailUnknown(w) \/ PushRetry(w) \/ FailWorkflow(w)
           \/ PublishFailed(w) \/ PublishCompleted(w)
  BY <1>1 DEF PopTask, FindTask, PublishSkipped, ExecuteHandler, PublishUnknown,
     FailUnknown, PushRetry, FailWorkflow, PublishFailed, PublishCompleted, ReadError
<1>2. CASE SkipTask(w) \/ Claim(w) \/ MarkUnknown(w) \/ Retry(w) \/ FailTask(w)
           \/ CompleteTask(w)
  <2>1. th.pc \in {"skip", "claim", "execute", "retry", "markFailed", "markCompleted"}
    BY <1>2 DEF SkipTask, Claim, MarkUnknown, Retry, FailTask, CompleteTask
  <2>2. /\ t \in DOMAIN tasks /\ row \in Task /\ Holds(w, t) /\ Row(w) = row
        /\ GoodRow(row) /\ StatusOK(th.pc, row.status) /\ SnapshotOK(th, row)
    BY <2>1 DEF TypeOK, WorkerTypeOK, TaskRepositoryTypeOK, StageInv, Row, Holds
  <2>3. th.version = row.version /\ th.retryCount = row.retryCount
    BY <2>1, <2>2 DEF SnapshotOK
  <2>4. /\ RowBecomes(tasks, t, row)
        /\ RowBecomes(Claimed(t, th.version), t,
                      [row EXCEPT !.status = "RUNNING", !.version = row.version + 1])
        /\ RowBecomes(Retried(t, th.version), t,
                      [row EXCEPT !.retryCount = @ + 1, !.status = "PENDING",
                                  !.version = row.version + 1])
        /\ \A status : RowBecomes(Marked(t, status), t, [row EXCEPT !.status = status])
    BY <2>2, <2>3, StatementRows DEF TypeOK, TaskRepositoryTypeOK, TableOK
  <2>5. ASSUME NEW table, NEW ok \in BOOLEAN, Write(table, ok), NEW new,
               RowBecomes(table, t, new), Move(row, new), CausedAt(th.pc, row, new)
        PROVE  \E u \in DOMAIN tasks : \E now :
                 /\ Holds(w, u) /\ Move(tasks[u], now) /\ CausedAt(th.pc, tasks[u], now)
                 /\ RowBecomes(tasks', u, now)
    <3>1. PICK now \in {row, new} : RowBecomes(tasks', t, now)
      BY <2>4, <2>5, WriteRows
    <3>2. Move(row, now) /\ CausedAt(th.pc, row, now)
      BY <2>5, <3>1 DEF Move, CausedAt
    <3> QED BY <2>2, <3>1, <3>2
  <2>12. /\ th.pc = "skip" => CausedAt(th.pc, row, [row EXCEPT !.status = "SKIPPED"])
         /\ th.pc = "claim" => CausedAt(th.pc, row, [row EXCEPT !.status = "RUNNING",
                                                                !.version = row.version + 1])
         /\ CausedAt(th.pc, row, [row EXCEPT !.retryCount = @ + 1, !.status = "PENDING",
                                             !.version = row.version + 1])
         /\ \A status \in {"COMPLETED", "FAILED"} :
              CausedAt(th.pc, row, [row EXCEPT !.status = status])
    BY <2>2 DEF CausedAt, Task
  <2>6. CASE SkipTask(w)
    <3>1. Move(row, [row EXCEPT !.status = "SKIPPED"])
      BY <2>2, <2>6 DEF SkipTask, StatusOK, Move
    <3> QED BY <2>4, <2>5, <2>6, <2>12, <3>1 DEF SkipTask, MarkSkipped
  <2>7. CASE Claim(w)
    <3>0. th.pc = "claim"
      BY <2>7 DEF Claim
    <3>1. Move(row, [row EXCEPT !.status = "RUNNING", !.version = row.version + 1])
      BY <2>2, <2>7 DEF Claim, StatusOK, Move
    <3>2. UNCHANGED tasks \/ \E ok \in BOOLEAN : Write(Claimed(t, th.version), ok)
      BY <2>7 DEF Claim, ClaimTask
    <3> QED BY <2>4, <2>5, <2>12, <3>0, <3>1, <3>2
  <2>8. CASE MarkUnknown(w)
    <3>1. Move(row, [row EXCEPT !.status = "FAILED"])
      BY <2>2, <2>8 DEF MarkUnknown, StatusOK, GoodRow, Move
    <3> QED BY <2>4, <2>5, <2>8, <2>12, <3>1 DEF MarkUnknown, MarkFailed
  <2>9. CASE Retry(w)
    <3>1. Move(row, [row EXCEPT !.retryCount = @ + 1, !.status = "PENDING",
                                !.version = row.version + 1])
      BY <2>2, <2>3, <2>9 DEF Retry, StatusOK, SnapshotOK, Move
    <3>2. UNCHANGED tasks \/ \E ok \in BOOLEAN : Write(Retried(t, th.version), ok)
      BY <2>9 DEF Retry, IncrementRetryCount
    <3> QED BY <2>4, <2>5, <2>12, <3>1, <3>2
  <2>10. CASE FailTask(w)
    <3>1. row.retryCount = MaxRetries
      <4>1. row.retryCount >= MaxRetries
        BY <2>2, <2>3, <2>10 DEF FailTask, SnapshotOK
      <4>2. row.retryCount \in Nat /\ row.retryCount <= MaxRetries
        BY <2>2 DEF GoodRow, Task
      <4> QED BY <4>1, <4>2, MaxRetriesAssumption
    <3>2. Move(row, [row EXCEPT !.status = "FAILED"])
      BY <2>2, <2>10, <3>1 DEF FailTask, StatusOK, Move
    <3> QED BY <2>4, <2>5, <2>10, <2>12, <3>2 DEF FailTask, MarkFailed
  <2>11. CASE CompleteTask(w)
    <3>1. Move(row, [row EXCEPT !.status = "COMPLETED"])
      BY <2>2, <2>11 DEF CompleteTask, StatusOK, Move
    <3> QED BY <2>4, <2>5, <2>11, <2>12, <3>1 DEF CompleteTask, MarkCompleted
  <2> QED BY <1>2, <2>6, <2>7, <2>8, <2>9, <2>10, <2>11
<1> QED BY <1>1, <1>2 DEF WorkerAction, ProcessNextTask


(* The coordinator's statement, and the submission's. *)
CountsDown(skip) ==
  /\ DOMAIN tasks' = DOMAIN tasks
  /\ \A t \in DOMAIN tasks : tasks'[t] \in {tasks[t], DecrementedRow(tasks[t], skip)}

Submits(e, req) == CreateExecution(e) /\ tasks' = Inserted(e, req)

LEMMA CoordinatorMoves ==
  ASSUME CoordinatorAction
  PROVE  UNCHANGED tasks \/ \E skip \in BOOLEAN : CountsDown(skip)
<1>1. ASSUME NEW e, NEW ref, NEW skip \in BOOLEAN, NEW ready, NEW ok,
             DecrementInDegree(e, ref, skip, ready, ok)
      PROVE  CountsDown(skip)
  <2>1. tasks' \in {tasks, Decremented(e, ref, skip)}
    BY <1>1 DEF DecrementInDegree, Write
  <2> QED BY <2>1 DEF Decremented, CountsDown
<1>2. CASE HandleTaskCompleted
  BY <1>1, <1>2 DEF HandleTaskCompleted
<1>3. CASE HandleTaskTerminated
  BY <1>1, <1>3 DEF HandleTaskTerminated
<1> QED
  BY <1>2, <1>3 DEF CoordinatorAction, CoordinatorStep, SubscribeToEvents,
     SubscribeToTerminationEvents, ReceiveEvent, PushReady, CheckIfWorkflowFinished,
     CompleteWorkflow, ReadError

(* Everything any step does to the table. *)
LEMMA TableMoves ==
  ASSUME TypeOK, StageInv, [Next]_vars
  PROVE  \/ UNCHANGED tasks
         \/ \E t \in DOMAIN tasks : \E new :
              Move(tasks[t], new) /\ RowBecomes(tasks', t, new)
         \/ \E skip \in BOOLEAN : CountsDown(skip)
         \/ \E e \in Execution, req \in Requests : Submits(e, req)
<1>1. ASSUME NEW w \in Thread, WorkerAction(w)
      PROVE  \/ UNCHANGED tasks
             \/ \E t \in DOMAIN tasks : \E new :
                  Move(tasks[t], new) /\ RowBecomes(tasks', t, new)
  BY <1>1, WorkerMoves
<1>2. CASE CoordinatorAction
  BY <1>2, CoordinatorMoves
<1>3. ASSUME NEW e \in Execution, ServiceAction(e)
      PROVE  UNCHANGED tasks \/ \E req \in Requests : Submits(e, req)
  BY <1>3, Zenon DEF ServiceAction, SubmitStep, CreateExecution, EnqueueRootTask, Submits
<1>4. CASE (\E ch \in ChannelName : BusAction(ch)) \/ Crash \/ UNCHANGED vars
  BY <1>4 DEF BusAction, Crash, vars
<1> QED BY <1>1, <1>2, <1>3, <1>4 DEF Next

-----------------------------------------------------------------------------
(* Whoever crashes or errs between two statements, and whatever the         *)
(* statements answer, version and retry_count move together: the optimistic *)
(* lock of ClaimTask and IncrementRetryCount loses no attempt.              *)
THEOREM VersionsCountAttempts ==
  ASSUME "dupPush" \notin FaultKinds
  PROVE  Spec => []VersionCountsAttempts
<1>1. StageInv => VersionCountsAttempts
  BY DEF StageInv, GoodRow, VersionCountsAttempts
<1> QED BY <1>1, StageInvariant, PTL

(* A claim never finds a version other than the one its thread fetched:     *)
(* nobody has moved the task in between.                                    *)
THEOREM NoClaimConflicts ==
  ASSUME "dupPush" \notin FaultKinds
  PROVE  Spec => []ClaimsNeverConflict
<1>1. StageInv => ClaimsNeverConflict
  BY DEF StageInv, SnapshotOK, ClaimsNeverConflict, At
<1> QED BY <1>1, StageInvariant, PTL

(* With registered actions no task is given up before its last retry.       *)
THEOREM FailureOnlyAfterAllRetries ==
  ASSUME "dupPush" \notin FaultKinds, Registered
  PROVE  Spec => []FailsOnlyAfterAllRetries
<1>1. StageInv => FailsOnlyAfterAllRetries
  BY DEF StageInv, GoodRow, FailsOnlyAfterAllRetries
<1> QED BY <1>1, StageInvariant, PTL

(* A task that ended stays as it ended: no late statement of a thread, no   *)
(* decrement and no other submission revives it.                            *)
LEMMA TerminalStep ==
  ASSUME "dupPush" \notin FaultKinds, Registered, TypeOK, DeliveryInv, StageInv,
         [Next]_vars, NEW t \in DOMAIN tasks, tasks[t].status \in Terminal
  PROVE  tasks'[t].status = tasks[t].status /\ tasks'[t].version = tasks[t].version
<1>1. tasks[t] \in Task /\ GoodRow(tasks[t]) /\ tasks[t].inDegree \in Int
      /\ tasks[t].status \notin Waiting /\ tasks[t].status # "RUNNING"
  BY DEF TypeOK, TaskRepositoryTypeOK, StageInv, Task, Terminal, Waiting
<1>2. ASSUME NEW u \in DOMAIN tasks, NEW new, Move(tasks[u], new), RowBecomes(tasks', u, new)
      PROVE  tasks'[t] = tasks[t]
  <2>1. CASE u = t
    BY <1>1, <1>2, <2>1 DEF Move, RowBecomes, Task
  <2>2. CASE u # t
    BY <1>2, <2>2 DEF RowBecomes
  <2> QED BY <2>1, <2>2
<1>3. ASSUME NEW skip \in BOOLEAN, CountsDown(skip)
      PROVE  tasks'[t].status = tasks[t].status /\ tasks'[t].version = tasks[t].version
  <2>1. tasks[t].inDegree <= 0
    BY <1>1 DEF GoodRow, Waiting
  <2> QED BY <1>1, <1>3, <2>1, DecrementedRows DEF CountsDown
<1>4. ASSUME NEW e \in Execution, NEW req \in Requests, Submits(e, req)
      PROVE  tasks'[t] = tasks[t]
  <2>1. TaskIDs(e, req) \cap DOMAIN tasks = {}
    BY <1>4, FreshIDs DEF Submits
  <2> QED BY <1>4, <2>1 DEF Submits, Inserted
<1> QED BY <1>2, <1>3, <1>4, TableMoves

THEOREM TerminalTasksStay ==
  ASSUME "dupPush" \notin FaultKinds, Registered
  PROVE  Spec => TerminalIsFinal
<1>1. TypeOK /\ DeliveryInv /\ StageInv /\ [Next]_vars =>
        [\A t \in DOMAIN tasks :
           tasks[t].status \in Terminal =>
             /\ tasks'[t].status = tasks[t].status
             /\ tasks'[t].version = tasks[t].version]_tasks
  BY TerminalStep
<1> QED
  BY <1>1, TypeCorrect, DeliveryInvariant, StageInvariant, PTL DEF Spec, TerminalIsFinal


-----------------------------------------------------------------------------
(* The server implements TaskLifecycle: each step of the server is, seen    *)
(* through the mapping, a step of the life of one task, the submission of   *)
(* one batch, or nothing.                                                   *)
AbstractRow(row) == [state |-> AbstractState(row.status), retries |-> row.retryCount]

LEMMA MoveIsLifecycleStep ==
  ASSUME Registered, TypeOK, NEW t \in DOMAIN tasks, NEW new,
         Move(tasks[t], new), RowBecomes(tasks', t, new)
  PROVE  \/ UNCHANGED AbstractTask
         \/ new # tasks[t] /\ new.status = "RUNNING" /\ Lifecycle!Start(t)
         \/ new # tasks[t] /\ new.status = "SKIPPED" /\ Lifecycle!Skip(t)
         \/ Lifecycle!Complete(t) \/ Lifecycle!Retry(t) \/ Lifecycle!Fail(t)
<1> DEFINE row == tasks[t]
<1>1. row \in Task
  BY DEF TypeOK, TaskRepositoryTypeOK
<1>2. /\ AbstractTask' = [u \in DOMAIN tasks |->
                            IF u = t THEN AbstractRow(new) ELSE AbstractTask[u]]
      /\ AbstractTask[t] = AbstractRow(row) /\ DOMAIN AbstractTask = DOMAIN tasks
  BY DEF RowBecomes, AbstractTask, AbstractRow
<1>3. ASSUME NEW state, AbstractRow(new) = [AbstractRow(row) EXCEPT !.state = state]
      PROVE  AbstractTask' = [AbstractTask EXCEPT ![t].state = state]
  BY <1>2, <1>3 DEF AbstractTask
<1>4. CASE new = row
  BY <1>2, <1>4 DEF AbstractTask
<1>5. CASE row.status \in Waiting /\ new = [row EXCEPT !.status = "RUNNING",
                                                       !.version = row.version + 1]
  <2>1. AbstractRow(row).state = "WAITING"
        /\ AbstractRow(new) = [AbstractRow(row) EXCEPT !.state = "RUNNING"]
    BY <1>1, <1>5 DEF AbstractRow, AbstractState, Waiting, Task
  <2>2. Lifecycle!Start(t)
    BY <1>2, <1>3, <2>1 DEF Lifecycle!Start, Lifecycle!Move
  <2> QED BY <1>1, <1>5, <2>2 DEF Waiting, Task
<1>6. CASE row.status \in Waiting /\ new = [row EXCEPT !.status = "SKIPPED"]
  <2>1. AbstractRow(row).state = "WAITING"
        /\ AbstractRow(new) = [AbstractRow(row) EXCEPT !.state = "SKIPPED"]
    BY <1>1, <1>6 DEF AbstractRow, AbstractState, Waiting, Task
  <2>2. Lifecycle!Skip(t)
    BY <1>2, <1>3, <2>1 DEF Lifecycle!Skip, Lifecycle!Move
  <2> QED BY <1>1, <1>6, <2>2 DEF Waiting, Task
<1>7. CASE row.status = "RUNNING" /\ new = [row EXCEPT !.status = "COMPLETED"]
  <2>1. AbstractRow(row).state = "RUNNING"
        /\ AbstractRow(new) = [AbstractRow(row) EXCEPT !.state = "COMPLETED"]
    BY <1>1, <1>7 DEF AbstractRow, AbstractState, Task
  <2>2. Lifecycle!Complete(t)
    BY <1>2, <1>3, <2>1 DEF Lifecycle!Complete, Lifecycle!Move
  <2> QED BY <2>2
<1>8. CASE /\ row.status = "RUNNING" /\ row.retryCount = MaxRetries
           /\ new = [row EXCEPT !.status = "FAILED"]
  <2>1. AbstractRow(row).state = "RUNNING" /\ AbstractRow(row).retries = MaxRetries
        /\ AbstractRow(new) = [AbstractRow(row) EXCEPT !.state = "FAILED"]
    BY <1>1, <1>8 DEF AbstractRow, AbstractState, Task
  <2>2. Lifecycle!Fail(t)
    BY <1>2, <1>3, <2>1 DEF Lifecycle!Fail, Lifecycle!Move
  <2> QED BY <2>2
<1>9. CASE /\ row.status = "RUNNING" /\ row.retryCount < MaxRetries
           /\ new = [row EXCEPT !.retryCount = @ + 1, !.status = "PENDING",
                                !.version = row.version + 1]
  <2>1. /\ AbstractTask[t].state = "RUNNING" /\ AbstractTask[t].retries < MaxRetries
        /\ AbstractRow(new) = [state |-> "WAITING", retries |-> AbstractTask[t].retries + 1]
    <3>1. new.status = "PENDING" /\ new.retryCount = row.retryCount + 1
      BY <1>1, <1>9 DEF Task
    <3>2. AbstractRow(new) = [state |-> "WAITING", retries |-> row.retryCount + 1]
      BY <3>1 DEF AbstractRow, AbstractState
    <3>3. AbstractRow(row) = [state |-> "RUNNING", retries |-> row.retryCount]
      BY <1>9 DEF AbstractRow, AbstractState
    <3> QED BY <1>2, <1>9, <3>2, <3>3
  <2>2. AbstractTask' = [AbstractTask EXCEPT ![t].state = "WAITING", ![t].retries = @ + 1]
    <3>1. AbstractTask \in [DOMAIN tasks -> [state: Lifecycle!State, retries: Nat]]
      <4>1. ASSUME NEW u \in DOMAIN tasks
            PROVE  /\ tasks[u].retryCount \in Nat
                   /\ AbstractState(tasks[u].status) \in Lifecycle!State
        <5>1. tasks[u].retryCount \in Nat /\ tasks[u].status \in TaskStatus
          BY DEF TypeOK, TaskRepositoryTypeOK, Task
        <5> QED BY <5>1 DEF TaskStatus, AbstractState, Lifecycle!State
      <4> QED BY <4>1 DEF AbstractTask
    <3> QED BY <1>2, <2>1, <3>1
  <2>3. Lifecycle!Retry(t)
    BY <1>2, <2>1, <2>2 DEF Lifecycle!Retry
  <2> QED BY <2>3
<1> QED BY <1>4, <1>5, <1>6, <1>7, <1>8, <1>9 DEF Move

LEMMA SubmissionIsLifecycleStep ==
  ASSUME DeliveryInv, NEW e \in Execution, NEW req \in Requests, Submits(e, req)
  PROVE  Lifecycle!Submit(TaskIDs(e, req))
<1>1. TaskIDs(e, req) \cap DOMAIN tasks = {}
  BY FreshIDs DEF Submits
<1>2. ASSUME NEW t \in TaskIDs(e, req)
      PROVE  AbstractRow(ToTasks(e, req)[t]) = Lifecycle!New
  BY DEF ToTasks, ToTask, AbstractRow, AbstractState, Lifecycle!New
<1>3. AbstractTask' = [t \in TaskIDs(e, req) \cup DOMAIN AbstractTask |->
                         IF t \in TaskIDs(e, req) THEN Lifecycle!New ELSE AbstractTask[t]]
  BY <1>1, <1>2 DEF AbstractTask, AbstractRow, Submits, Inserted
<1> QED BY <1>1, <1>3 DEF Lifecycle!Submit, AbstractTask

LEMMA DecrementIsNoLifecycleStep ==
  ASSUME TypeOK, StageInv, NEW skip \in BOOLEAN, CountsDown(skip)
  PROVE  UNCHANGED AbstractTask
<1>1. \A t \in DOMAIN tasks : tasks[t] \in Task /\ GoodRow(tasks[t])
  BY DEF TypeOK, TaskRepositoryTypeOK, StageInv
<1>2. \A t \in DOMAIN tasks :
        /\ AbstractState(tasks'[t].status) = AbstractState(tasks[t].status)
        /\ tasks'[t].retryCount = tasks[t].retryCount
  BY <1>1, DecrementedRows DEF CountsDown
<1> QED BY <1>2 DEF CountsDown, AbstractTask

LEMMA LifecycleStep ==
  ASSUME Registered, TypeOK, DeliveryInv, StageInv, [Next]_vars
  PROVE  [Lifecycle!Next]_AbstractTask
<1>1. ASSUME NEW skip \in BOOLEAN, CountsDown(skip) PROVE UNCHANGED AbstractTask
  BY <1>1, DecrementIsNoLifecycleStep
<1>2. UNCHANGED tasks => UNCHANGED AbstractTask
  BY DEF AbstractTask
<1>3. ASSUME NEW t \in DOMAIN tasks, NEW new, Move(tasks[t], new), RowBecomes(tasks', t, new)
      PROVE  UNCHANGED AbstractTask \/ Lifecycle!Step(t)
  BY <1>3, MoveIsLifecycleStep DEF Lifecycle!Step
<1>4. DOMAIN AbstractTask = DOMAIN tasks
  BY DEF AbstractTask
<1> QED
  BY <1>1, <1>2, <1>3, <1>4, SubmissionIsLifecycleStep, TableMoves DEF Lifecycle!Next

THEOREM LifecycleRefinement ==
  ASSUME "dupPush" \notin FaultKinds, Registered
  PROVE  Spec => ImplementsLifecycle
<1>1. Init => Lifecycle!Init
  BY DEF Init, TaskRepositoryInit, AbstractTask, Lifecycle!Init
<1>2. TypeOK /\ DeliveryInv /\ StageInv /\ [Next]_vars => [Lifecycle!Next]_AbstractTask
  BY LifecycleStep
<1> QED
  BY <1>1, <1>2, TypeCorrect, DeliveryInvariant, StageInvariant, PTL
     DEF Spec, ImplementsLifecycle, Lifecycle!Spec
=============================================================================
