------------------------------ MODULE LockProofs ------------------------------
(***************************************************************************)
(* What the optimistic lock gives by itself, with no assumption on the     *)
(* faults, the requests or the registry: a task may be in the lists any    *)
(* number of times and with any number of threads.                         *)
(***************************************************************************)
EXTENDS GoTempoProofs

(* A snapshot is never newer than its row, and as new as the row only if it *)
(* has the row's retry count.                                               *)
Snapshot(th, row) ==
  /\ th.version <= row.version
  /\ th.version = row.version => th.retryCount = row.retryCount
  /\ th.pc = "retry" => th.retryCount < MaxRetries

LockInv ==
  /\ \A w \in Thread :
       thread[w].pc \notin {"pop", "find"} => Snapshot(thread[w], Row(w))
  /\ RetryBudget /\ ClaimsExclusivePerVersion
  /\ \A e \in Execution : submit[e].pc = "new" => \A t \in DOMAIN tasks : t[1] # e

-----------------------------------------------------------------------------
(* What statements do to version and retry count: every UPDATE that touches *)
(* the count moves the version on.                                          *)
Advances(table) ==
  \A t \in DOMAIN tasks :
    /\ t \in DOMAIN table
    /\ table[t].version >= tasks[t].version
    /\ table[t].version = tasks[t].version => table[t].retryCount = tasks[t].retryCount
    /\ table[t].retryCount <= MaxRetries

(* The thread goes on with its task and snapshot, *)
KeepsSnapshot(th, new) ==
  /\ new.task = th.task /\ new.version = th.version /\ new.retryCount = th.retryCount
  /\ th.pc \notin {"pop", "find", "claim"}
  /\ new.pc \notin {"pop", "find"}
  /\ th.pc \in {"skip", "publishSkipped", "pushRetry"} =>
       new.pc \in {"skip", "publishSkipped", "claim", "pushRetry"}
  /\ new.pc = "retry" => th.retryCount < MaxRetries

(* ... fetches the row, *)
Fetches(th, new) ==
  /\ new.pc \in {"skip", "claim"} /\ new.task = th.task /\ th.pc = "find"
  /\ UNCHANGED tasks
  /\ new.version = tasks[th.task].version /\ new.retryCount = tasks[th.task].retryCount

(* ... or claims it. *)
Claims(th, new) ==
  /\ th.pc = "claim" /\ new.pc = "execute" /\ new.task = th.task
  /\ th.version = tasks[th.task].version
  /\ new.version = th.version + 1 /\ new.retryCount = th.retryCount
  /\ tasks'[th.task].version = new.version
  /\ tasks'[th.task].retryCount = tasks[th.task].retryCount

LEMMA LockKept ==
  ASSUME TypeOK, TypeOK', LockInv, Advances(tasks'), NEW w \in Thread,
         \A v \in Thread \ {w} : thread'[v] = thread[v],
         \/ thread'[w].pc \in {"pop", "find"} \/ thread'[w] = thread[w]
         \/ KeepsSnapshot(thread[w], thread'[w])
         \/ Fetches(thread[w], thread'[w]) \/ Claims(thread[w], thread'[w]),
         \A t \in DOMAIN tasks' : tasks'[t].retryCount <= MaxRetries,
         \A e \in Execution : submit'[e].pc = "new" => \A t \in DOMAIN tasks' : t[1] # e
  PROVE  LockInv'
<1>1. /\ \A v \in Thread : /\ thread[v].version \in Nat /\ thread[v].retryCount \in Nat
                           /\ thread[v].pc # "pop" => thread[v].task \in DOMAIN tasks
      /\ \A t \in DOMAIN tasks : tasks[t].version \in Nat /\ tasks[t].retryCount \in Nat
      /\ \A t \in DOMAIN tasks' : tasks'[t].version \in Nat
  BY DEF TypeOK, WorkerTypeOK, TaskRepositoryTypeOK, Task
<1>2. ASSUME NEW v \in Thread, thread[v].pc \notin {"pop", "find"}
      PROVE  /\ thread[v].version <= tasks'[thread[v].task].version
             /\ thread[v].version = tasks'[thread[v].task].version =>
                  thread[v].retryCount = tasks'[thread[v].task].retryCount
             /\ thread[v].version <= tasks[thread[v].task].version
  BY <1>1, <1>2 DEF LockInv, Snapshot, Row, Advances
<1>3. ASSUME NEW v \in Thread, thread'[v].pc \notin {"pop", "find"}
      PROVE  Snapshot(thread'[v], tasks'[thread'[v].task])
  <2>1. CASE thread'[v] = thread[v]
    BY <1>2, <1>3, <2>1 DEF Snapshot, LockInv
  <2>2. CASE v = w /\ KeepsSnapshot(thread[w], thread'[w])
    BY <1>2, <2>2 DEF Snapshot, KeepsSnapshot
  <2>3. CASE v = w /\ Fetches(thread[w], thread'[w])
    BY <1>1, <2>3 DEF Snapshot, Fetches
  <2>4. CASE v = w /\ Claims(thread[w], thread'[w])
    <3>1. thread[w].retryCount = tasks[thread[w].task].retryCount
      BY <2>4 DEF Claims, LockInv, Snapshot, Row
    <3>2. thread'[w].version \in Nat
      BY <1>1, <2>4 DEF Claims
    <3> QED BY <2>4, <3>1, <3>2 DEF Snapshot, Claims
  <2> QED BY <1>3, <2>1, <2>2, <2>3, <2>4
<1>4. ASSUME NEW t \in DOMAIN tasks', NEW v \in Thread, NEW u \in Thread, v # u,
             Claimant(v, t)', Claimant(u, t)'
      PROVE  thread'[v].version # thread'[u].version
  <2>1. ASSUME NEW x \in Thread, Claimant(x, t)'
        PROVE  \/ /\ Claimant(x, t) /\ thread'[x].version = thread[x].version
                  /\ t \in DOMAIN tasks /\ thread[x].version <= tasks[t].version
                  /\ thread[x].version \in Nat
               \/ /\ x = w /\ t \in DOMAIN tasks
                  /\ thread'[x].version = tasks[t].version + 1 /\ tasks[t].version \in Nat
    <3>1. CASE thread'[x] = thread[x]
      BY <1>1, <1>2, <2>1, <3>1 DEF Claimant, Holds
    <3>2. CASE x = w /\ KeepsSnapshot(thread[w], thread'[w])
      BY <1>1, <1>2, <2>1, <3>2 DEF Claimant, Holds, KeepsSnapshot
    <3>3. CASE x = w /\ Fetches(thread[w], thread'[w])
      BY <2>1, <3>3 DEF Claimant, Holds, Fetches
    <3>4. CASE x = w /\ Claims(thread[w], thread'[w])
      BY <1>1, <2>1, <3>4 DEF Claimant, Holds, Claims
    <3> QED BY <2>1, <3>1, <3>2, <3>3, <3>4 DEF Claimant, Holds
  <2>2. t \in DOMAIN tasks /\ tasks[t].version \in Nat
    BY <1>1, <1>4, <2>1
  <2>3. Claimant(v, t) /\ Claimant(u, t) => thread[v].version # thread[u].version
    BY <1>4, <2>2 DEF LockInv, ClaimsExclusivePerVersion
  <2> QED BY <1>4, <2>1, <2>2, <2>3
<1> QED BY <1>3, <1>4 DEF LockInv, RetryBudget, ClaimsExclusivePerVersion, Row


-----------------------------------------------------------------------------
LEMMA StatementsAdvance ==
  ASSUME TypeOK, LockInv, NEW w \in Thread, thread[w].pc # "pop"
  PROVE  LET t == thread[w].task
             version == thread[w].version
         IN  /\ Advances(tasks) /\ \A status : Advances(Marked(t, status))
             /\ RowMatches(t, version) => Advances(Claimed(t, version))
             /\ RowMatches(t, version) /\ thread[w].pc = "retry" =>
                  Advances(Retried(t, version))
<1> DEFINE t == thread[w].task
           version == thread[w].version
<1>1. TableOK(tasks) /\ t \in DOMAIN tasks
  BY DEF TypeOK, WorkerTypeOK, TaskRepositoryTypeOK, TableOK
<1>2. \A u \in DOMAIN tasks : /\ tasks[u].version \in Nat /\ tasks[u].retryCount \in Nat
                              /\ tasks[u].retryCount <= MaxRetries
  BY <1>1 DEF TableOK, Task, LockInv, RetryBudget
<1>3. Advances(tasks) /\ \A status : Advances(Marked(t, status))
  BY <1>1, <1>2 DEF Advances, Marked, TableOK, Task
<1>4. ASSUME RowMatches(t, version) PROVE Advances(Claimed(t, version))
  BY <1>1, <1>2, <1>4 DEF Advances, Claimed, TableOK, Task, RowMatches
<1>5. ASSUME RowMatches(t, version), thread[w].pc = "retry" PROVE Advances(Retried(t, version))
  <2>1. tasks[t].retryCount < MaxRetries
    BY <1>5 DEF LockInv, Snapshot, Row, RowMatches
  <2>2. tasks[t].retryCount + 1 <= MaxRetries
    BY <1>1, <1>2, <2>1, MaxRetriesAssumption
  <2>3. /\ DOMAIN Retried(t, version) = DOMAIN tasks
        /\ Retried(t, version)[t].version = tasks[t].version + 1
        /\ Retried(t, version)[t].retryCount = tasks[t].retryCount + 1
        /\ \A u \in DOMAIN tasks \ {t} : Retried(t, version)[u] = tasks[u]
    BY <1>1, <1>5 DEF Retried, TableOK, Task, RowMatches
  <2> QED BY <1>1, <1>2, <2>2, <2>3 DEF Advances
<1> QED BY <1>3, <1>4, <1>5

LEMMA WorkerKeepsLock ==
  ASSUME TypeOK, TypeOK', LockInv, NEW w \in Thread, WorkerAction(w)
  PROVE  LockInv'
<1> DEFINE t == thread[w].task
           version == thread[w].version
<1> USE DEF At
<1>1. WorkerTypeOK /\ UNCHANGED submit
  BY DEF TypeOK, WorkerAction
<1>2. ASSUME Advances(tasks'), DOMAIN tasks' = DOMAIN tasks,
             \A v \in Thread \ {w} : thread'[v] = thread[v],
             \/ thread'[w].pc \in {"pop", "find"}
             \/ KeepsSnapshot(thread[w], thread'[w])
             \/ Fetches(thread[w], thread'[w]) \/ Claims(thread[w], thread'[w])
      PROVE  LockInv'
  <2>1. \A u \in DOMAIN tasks' : tasks'[u].retryCount <= MaxRetries
    BY <1>2 DEF Advances
  <2>2. \A e \in Execution : submit'[e].pc = "new" => \A u \in DOMAIN tasks' : u[1] # e
    BY <1>1, <1>2 DEF LockInv
  <2> QED BY <1>2, <2>1, <2>2, LockKept
<1>3. Advances(tasks)
  BY MaxRetriesAssumption DEF Advances, LockInv, RetryBudget, TypeOK, TaskRepositoryTypeOK,
     Task
<1>4. ASSUME NEW pc, Goto(w, pc), thread[w].pc \notin {"pop", "find", "claim"},
             pc \notin {"pop", "find"},
             thread[w].pc \in {"skip", "publishSkipped", "pushRetry"} =>
               pc \in {"skip", "publishSkipped", "claim", "pushRetry"},
             pc = "retry" => thread[w].retryCount < MaxRetries
      PROVE  /\ \A v \in Thread \ {w} : thread'[v] = thread[v]
             /\ KeepsSnapshot(thread[w], thread'[w])
  BY <1>1, <1>4 DEF WorkerTypeOK, Goto, KeepsSnapshot
<1>5. ASSUME Return(w)
      PROVE  thread'[w].pc = "pop" /\ \A v \in Thread \ {w} : thread'[v] = thread[v]
  BY <1>1, <1>5, ThreadMoves
<1>6. ASSUME NEW table, NEW ok, Write(table, ok), Advances(table),
             DOMAIN table = DOMAIN tasks
      PROVE  Advances(tasks') /\ DOMAIN tasks' = DOMAIN tasks
  BY <1>3, <1>6 DEF Write
<1>7. ASSUME thread[w].pc # "pop"
      PROVE  /\ \A status : Advances(Marked(t, status)) /\ DOMAIN Marked(t, status) = DOMAIN tasks
             /\ DOMAIN Claimed(t, version) = DOMAIN tasks
             /\ DOMAIN Retried(t, version) = DOMAIN tasks
             /\ RowMatches(t, version) => Advances(Claimed(t, version))
             /\ RowMatches(t, version) /\ thread[w].pc = "retry" =>
                  Advances(Retried(t, version))
  <2>1. /\ \A status : DOMAIN Marked(t, status) = DOMAIN tasks
        /\ DOMAIN Claimed(t, version) = DOMAIN tasks
        /\ DOMAIN Retried(t, version) = DOMAIN tasks
    BY DEF Marked, Claimed, Retried
  <2>2. /\ \A status : Advances(Marked(t, status))
        /\ RowMatches(t, version) => Advances(Claimed(t, version))
        /\ RowMatches(t, version) /\ thread[w].pc = "retry" => Advances(Retried(t, version))
    BY <1>7, StatementsAdvance
  <2> QED BY <2>1, <2>2
<1>8. CASE PopTask(w)
  <2>1. \/ Return(w)
        \/ \E u : Become(w, [Idle EXCEPT !.pc = "find", !.task = u])
    BY <1>8 DEF PopTask
  <2>2. UNCHANGED tasks
    BY <1>8 DEF PopTask
  <2>3. ASSUME NEW u, Become(w, [Idle EXCEPT !.pc = "find", !.task = u])
        PROVE  thread'[w].pc = "find" /\ \A v \in Thread \ {w} : thread'[v] = thread[v]
    <3>1. [Idle EXCEPT !.pc = "find", !.task = u].pc = "find"
      BY DEF Idle
    <3> QED BY <1>1, <2>3, <3>1, ThreadMoves
  <2>4. CASE Return(w)
    BY <1>2, <1>3, <1>5, <2>2, <2>4
  <2>5. CASE thread'[w].pc = "find" /\ \A v \in Thread \ {w} : thread'[v] = thread[v]
    BY <1>2, <1>3, <2>2, <2>5
  <2> QED BY <2>1, <2>3, <2>4, <2>5
<1>9. CASE FindTask(w)
  <2>1. CASE Become(w, Fetched(t)) /\ UNCHANGED tasks
    <3>1. thread'[w] = Fetched(t) /\ \A v \in Thread \ {w} : thread'[v] = thread[v]
      BY <1>1, <2>1, ThreadMoves
    <3>2. thread[w].pc = "find"
      BY <1>9 DEF FindTask
    <3>3. Fetches(thread[w], thread'[w])
      BY <2>1, <3>1, <3>2 DEF Fetches, Fetched
    <3> QED BY <1>2, <1>3, <2>1, <3>1, <3>3
  <2>2. CASE Return(w) /\ UNCHANGED tasks
    BY <1>2, <1>3, <1>5, <2>2
  <2> QED BY <1>9, <2>1, <2>2 DEF FindTask, ReadError
<1>10. CASE SkipTask(w)
  <2>1. \E ok \in BOOLEAN : MarkSkipped(t, ok)
    BY <1>10 DEF SkipTask
  <2>2. Advances(tasks') /\ DOMAIN tasks' = DOMAIN tasks
    BY <1>6, <1>7, <1>10, <2>1 DEF SkipTask, MarkSkipped
  <2> QED BY <1>2, <1>4, <1>5, <1>10, <2>2 DEF SkipTask
<1>11. CASE PublishSkipped(w) \/ PushRetry(w) \/ PublishFailed(w) \/ PublishCompleted(w)
  BY <1>2, <1>3, <1>5, <1>11 DEF PublishSkipped, PushRetry, PublishFailed, PublishCompleted
<1>12. CASE Claim(w)
  <2>1. Advances(tasks') /\ DOMAIN tasks' = DOMAIN tasks
    BY <1>3, <1>6, <1>7, <1>12 DEF Claim, ClaimTask
  <2>2. CASE ClaimTask(t, version, TRUE) /\ Become(w, AfterClaim(thread[w]))
    <3>1. /\ thread'[w] = AfterClaim(thread[w])
          /\ \A v \in Thread \ {w} : thread'[v] = thread[v]
      BY <1>1, <2>2, ThreadMoves
    <3>2. version = tasks[t].version /\ tasks' = Claimed(t, version)
      BY <2>2 DEF ClaimTask, Write, RowMatches
    <3>3. t \in DOMAIN tasks /\ thread[w].pc = "claim" /\ tasks[t] \in Task
      BY <1>12 DEF Claim, TypeOK, WorkerTypeOK, TaskRepositoryTypeOK
    <3>4. tasks'[t].version = version + 1 /\ tasks'[t].retryCount = tasks[t].retryCount
      BY <3>2, <3>3 DEF Claimed, Task
    <3>5. /\ thread'[w].pc = "execute" /\ thread'[w].task = t
          /\ thread'[w].version = version + 1 /\ thread'[w].retryCount = thread[w].retryCount
      BY <1>1, <3>1 DEF AfterClaim, WorkerTypeOK
    <3>6. Claims(thread[w], thread'[w])
      BY <3>2, <3>3, <3>4, <3>5 DEF Claims
    <3> QED BY <1>2, <2>1, <3>1, <3>6
  <2>3. CASE Return(w)
    BY <1>2, <1>5, <2>1, <2>3
  <2> QED BY <1>12, <2>2, <2>3 DEF Claim
<1>13. CASE ExecuteHandler(w) \/ FailUnknown(w)
  <2>1. UNCHANGED tasks /\ thread[w].pc \in {"execute", "failUnknown"}
    BY <1>13 DEF ExecuteHandler, FailUnknown
  <2>2. PICK pc \in {"markCompleted", FailurePC(thread[w])} : Goto(w, pc)
    BY <1>13 DEF ExecuteHandler, FailUnknown
  <2>3. /\ pc \in {"markCompleted", "retry", "markFailed"}
        /\ pc = "retry" => thread[w].retryCount < MaxRetries
    BY <2>2 DEF FailurePC, CanRetry
  <2> QED BY <1>2, <1>3, <1>4, <2>1, <2>2, <2>3
<1>14. CASE MarkUnknown(w) \/ FailTask(w) \/ CompleteTask(w)
  <2>1. \E ok \in BOOLEAN : MarkFailed(t, ok) \/ MarkCompleted(t, ok)
    BY <1>14 DEF MarkUnknown, FailTask, CompleteTask
  <2>2. Advances(tasks') /\ DOMAIN tasks' = DOMAIN tasks
    BY <1>6, <1>7, <1>14, <2>1 DEF MarkUnknown, FailTask, CompleteTask, MarkFailed,
       MarkCompleted
  <2> QED BY <1>2, <1>4, <1>14, <2>2 DEF MarkUnknown, FailTask, CompleteTask
<1>15. CASE PublishUnknown(w) \/ FailWorkflow(w)
  BY <1>2, <1>3, <1>4, <1>15 DEF PublishUnknown, FailWorkflow
<1>16. CASE Retry(w)
  <2>1. Advances(tasks') /\ DOMAIN tasks' = DOMAIN tasks
    BY <1>3, <1>6, <1>7, <1>16 DEF Retry, IncrementRetryCount
  <2> QED BY <1>2, <1>4, <1>5, <1>16, <2>1 DEF Retry
<1> QED
  BY <1>8, <1>9, <1>10, <1>11, <1>12, <1>13, <1>14, <1>15, <1>16 DEF WorkerAction,
     ProcessNextTask


-----------------------------------------------------------------------------
(* Steps in which threads stay where they are or are lost in a crash. *)
LEMMA ThreadsRest ==
  ASSUME TypeOK, TypeOK', LockInv, Advances(tasks'),
         \A v \in Thread : thread'[v] = thread[v] \/ thread'[v].pc = "pop",
         \A t \in DOMAIN tasks' : tasks'[t].retryCount <= MaxRetries,
         \A e \in Execution : submit'[e].pc = "new" => \A t \in DOMAIN tasks' : t[1] # e
  PROVE  LockInv'
<1>1. /\ \A v \in Thread : /\ thread[v].version \in Nat /\ thread[v].retryCount \in Nat
                           /\ thread[v].pc # "pop" => thread[v].task \in DOMAIN tasks
      /\ \A t \in DOMAIN tasks : tasks[t].version \in Nat /\ tasks[t].retryCount \in Nat
      /\ \A t \in DOMAIN tasks' : tasks'[t].version \in Nat
  BY DEF TypeOK, WorkerTypeOK, TaskRepositoryTypeOK, Task
<1>2. ASSUME NEW v \in Thread, thread'[v].pc \notin {"pop", "find"}
      PROVE  Snapshot(thread'[v], tasks'[thread'[v].task])
  <2>1. thread'[v] = thread[v] /\ thread[v].task \in DOMAIN tasks
        /\ Snapshot(thread[v], tasks[thread[v].task])
    BY <1>1, <1>2 DEF LockInv, Row
  <2> QED BY <1>1, <2>1 DEF Snapshot, Advances
<1>3. ASSUME NEW t \in DOMAIN tasks', NEW v \in Thread, NEW u \in Thread, v # u,
             Claimant(v, t)', Claimant(u, t)'
      PROVE  thread'[v].version # thread'[u].version
  <2>1. /\ thread'[v] = thread[v] /\ thread'[u] = thread[u]
        /\ Claimant(v, t) /\ Claimant(u, t)
    BY <1>3 DEF Claimant, Holds
  <2>2. t \in DOMAIN tasks
    BY <1>1, <2>1 DEF Claimant, Holds
  <2> QED BY <1>3, <2>1, <2>2 DEF LockInv, ClaimsExclusivePerVersion
<1> QED BY <1>2, <1>3 DEF LockInv, RetryBudget, ClaimsExclusivePerVersion, Row

LEMMA SameTableAdvances ==
  ASSUME TypeOK, LockInv, UNCHANGED tasks
  PROVE  Advances(tasks')
BY MaxRetriesAssumption DEF Advances, LockInv, RetryBudget, TypeOK, TaskRepositoryTypeOK, Task

(* Neither decrement touches version or retry count. *)
LEMMA CoordinatorKeepsLock ==
  ASSUME TypeOK, TypeOK', LockInv, CoordinatorAction
  PROVE  LockInv'
<1>1. UNCHANGED <<thread, submit>>
  BY DEF CoordinatorAction
<1>2. TableOK(tasks)
  BY DEF TypeOK, TaskRepositoryTypeOK, TableOK
<1>3. ASSUME NEW ev, NEW ref, NEW skip \in BOOLEAN
      PROVE  /\ Advances(Decremented(ev, ref, skip))
             /\ DOMAIN Decremented(ev, ref, skip) = DOMAIN tasks
  <2>1. \A t \in DOMAIN tasks :
          /\ DecrementedRow(tasks[t], skip).version = tasks[t].version
          /\ DecrementedRow(tasks[t], skip).retryCount = tasks[t].retryCount
          /\ tasks[t].version \in Nat /\ tasks[t].retryCount <= MaxRetries
    BY <1>2 DEF TableOK, Task, DecrementedRow, LockInv, RetryBudget
  <2> QED BY <2>1 DEF Advances, Decremented
<1>4. \/ UNCHANGED tasks
      \/ \E ev, ref : \E skip \in BOOLEAN : tasks' = Decremented(ev, ref, skip)
  <2>1. ASSUME NEW ev, NEW ref, NEW skip \in BOOLEAN, NEW ready, NEW ok \in BOOLEAN,
               DecrementInDegree(ev, ref, skip, ready, ok)
        PROVE  UNCHANGED tasks \/ tasks' = Decremented(ev, ref, skip)
    BY <2>1 DEF DecrementInDegree, Write
  <2>2. CASE HandleTaskCompleted
    BY <2>1, <2>2 DEF HandleTaskCompleted
  <2>3. CASE HandleTaskTerminated
    BY <2>1, <2>3 DEF HandleTaskTerminated
  <2> QED
    BY <2>2, <2>3 DEF CoordinatorAction, CoordinatorStep, SubscribeToEvents,
       SubscribeToTerminationEvents, ReceiveEvent, PushReady, CheckIfWorkflowFinished,
       CompleteWorkflow, ReadError
<1>5. Advances(tasks') /\ DOMAIN tasks' = DOMAIN tasks
  BY <1>3, <1>4, SameTableAdvances
<1>6. \A t \in DOMAIN tasks' : tasks'[t].retryCount <= MaxRetries
  BY <1>5 DEF Advances
<1>7. \A e \in Execution : submit'[e].pc = "new" => \A t \in DOMAIN tasks' : t[1] # e
  BY <1>1, <1>5 DEF LockInv
<1> QED BY <1>1, <1>5, <1>6, <1>7, ThreadsRest

(* A submission brings rows that no thread has seen. *)
LEMMA ServiceKeepsLock ==
  ASSUME TypeOK, TypeOK', LockInv, NEW e \in Execution, ServiceAction(e)
  PROVE  LockInv'
<1>1. UNCHANGED thread
  BY DEF ServiceAction
<1>2. \A R : \E pc \in {"created", "push", "error"} : AfterCreate(R) = Submitted(pc, R)
  BY DEF AfterCreate
<1>3. ASSUME NEW roots, \/ submit' = [submit EXCEPT ![e] = AfterCreate(roots)]
                        \/ submit' = [submit EXCEPT ![e] = Submitted("error", roots)]
      PROVE  /\ submit'[e].pc # "new"
             /\ \A e2 \in Execution \ {e} : submit'[e2] = submit[e2]
  <2>1. PICK pc \in {"created", "push", "error"} :
          submit' = [submit EXCEPT ![e] = Submitted(pc, roots)]
    BY <1>2, <1>3
  <2> QED BY <2>1, SubmissionMoves
<1>4. /\ submit'[e].pc # "new"
      /\ \A e2 \in Execution \ {e} : submit'[e2] = submit[e2]
  <2>1. CASE CreateExecution(e)
    BY <1>3, <2>1 DEF CreateExecution
  <2>2. CASE EnqueueRootTask(e)
    BY <1>3, <2>2 DEF EnqueueRootTask, AfterPush
  <2> QED BY <2>1, <2>2 DEF ServiceAction, SubmitStep
<1>5. CASE UNCHANGED tasks
  BY <1>1, <1>4, <1>5, SameTableAdvances, ThreadsRest DEF LockInv, RetryBudget
<1>6. ASSUME NEW req \in Requests, tasks' = Inserted(e, req), submit[e].pc = "new"
      PROVE  LockInv'
  <2>1. \A t \in TaskIDs(e, req) : t[1] = e /\ t \notin DOMAIN tasks
    BY <1>6 DEF TaskIDs, LockInv
  <2>2. /\ DOMAIN tasks' = DOMAIN tasks \cup TaskIDs(e, req)
        /\ \A t \in DOMAIN tasks : tasks'[t] = tasks[t]
        /\ \A t \in TaskIDs(e, req) : tasks'[t] = ToTasks(e, req)[t]
    BY <1>6, <2>1 DEF Inserted
  <2>3. \A t \in TaskIDs(e, req) : tasks'[t].retryCount = 0
    BY <2>2 DEF ToTasks, ToTask
  <2>4. Advances(tasks')
    BY <2>2 DEF Advances, LockInv, RetryBudget, TypeOK, TaskRepositoryTypeOK, Task
  <2>5. \A t \in DOMAIN tasks' : tasks'[t].retryCount <= MaxRetries
    BY <2>2, <2>3, MaxRetriesAssumption DEF LockInv, RetryBudget
  <2>6. \A e2 \in Execution : submit'[e2].pc = "new" => \A t \in DOMAIN tasks' : t[1] # e2
    BY <1>4, <2>1, <2>2 DEF LockInv
  <2> QED BY <1>1, <2>4, <2>5, <2>6, ThreadsRest
<1> QED
  BY <1>5, <1>6 DEF ServiceAction, SubmitStep, CreateExecution, EnqueueRootTask

LEMMA NextLock ==
  ASSUME TypeOK, TypeOK', LockInv, [Next]_vars
  PROVE  LockInv'
<1>1. ASSUME UNCHANGED tasks, \A v \in Thread : thread'[v] = thread[v] \/ thread'[v].pc = "pop",
             \A e \in Execution : submit'[e].pc = "new" => submit[e].pc = "new"
      PROVE  LockInv'
  BY <1>1, SameTableAdvances, ThreadsRest DEF LockInv, RetryBudget
<1>2. CASE \E ch \in ChannelName : BusAction(ch)
  BY <1>1, <1>2 DEF BusAction
<1>3. CASE Crash
  <2>1. /\ UNCHANGED tasks /\ \A w \in Thread : thread'[w].pc = "pop"
        /\ \A e \in Execution : submit'[e] \in {submit[e], Submitted("error", {})}
    BY <1>3 DEF Crash, Idle
  <2> QED BY <1>1, <2>1 DEF Submitted
<1>4. CASE UNCHANGED vars
  BY <1>1, <1>4 DEF vars
<1> QED
  BY <1>2, <1>3, <1>4, WorkerKeepsLock, CoordinatorKeepsLock, ServiceKeepsLock DEF Next

LEMMA InitLock == Init => LockInv
<1> SUFFICES ASSUME Init PROVE LockInv
  OBVIOUS
<1>1. DOMAIN tasks = {} /\ \A w \in Thread : thread[w].pc = "pop"
  BY DEF Init, TaskRepositoryInit, WorkerInit, Idle
<1> QED BY <1>1 DEF LockInv, RetryBudget, ClaimsExclusivePerVersion

LEMMA LockInvariant == Spec => []LockInv
<1>1. TypeOK /\ TypeOK' /\ LockInv /\ [Next]_vars => LockInv'
  BY NextLock
<1> QED BY <1>1, InitLock, TypeCorrect, PTL DEF Spec

-----------------------------------------------------------------------------
(* Whatever fails, and however often a task is in the lists: of the threads *)
(* that run a handler for a task no two hold the same version, so every     *)
(* version is claimed once.                                                 *)
THEOREM ClaimsAreExclusive == Spec => []ClaimsExclusivePerVersion
<1>1. LockInv => ClaimsExclusivePerVersion
  BY DEF LockInv
<1> QED BY <1>1, LockInvariant, PTL

(* CanRetry is evaluated on a snapshot, possibly several statements old,    *)
(* and still no row is ever retried more often than MaxRetries: under any   *)
(* faults, duplicated pushes included.                                      *)
THEOREM RetryBudgetHolds == Spec => []RetryBudget
<1>1. LockInv => RetryBudget
  BY DEF LockInv
<1> QED BY <1>1, LockInvariant, PTL
=============================================================================
