------------------------------ MODULE DagProofs ------------------------------
(***************************************************************************)
(* The DAG: in-degrees and skip hints against the ends of the parents, and *)
(* the server as an implementation of DagExecution.  All of it as long as  *)
(* Postgres answers, actions are registered, the RefIDs of a request are   *)
(* distinct, and neither RPUSH nor PUBLISH is re-sent.                     *)
(***************************************************************************)
EXTENDS OutcomeProofs, FiniteSetTheorems

DistinctRefs ==
  \A req \in Requests : \A i, j \in DOMAIN req : req[i].refID = req[j].refID => i = j

Spoiling == {"FAILED", "SKIPPED"}

(* There are parents whose end the coordinator has handled (not all it could *)
(* have: events get lost), every other one is still in the in-degree, and    *)
(* the hint says whether one of those handled failed or was skipped.         *)
Accounted(t) ==
  \E H \in SUBSET Parents(t) :
    /\ \A d \in H : ~EventPending(d)
    /\ tasks[t].skipHint <=> \E d \in H : tasks[d].status \in Spoiling
    /\ tasks[t].inDegree >= Cardinality(Parents(t) \ H)

CountInv == \A t \in DOMAIN tasks : IsFiniteSet(Parents(t)) /\ Accounted(t)

-----------------------------------------------------------------------------
(* What the coordinator has learned it need not learn again. *)
LEMMA LearnedStays ==
  ASSUME Dependable, TypeOK, DeliveryInv, StageInv, [Next]_vars,
         NEW d \in DOMAIN tasks, ~EventPending(d)
  PROVE  ~EventPending(d)' /\ tasks'[d].status = tasks[d].status
<1>1. tasks[d].status \in Terminal /\ Released(thread, d)
  BY DEF EventPending, HeldByThread, Holds, Released
<1>2. tasks'[d].status = tasks[d].status /\ Released(thread', d)
  BY <1>1, DoneStays DEF Dependable
<1>3. ASSUME NEW c \in ChannelName, NEW i \in DOMAIN channel'[c]
      PROVE  channel'[c][i].taskID # d
  <2>1. CASE \E j \in DOMAIN channel[c] : channel'[c][i] = channel[c][j]
    BY <2>1 DEF EventPending
  <2>2. ASSUME NEW w \in Thread, Announcement(w, channel'[c][i])
        PROVE  channel'[c][i].taskID # d
    BY <1>1, <2>2 DEF Announcement, Announces, Event, Released
  <2> QED BY <1>3, <2>1, <2>2, EventMoves
<1>4. ASSUME coord'.pc = "decrement" PROVE coord'.event.taskID # d
  <2>1. CASE UNCHANGED coord
    BY <1>4, <2>1 DEF EventPending
  <2>2. ASSUME NEW c \in ChannelName, ReceiveEvent(c) PROVE coord'.event.taskID # d
    BY <2>2 DEF ReceiveEvent, EventPending
  <2> QED BY <1>4, <2>1, <2>2, DecrementPC
<1> QED BY <1>1, <1>2, <1>3, <1>4 DEF EventPending, HeldByThread, Holds, Released

LEMMA ParentsStay ==
  ASSUME TypeOK, DeliveryInv, StageInv, RecordsInv, [Next]_vars, NEW t \in DOMAIN tasks
  PROVE  Parents(t)' = Parents(t) /\ Parents(t) \subseteq DOMAIN tasks
<1>1. PICK e \in Execution : e = tasks[t].executionID /\ executions[e] # "absent"
  BY DEF RecordsInv, TypeOK, TaskRepositoryTypeOK, Task
<1>2. TasksOf(e)' = TasksOf(e) /\ TasksOf(e) \subseteq DOMAIN tasks
  BY <1>1, TasksStay DEF TasksOf
<1>3. \A d \in TasksOf(e) \cup {t} : SameName(tasks[d], tasks'[d])
  BY <1>2, RowsStay
<1> QED BY <1>1, <1>2, <1>3 DEF Parents, SameName

(* Which counts change: those of the children of the task whose event the   *)
(* coordinator handles.                                                     *)
SameCount(t) ==
  tasks'[t].inDegree = tasks[t].inDegree /\ tasks'[t].skipHint = tasks[t].skipHint

CountedDown(t) ==
  /\ coord.pc = "decrement" /\ coord'.pc # "decrement" /\ UNCHANGED channel
  /\ t \in Children(coord.event.executionID, coord.event.refID)
  /\ tasks'[t] = DecrementedRow(tasks[t], coord.event.type # "completed")

LEMMA CountMoves ==
  ASSUME "db" \notin FaultKinds, TypeOK, DeliveryInv, StageInv, [Next]_vars,
         NEW t \in DOMAIN tasks
  PROVE  SameCount(t) \/ CountedDown(t)
<1>1. ASSUME NEW w \in Thread, WorkerAction(w) PROVE SameCount(t)
  <2>1. CASE UNCHANGED tasks
    BY <2>1 DEF SameCount
  <2>2. ASSUME NEW u \in DOMAIN tasks, NEW new, Move(tasks[u], new),
               RowBecomes(tasks', u, new)
        PROVE  SameCount(t)
    <3>1. tasks[u] \in Task
      BY DEF TypeOK, TaskRepositoryTypeOK
    <3>2. new.inDegree = tasks[u].inDegree /\ new.skipHint = tasks[u].skipHint
      BY <2>2, <3>1 DEF Move, Task
    <3> QED BY <2>2, <3>2 DEF RowBecomes, SameCount
  <2> QED BY <1>1, <2>1, <2>2, WorkerMoves
<1>2. ASSUME HandleTaskCompleted \/ HandleTaskTerminated
      PROVE  SameCount(t) \/ CountedDown(t)
  <2>1. tasks' = Decremented(coord.event.executionID, coord.event.refID,
                             coord.event.type # "completed")
    BY <1>2 DEF HandleTaskCompleted, HandleTaskTerminated, Handling, DecrementInDegree,
       Write, Fault
  <2>2. UNCHANGED channel /\ coord.pc = "decrement"
    BY <1>2 DEF HandleTaskCompleted, HandleTaskTerminated, Handling, busVars
  <2>3. coord'.pc # "decrement"
    <3>1. Select \/ \E ready : coord' = AfterDecrement(coord.event, ready)
      BY <1>2 DEF HandleTaskCompleted, HandleTaskTerminated
    <3>2. \A ready : AfterDecrement(coord.event, ready).pc # "decrement"
      BY DEF AfterDecrement
    <3> QED BY <3>1, <3>2 DEF Select, CoordinatorAt
  <2> QED BY <2>1, <2>2, <2>3 DEF Decremented, SameCount, CountedDown
<1>3. CASE CoordinatorAction /\ ~HandleTaskCompleted /\ ~HandleTaskTerminated
  BY <1>3 DEF CoordinatorAction, CoordinatorStep, SubscribeToEvents,
     SubscribeToTerminationEvents, ReceiveEvent, PushReady, CheckIfWorkflowFinished,
     CompleteWorkflow, ReadError, SameCount
<1>4. ASSUME NEW e \in Execution, ServiceAction(e) PROVE SameCount(t)
  <2>1. CASE UNCHANGED tasks
    BY <2>1 DEF SameCount
  <2>2. CASE ~UNCHANGED tasks
    <3>1. PICK req \in Requests : Submits(e, req)
      BY <1>4, <2>2 DEF ServiceAction, SubmitStep, CreateExecution, EnqueueRootTask, Submits
    <3>2. TaskIDs(e, req) \cap DOMAIN tasks = {}
      BY <3>1, FreshIDs DEF Submits
    <3> QED BY <3>1, <3>2 DEF Submits, Inserted, SameCount
  <2> QED BY <2>1, <2>2
<1>5. CASE (\E ch \in ChannelName : BusAction(ch)) \/ Crash \/ UNCHANGED vars
  BY <1>5 DEF BusAction, Crash, vars, SameCount
<1> QED BY <1>1, <1>2, <1>3, <1>4, <1>5 DEF Next, CoordinatorAction

-----------------------------------------------------------------------------
(* The end of the parent the coordinator handles is news to every child. *)
LEMMA HandledParent ==
  ASSUME Dependable, TypeOK, DeliveryInv, StageInv, RecordsInv, EndedInv, EventsInv,
         [Next]_vars, NEW t \in DOMAIN tasks, CountedDown(t)
  PROVE  \E d \in Parents(t) :
           /\ EventPending(d) /\ ~EventPending(d)'
           /\ tasks'[d].status \in Spoiling <=> coord.event.type # "completed"
<1>1. PICK d : d = coord.event.taskID
  OBVIOUS
<1>2. /\ coord.pc = "decrement" /\ coord'.pc # "decrement" /\ UNCHANGED channel
      /\ t \in Children(coord.event.executionID, coord.event.refID)
  BY DEF CountedDown
<1>3. AboutARow(coord.event, tasks) /\ Settled(coord.event, tasks, thread)
  BY <1>2 DEF RecordsInv, EventsInv, Handled
<1>4. d \in Parents(t)
  BY <1>1, <1>2, <1>3 DEF AboutARow, Children, Parents, TasksOf
<1>5. EventPending(d)
  BY <1>1, <1>2 DEF EventPending
<1>6. Settled(coord.event, tasks', thread')
  BY <1>3, SettledStays
<1>7. \A c \in ChannelName : \A i \in DOMAIN channel'[c] : channel'[c][i].taskID # d
  BY <1>1, <1>2 DEF EventsInv
<1>8. Reports(coord.event.type, tasks'[d].status) /\ Released(thread', d)
  BY <1>1, <1>6 DEF Settled
<1>9. ~EventPending(d)'
  BY <1>2, <1>7, <1>8 DEF EventPending, HeldByThread, Holds, Released, Reports, Terminal
<1> QED BY <1>4, <1>5, <1>8, <1>9 DEF Reports, Spoiling

LEMMA CountStays ==
  ASSUME Dependable, TypeOK, DeliveryInv, StageInv, RecordsInv, EndedInv, EventsInv,
         CountInv, [Next]_vars, NEW t \in DOMAIN tasks
  PROVE  IsFiniteSet(Parents(t))' /\ Accounted(t)'
<1>1. Parents(t)' = Parents(t) /\ Parents(t) \subseteq DOMAIN tasks
  BY ParentsStay
<1>2. IsFiniteSet(Parents(t))'
  BY <1>1 DEF CountInv
<1>3. PICK H \in SUBSET Parents(t) :
        /\ \A d \in H : ~EventPending(d)
        /\ tasks[t].skipHint <=> \E d \in H : tasks[d].status \in Spoiling
        /\ tasks[t].inDegree >= Cardinality(Parents(t) \ H)
  BY DEF CountInv, Accounted
<1>4. \A d \in H : ~EventPending(d)' /\ tasks'[d].status = tasks[d].status
  BY <1>1, <1>3, LearnedStays
<1>5. CASE SameCount(t)
  BY <1>1, <1>2, <1>3, <1>4, <1>5 DEF Accounted, SameCount
<1>6. CASE CountedDown(t)
  <2>1. PICK d \in Parents(t) :
          /\ EventPending(d) /\ ~EventPending(d)'
          /\ tasks'[d].status \in Spoiling <=> coord.event.type # "completed"
    BY <1>6, HandledParent
  <2>2. PICK K \in SUBSET Parents(t) : K = H \cup {d}
    BY <2>1
  <2>3. /\ tasks'[t].inDegree = tasks[t].inDegree - 1
        /\ tasks'[t].skipHint <=> tasks[t].skipHint \/ coord.event.type # "completed"
    <3>1. tasks[t] \in Task
      BY DEF TypeOK, TaskRepositoryTypeOK
    <3>2. PICK skip \in BOOLEAN : /\ skip <=> coord.event.type # "completed"
                                 /\ tasks'[t] = DecrementedRow(tasks[t], skip)
      BY <1>6 DEF CountedDown
    <3> QED BY <3>1, <3>2 DEF DecrementedRow, Task
  <2>4. /\ Cardinality(Parents(t) \ K) = Cardinality(Parents(t) \ H) - 1
        /\ Cardinality(Parents(t) \ H) \in Nat
    <3>1. IsFiniteSet(Parents(t) \ H) /\ d \in Parents(t) \ H
      BY <1>3, <2>1, FS_Subset DEF CountInv
    <3>2. (Parents(t) \ H) \ {d} = Parents(t) \ K
      BY <2>2
    <3>3. /\ Cardinality((Parents(t) \ H) \ {d}) = Cardinality(Parents(t) \ H) - 1
          /\ Cardinality(Parents(t) \ H) \in Nat
      BY <3>1, FS_RemoveElement, FS_CardinalityType
    <3> QED BY <3>2, <3>3
  <2>5. tasks[t].inDegree \in Int
    BY DEF TypeOK, TaskRepositoryTypeOK, Task
  <2>6. tasks'[t].inDegree >= Cardinality(Parents(t) \ K)
    BY <1>3, <2>3, <2>4, <2>5
  <2>7. \A u \in K : ~EventPending(u)'
    BY <1>4, <2>1, <2>2
  <2>8. tasks'[t].skipHint <=> \E u \in K : tasks'[u].status \in Spoiling
    BY <1>3, <1>4, <2>1, <2>2, <2>3
  <2> QED BY <1>1, <1>2, <2>6, <2>7, <2>8 DEF Accounted
<1> QED BY <1>2, <1>5, <1>6, CountMoves DEF Dependable


-----------------------------------------------------------------------------
(* Every parent is named at least once in the list of dependencies. *)
LEMMA ParentsAreNamed ==
  ASSUME DistinctRefs, NEW e \in Execution, NEW req \in Requests, NEW t \in TaskIDs(e, req)
  PROVE  /\ IsFiniteSet(RequestGraph(e, req)[t])
         /\ ToTasks(e, req)[t].inDegree >= Cardinality(RequestGraph(e, req)[t])
<1> DEFINE deps == req[t[2]].dependencies
           P == RequestGraph(e, req)[t]
           named == [d \in P |-> CHOOSE k \in DOMAIN deps : deps[k] = req[d[2]].refID]
<1>1. t[2] \in DOMAIN req /\ ToTasks(e, req)[t].inDegree = Len(deps)
  BY DEF TaskIDs, ToTasks, ToTask
<1>2. Len(deps) \in Nat /\ DOMAIN deps = 1..Len(deps)
  <2>1. req \in Seq(TaskDTO)
    BY RequestsAssumption
  <2>2. req[t[2]] \in TaskDTO
    BY <1>1, <2>1, ElementOfSeq, LenProperties
  <2> QED BY <2>2, LenProperties DEF TaskDTO
<1>3. \A d \in P : /\ d \in TaskIDs(e, req)
                   /\ \E k \in DOMAIN deps : deps[k] = req[d[2]].refID
  BY DEF RequestGraph, Range
<1>4. \A d \in P : named[d] \in DOMAIN deps /\ deps[named[d]] = req[d[2]].refID
  BY <1>3
<1>5. \A c, d \in P : named[c] = named[d] => c = d
  BY <1>3, <1>4 DEF DistinctRefs, TaskIDs
<1>6. named \in Injection(P, 1..Len(deps))
  BY <1>2, <1>4, <1>5 DEF Injection, IsInjective
<1>7. IsFiniteSet(1..Len(deps)) /\ Cardinality(1..Len(deps)) = Len(deps)
  BY <1>2, FS_Interval
<1> HIDE DEF P, named, deps
<1>8. IsFiniteSet(P) /\ Cardinality(P) <= Cardinality(1..Len(deps))
  BY <1>6, <1>7, FS_Injection
<1>9. Cardinality(P) \in Nat
  BY <1>8, FS_CardinalityType
<1> QED BY <1>1, <1>2, <1>7, <1>8, <1>9 DEF P, deps

LEMMA NewGraph ==
  ASSUME TypeOK, DeliveryInv, StageInv, RecordsInv, [Next]_vars,
         NEW e \in Execution, NEW req \in Requests, Submits(e, req)
  PROVE  /\ TasksOf(e)' = TaskIDs(e, req)
         /\ \A t \in TaskIDs(e, req) : Parents(t)' = RequestGraph(e, req)[t]
<1>1. submit[e].pc = "new" /\ \A t \in TaskIDs(e, req) : ToTasks(e, req)[t].executionID = e
  BY NewExecution
<1>2. TaskIDs(e, req) \cap DOMAIN tasks = {} /\ \A t \in DOMAIN tasks : t[1] # e
  BY <1>1, FreshIDs DEF Submits, DeliveryInv, FreshSubmissions
<1>3. /\ DOMAIN tasks' = DOMAIN tasks \cup TaskIDs(e, req)
      /\ \A t \in DOMAIN tasks : tasks'[t] = tasks[t]
      /\ \A t \in TaskIDs(e, req) : tasks'[t] = ToTasks(e, req)[t]
  BY <1>2 DEF Submits, Inserted
<1>4. TasksOf(e)' = TaskIDs(e, req)
  BY <1>1, <1>2, <1>3 DEF TasksOf, RecordsInv
<1>5. ASSUME NEW t \in TaskIDs(e, req) PROVE Parents(t)' = RequestGraph(e, req)[t]
  <2>1. \A d \in TaskIDs(e, req) : tasks'[d].refID = req[d[2]].refID
    BY <1>3 DEF ToTasks, ToTask
  <2>2. tasks'[t].dependencies = Range(req[t[2]].dependencies) /\ tasks'[t].executionID = e
    BY <1>1, <1>3, <1>5 DEF ToTasks, ToTask, Range
  <2> QED BY <1>4, <1>5, <2>1, <2>2 DEF Parents, RequestGraph
<1> QED BY <1>4, <1>5

LEMMA CountStarts ==
  ASSUME DistinctRefs, TypeOK, DeliveryInv, StageInv, RecordsInv, [Next]_vars,
         NEW t \in DOMAIN tasks', t \notin DOMAIN tasks
  PROVE  IsFiniteSet(Parents(t))' /\ Accounted(t)'
<1>1. PICK e \in Execution, req \in Requests :
        Submits(e, req) /\ t \in TaskIDs(e, req) /\ tasks'[t] = ToTasks(e, req)[t]
  BY RowsAppear
<1>2. Parents(t)' = RequestGraph(e, req)[t]
  BY <1>1, NewGraph
<1>3. IsFiniteSet(Parents(t)') /\ tasks'[t].inDegree >= Cardinality(Parents(t)')
  BY <1>1, <1>2, ParentsAreNamed
<1>4. ~tasks'[t].skipHint
  BY <1>1 DEF ToTasks, ToTask
<1>5. tasks'[t].inDegree >= Cardinality(Parents(t)' \ {})
  BY <1>3
<1> QED BY <1>3, <1>4, <1>5 DEF Accounted


LEMMA CountStep ==
  ASSUME Dependable, DistinctRefs, TypeOK, DeliveryInv, StageInv, RecordsInv, EndedInv,
         EventsInv, CountInv, [Next]_vars
  PROVE  CountInv'
<1>1. ASSUME NEW t \in DOMAIN tasks' PROVE IsFiniteSet(Parents(t))' /\ Accounted(t)'
  <2>1. CASE t \in DOMAIN tasks
    BY <2>1, CountStays
  <2>2. CASE t \notin DOMAIN tasks
    BY <1>1, <2>2, CountStarts
  <2> QED BY <2>1, <2>2
<1> QED BY <1>1 DEF CountInv

(* Once the in-degree is down to zero, every parent has been heard of, and  *)
(* the count and the hint stay as they are.                                 *)
LEMMA AllLearned ==
  ASSUME TypeOK, CountInv, NEW t \in DOMAIN tasks, tasks[t].inDegree <= 0
  PROVE  /\ \A d \in Parents(t) : ~EventPending(d)
         /\ tasks[t].skipHint <=> \E d \in Parents(t) : tasks[d].status \in Spoiling
<1>1. PICK H \in SUBSET Parents(t) :
        /\ \A d \in H : ~EventPending(d)
        /\ tasks[t].skipHint <=> \E d \in H : tasks[d].status \in Spoiling
        /\ tasks[t].inDegree >= Cardinality(Parents(t) \ H)
  BY DEF CountInv, Accounted
<1>2. IsFiniteSet(Parents(t) \ H)
  BY FS_Subset DEF CountInv
<1>3. Cardinality(Parents(t) \ H) \in Nat /\ tasks[t].inDegree \in Int
  BY <1>2, FS_CardinalityType DEF TypeOK, TaskRepositoryTypeOK, Task
<1>4. Cardinality(Parents(t) \ H) = 0
  BY <1>1, <1>3
<1>5. Parents(t) \ H = {}
  BY <1>2, <1>4, FS_EmptySet
<1>6. H = Parents(t)
  BY <1>5
<1> QED BY <1>1, <1>6

LEMMA CountFixed ==
  ASSUME Dependable, TypeOK, DeliveryInv, StageInv, RecordsInv, EndedInv, EventsInv,
         CountInv, [Next]_vars, NEW t \in DOMAIN tasks, tasks[t].inDegree <= 0
  PROVE  SameCount(t)
BY AllLearned, HandledParent, CountMoves DEF Dependable

-----------------------------------------------------------------------------
(* Whoever was claimed has no spoiled parent, whoever was skipped has one,  *)
(* and the thread that has read the hint acts on what still holds.          *)
HintsInv ==
  /\ \A t \in DOMAIN tasks :
       /\ tasks[t].status = "SKIPPED" => tasks[t].skipHint
       /\ tasks[t].version > 1 => tasks[t].inDegree <= 0 /\ ~tasks[t].skipHint
  /\ \A w \in Thread :
       /\ thread[w].pc = "skip" => Row(w).skipHint
       /\ thread[w].pc = "claim" => ~Row(w).skipHint

HintedRow(row) ==
  /\ row.status = "SKIPPED" => row.skipHint
  /\ row.version > 1 => row.inDegree <= 0 /\ ~row.skipHint

LEMMA HeldIsReady ==
  ASSUME TypeOK, DeliveryInv, NEW w \in Thread, thread[w].pc # "pop"
  PROVE  thread[w].task \in DOMAIN tasks /\ Row(w).inDegree <= 0
<1>1. thread[w].task \in DOMAIN tasks /\ Row(w).inDegree \in Int
  BY DEF TypeOK, WorkerTypeOK, TaskRepositoryTypeOK, Task, Row
<1>2. HeldByThread(thread[w].task)
  BY DEF HeldByThread, Holds
<1> QED BY <1>1, <1>2 DEF DeliveryInv, DeliveredOnlyWhenReady, Nowhere, Row

LEMMA MoveKeepsHint ==
  ASSUME NEW row \in Task, GoodRow(row), HintedRow(row), row.inDegree <= 0,
         NEW new, Move(row, new),
         new.status = "RUNNING" => new = row \/ ~row.skipHint,
         new.status = "SKIPPED" => new = row \/ row.skipHint
  PROVE  HintedRow(new)
<1>1. new.inDegree = row.inDegree /\ new.skipHint = row.skipHint
  BY DEF Move, Task
<1>2. row.status \in {"RUNNING", "FAILED"} => row.version > 1
  BY DEF GoodRow, Task
<1>3. CASE new = row
  BY <1>3
<1>4. CASE new # row
  <2>1. new.status = "SKIPPED" => new.skipHint
    BY <1>1, <1>4
  <2>2. \/ row.status \in {"RUNNING", "FAILED"} \/ new.status = "RUNNING"
        \/ new.version = row.version
    BY <1>4 DEF Move, Task
  <2>3. new.version > 1 => ~row.skipHint
    BY <1>2, <1>4, <2>2 DEF HintedRow
  <2> QED BY <1>1, <2>1, <2>3 DEF HintedRow
<1> QED BY <1>3, <1>4

LEMMA HintedRowsStay ==
  ASSUME Dependable, TypeOK, DeliveryInv, StageInv, RecordsInv, EndedInv, EventsInv,
         CountInv, HintsInv, [Next]_vars, NEW t \in DOMAIN tasks
  PROVE  HintedRow(tasks'[t])
<1>1. tasks[t] \in Task /\ GoodRow(tasks[t]) /\ HintedRow(tasks[t])
  BY DEF TypeOK, TaskRepositoryTypeOK, StageInv, HintsInv, HintedRow
<1>2. CASE tasks'[t] = tasks[t]
  BY <1>1, <1>2
<1>3. ASSUME NEW w \in Thread, WorkerAction(w), tasks'[t] # tasks[t]
      PROVE  HintedRow(tasks'[t])
  <2>1. PICK new : /\ Holds(w, t) /\ Move(tasks[t], new)
                   /\ CausedAt(thread[w].pc, tasks[t], new) /\ tasks'[t] = new
    BY <1>3, WorkerMoves DEF RowBecomes
  <2>2. thread[w].pc # "pop" /\ thread[w].task = t
    BY <2>1 DEF Holds
  <2>3. tasks[t].inDegree <= 0
    BY <2>2, HeldIsReady DEF Row
  <2> QED BY <1>1, <2>1, <2>2, <2>3, MoveKeepsHint DEF CausedAt, HintsInv, Row
<1>4. CASE CoordinatorAction
  <2>1. PICK skip \in BOOLEAN : tasks'[t] \in {tasks[t], DecrementedRow(tasks[t], skip)}
    BY <1>4, CoordinatorMoves DEF CountsDown
  <2>2. tasks[t].inDegree <= 0 => SameCount(t)
    BY CountFixed
  <2>3. DecrementedRow(tasks[t], skip).version = tasks[t].version
    BY <1>1, DecrementedRows
  <2>4. tasks[t].inDegree > 0 => DecrementedRow(tasks[t], skip).status \in Waiting
    BY <1>1, DecrementedRows
  <2>5. tasks[t].inDegree <= 0 => DecrementedRow(tasks[t], skip).status = tasks[t].status
    BY <1>1, DecrementedRows
  <2>6. tasks[t].inDegree \in Int
    BY <1>1 DEF Task
  <2> QED BY <1>1, <2>1, <2>2, <2>3, <2>4, <2>5, <2>6 DEF SameCount, HintedRow, Waiting
<1>5. ASSUME NEW e \in Execution, ServiceAction(e) PROVE tasks'[t] = tasks[t]
  <2>1. CASE UNCHANGED tasks
    BY <2>1
  <2>2. CASE ~UNCHANGED tasks
    <3>1. PICK req \in Requests : Submits(e, req)
      BY <1>5, <2>2 DEF ServiceAction, SubmitStep, CreateExecution, EnqueueRootTask, Submits
    <3>2. TaskIDs(e, req) \cap DOMAIN tasks = {}
      BY <3>1, FreshIDs DEF Submits
    <3> QED BY <3>1, <3>2 DEF Submits, Inserted
  <2> QED BY <2>1, <2>2
<1>6. CASE (\E ch \in ChannelName : BusAction(ch)) \/ Crash \/ UNCHANGED vars
  BY <1>2, <1>6 DEF BusAction, Crash, vars
<1> QED BY <1>2, <1>3, <1>4, <1>5, <1>6 DEF Next

LEMMA HintsStep ==
  ASSUME Dependable, TypeOK, DeliveryInv, StageInv, RecordsInv, EndedInv, EventsInv,
         CountInv, HintsInv, [Next]_vars
  PROVE  HintsInv'
<1>1. ASSUME NEW t \in DOMAIN tasks' PROVE HintedRow(tasks'[t])
  <2>1. CASE t \in DOMAIN tasks
    BY <2>1, HintedRowsStay
  <2>2. CASE t \notin DOMAIN tasks
    <3>1. PICK e \in Execution, req \in Requests :
            t \in TaskIDs(e, req) /\ tasks'[t] = ToTasks(e, req)[t]
      BY <1>1, <2>2, RowsAppear
    <3>2. tasks'[t].version = 1 /\ tasks'[t].status \in Waiting
      BY <3>1, NewRows DEF ToTasks, ToTask
    <3> QED BY <3>2 DEF HintedRow, Waiting
  <2> QED BY <2>1, <2>2
<1>2. ASSUME NEW w \in Thread, thread'[w].pc \in {"skip", "claim"}
      PROVE  tasks'[thread'[w].task].skipHint <=> thread'[w].pc = "skip"
  <2>1. CASE thread'[w] = thread[w]
    <3>1. thread[w].task \in DOMAIN tasks /\ Row(w).inDegree <= 0
      BY <1>2, <2>1, HeldIsReady
    <3>2. SameCount(thread[w].task)
      BY <3>1, CountFixed DEF Row
    <3> QED BY <1>2, <2>1, <3>2 DEF SameCount, HintsInv, Row
  <2>2. CASE WorkerAction(w)
    <3>1. Arrives(w)
      BY <2>2, Arrivals DEF WorkerAction
    <3>2. FindTask(w)
      BY <1>2, <3>1 DEF Arrives
    <3>3. thread'[w] = Fetched(thread[w].task) /\ UNCHANGED tasks
      BY <1>2, <3>2, ThreadMoves DEF FindTask, TypeOK
    <3> QED BY <3>3 DEF Fetched
  <2> QED BY <1>2, <2>1, <2>2, HeldBefore
<1> QED BY <1>1, <1>2 DEF HintsInv, HintedRow, Row

-----------------------------------------------------------------------------
LEMMA CountInvariant ==
  ASSUME Dependable, DistinctRefs
  PROVE  Spec => [](CountInv /\ HintsInv)
<1>1. Init => CountInv /\ HintsInv
  BY DEF Init, TaskRepositoryInit, WorkerInit, Idle, CountInv, HintsInv
<1>2. TypeOK /\ DeliveryInv /\ StageInv /\ (RecordsInv /\ OutcomeInv)
        /\ (EndedInv /\ EventsInv) /\ (CountInv /\ HintsInv) /\ [Next]_vars
        => (CountInv /\ HintsInv)'
  BY CountStep, HintsStep
<1>3. "dupPush" \notin FaultKinds
  BY DEF Dependable
<1> QED
  BY <1>1, <1>2, <1>3, TypeCorrect, DeliveryInvariant, StageInvariant, OutcomeInvariant,
     EventsInvariant, PTL DEF Spec

(* in_degree is never below the number of parents the coordinator has yet   *)
(* to hear of, for any requests with distinct RefIDs, any number of         *)
(* workers, crashes, lost pushes and lost events.                           *)
THEOREM InDegreesSuffice ==
  ASSUME Dependable, DistinctRefs
  PROVE  Spec => []InDegreeNeverTooLow
<1>1. TypeOK /\ CountInv => InDegreeNeverTooLow
  <2> SUFFICES ASSUME TypeOK, CountInv, NEW t \in DOMAIN tasks
               PROVE  tasks[t].inDegree >= Cardinality(PendingParents(t))
    BY DEF InDegreeNeverTooLow
  <2>1. PICK H \in SUBSET Parents(t) :
          /\ \A d \in H : ~EventPending(d)
          /\ tasks[t].inDegree >= Cardinality(Parents(t) \ H)
    BY DEF CountInv, Accounted
  <2>2. PendingParents(t) \subseteq Parents(t) \ H
    BY <2>1 DEF PendingParents
  <2>3. IsFiniteSet(Parents(t) \ H)
    BY FS_Subset DEF CountInv
  <2>4. /\ IsFiniteSet(PendingParents(t))
        /\ Cardinality(PendingParents(t)) <= Cardinality(Parents(t) \ H)
    BY <2>2, <2>3, FS_Subset
  <2>5. /\ Cardinality(PendingParents(t)) \in Nat
        /\ Cardinality(Parents(t) \ H) \in Nat /\ tasks[t].inDegree \in Int
    BY <2>3, <2>4, FS_CardinalityType DEF TypeOK, TaskRepositoryTypeOK, Task
  <2> QED BY <2>1, <2>4, <2>5
<1> QED BY <1>1, TypeCorrect, CountInvariant, PTL

(* Nothing is skipped, or about to be, without a failed or skipped parent.  *)
THEOREM SkipsAreJustified ==
  ASSUME Dependable, DistinctRefs
  PROVE  Spec => []SkipIsJustified
<1>1. CountInv /\ HintsInv => SkipIsJustified
  BY DEF CountInv, Accounted, HintsInv, SkipIsJustified, Spoiling
<1> QED BY <1>1, CountInvariant, PTL

(* A task that was ever claimed has only completed parents: Kahn's          *)
(* algorithm spread over workers, events and counters.                      *)
THEOREM DependenciesFirst ==
  ASSUME Dependable, DistinctRefs
  PROVE  Spec => []RunsAfterDependencies
<1>1. TypeOK /\ CountInv /\ HintsInv => RunsAfterDependencies
  <2> SUFFICES ASSUME TypeOK, CountInv, HintsInv, NEW t \in DOMAIN tasks,
                      tasks[t].version > 1, NEW d \in Parents(t)
               PROVE  tasks[d].status = "COMPLETED"
    BY DEF RunsAfterDependencies
  <2>1. tasks[t].inDegree <= 0 /\ ~tasks[t].skipHint
    BY DEF HintsInv
  <2>2. ~EventPending(d) /\ tasks[d].status \notin Spoiling
    BY <2>1, AllLearned
  <2> QED BY <2>2 DEF EventPending, Spoiling, Terminal
<1> QED BY <1>1, TypeCorrect, CountInvariant, PTL


-----------------------------------------------------------------------------
(* The refinement of DagExecution, one lemma per kind of step. *)
DagInv ==
  /\ DeliveryInv /\ StageInv /\ RecordsInv /\ OutcomeInv /\ EndedInv /\ EventsInv
  /\ CountInv /\ HintsInv

LEMMA DagStays ==
  ASSUME TypeOK, DeliveryInv, StageInv, RecordsInv, [Next]_vars, DOMAIN tasks' = DOMAIN tasks
  PROVE  UNCHANGED AbstractDag
<1>1. \A e \in Execution : TasksOf(e)' = TasksOf(e)
  BY RowsStay DEF TasksOf, SameName
<1>2. \A e \in Execution : \A t \in TasksOf(e) : Parents(t)' = Parents(t)
  BY ParentsStay DEF TasksOf
<1> QED BY <1>1, <1>2 DEF AbstractDag

LEMMA SubmissionIsDagStep ==
  ASSUME TypeOK, DagInv, [Next]_vars, NEW e \in Execution, NEW req \in Requests,
         Submits(e, req)
  PROVE  Dag!Submit(e)
<1>1. /\ executions[e] = "absent" /\ executions' = [executions EXCEPT ![e] = "RUNNING"]
      /\ \A t \in TaskIDs(e, req) : ToTasks(e, req)[t].executionID = e
  BY NewExecution DEF DagInv, RecordsInv
<1>2. /\ TaskIDs(e, req) \cap DOMAIN tasks = {}
      /\ DOMAIN tasks' = DOMAIN tasks \cup TaskIDs(e, req)
      /\ \A t \in TaskIDs(e, req) : tasks'[t] = ToTasks(e, req)[t]
      /\ \A t \in DOMAIN tasks : tasks'[t] = tasks[t]
  BY FreshIDs DEF DagInv, Submits, Inserted
<1>3. [t \in TasksOf(e)' |-> Parents(t)'] = RequestGraph(e, req)
  <2>1. /\ TasksOf(e)' = TaskIDs(e, req)
        /\ \A t \in TaskIDs(e, req) : Parents(t)' = RequestGraph(e, req)[t]
    BY NewGraph DEF DagInv
  <2> QED BY <2>1 DEF RequestGraph
<1>4. ASSUME NEW d \in Execution, d # e
      PROVE  [t \in TasksOf(d)' |-> Parents(t)'] = [t \in TasksOf(d) |-> Parents(t)]
  <2>1. TasksOf(d)' = TasksOf(d)
    BY <1>1, <1>2, <1>4 DEF TasksOf
  <2>2. \A t \in TasksOf(d) : Parents(t)' = Parents(t)
    BY ParentsStay DEF TasksOf, DagInv
  <2> QED BY <2>1, <2>2
<1>5. AbstractDag' = [AbstractDag EXCEPT ![e] = RequestGraph(e, req)]
  BY <1>3, <1>4 DEF AbstractDag
<1>6. DOMAIN RequestGraph(e, req) = TaskIDs(e, req)
  BY DEF RequestGraph
<1>7. Dag!Lifecycle!Submit(DOMAIN RequestGraph(e, req))
  BY <1>6, SubmissionIsLifecycleStep
     DEF DagInv, Lifecycle!Submit, Lifecycle!New, Dag!Lifecycle!Submit, Dag!Lifecycle!New
<1>8. RequestGraph(e, req) \in RequestGraphs
  BY DEF RequestGraphs
<1> QED BY <1>1, <1>5, <1>7, <1>8 DEF Dag!Submit

(* What the row of a parent says of the parent. *)
LEMMA AbstractParents ==
  ASSUME TypeOK, DagInv, NEW t \in DOMAIN tasks
  PROVE  LET e == tasks[t].executionID IN
         /\ e \in Execution /\ t \in DOMAIN AbstractDag[e] /\ AbstractDag[e][t] = Parents(t)
         /\ \A d \in Parents(t) : tasks[d].status \in Terminal =>
              /\ Dag!Ended(d)
              /\ tasks[d].status \in Spoiling => Dag!Spoiled(d)
              /\ tasks[d].status \notin Spoiling => Dag!Completed(d)
<1>1. tasks[t].executionID \in Execution /\ t \in TasksOf(tasks[t].executionID)
  BY DEF TypeOK, TaskRepositoryTypeOK, Task, TasksOf
<1>2. \A d \in Parents(t) :
        tasks[d].status \in Terminal => AbstractTask[d].state = tasks[d].status
  BY DEF Parents, TasksOf, AbstractTask, AbstractState, Terminal
<1> QED
  BY <1>1, <1>2 DEF AbstractDag, Terminal, Spoiling, Dag!Ended, Dag!Spoiled, Dag!Completed

LEMMA MoveIsDagStep ==
  ASSUME Dependable, TypeOK, DagInv, [Next]_vars, UNCHANGED executions,
         NEW w \in Thread, NEW t \in DOMAIN tasks, Holds(w, t),
         NEW new, Move(tasks[t], new), CausedAt(thread[w].pc, tasks[t], new),
         RowBecomes(tasks', t, new)
  PROVE  UNCHANGED Dag!dagVars \/ \E e \in Execution : Dag!Progress(e)
<1>1. PICK e \in Execution :
        /\ e = tasks[t].executionID /\ t \in DOMAIN AbstractDag[e]
        /\ AbstractDag[e][t] = Parents(t)
        /\ \A d \in Parents(t) : tasks[d].status \in Terminal =>
              /\ Dag!Ended(d)
              /\ tasks[d].status \in Spoiling => Dag!Spoiled(d)
              /\ tasks[d].status \notin Spoiling => Dag!Completed(d)
  BY AbstractParents
<1>2. UNCHANGED <<AbstractDag, executions>>
  BY DagStays DEF RowBecomes, DagInv
<1>3. /\ \A d \in Parents(t) : tasks[d].status \in Terminal
      /\ tasks[t].skipHint <=> \E d \in Parents(t) : tasks[d].status \in Spoiling
  <2>1. thread[w].pc # "pop" /\ tasks[t].inDegree <= 0
    BY HeldIsReady DEF Holds, Row, DagInv
  <2> QED BY <2>1, AllLearned DEF DagInv, EventPending
<1>4. ASSUME new # tasks[t], new.status = "RUNNING", Lifecycle!Start(t)
      PROVE  Dag!Start(e, t)
  <2>1. ~tasks[t].skipHint
    BY <1>4 DEF CausedAt, DagInv, HintsInv, Holds, Row
  <2>2. \A d \in AbstractDag[e][t] : Dag!Completed(d)
    BY <1>1, <1>3, <2>1
  <2> QED
    BY <1>4, <2>2 DEF Dag!Start, Lifecycle!Start, Lifecycle!Move, Dag!Lifecycle!Start,
       Dag!Lifecycle!Move
<1>5. ASSUME new # tasks[t], new.status = "SKIPPED", Lifecycle!Skip(t)
      PROVE  Dag!Skip(e, t)
  <2>1. tasks[t].skipHint
    BY <1>5 DEF CausedAt, DagInv, HintsInv, Holds, Row
  <2>2. /\ \A d \in AbstractDag[e][t] : Dag!Ended(d)
        /\ \E d \in AbstractDag[e][t] : Dag!Spoiled(d)
    BY <1>1, <1>3, <2>1
  <2>3. AbstractTask[t].retries = 0
    <3>1. tasks[t].version \in Nat /\ tasks[t].retryCount \in Nat
      BY DEF TypeOK, TaskRepositoryTypeOK, Task
    <3>2. ~(tasks[t].version > 1) /\ GoodRow(tasks[t])
      BY <2>1 DEF DagInv, HintsInv, StageInv
    <3> QED BY <3>1, <3>2 DEF GoodRow, AbstractTask
  <2> QED
    BY <1>5, <2>2, <2>3 DEF Dag!Skip, Lifecycle!Skip, Lifecycle!Move, Dag!Lifecycle!Skip,
       Dag!Lifecycle!Move
<1>6. ASSUME Lifecycle!Complete(t) \/ Lifecycle!Retry(t) \/ Lifecycle!Fail(t)
      PROVE  Dag!Lifecycle!Complete(t) \/ Dag!Lifecycle!Retry(t) \/ Dag!Lifecycle!Fail(t)
  BY <1>6 DEF Lifecycle!Complete, Lifecycle!Retry, Lifecycle!Fail, Lifecycle!Move,
     Dag!Lifecycle!Complete, Dag!Lifecycle!Retry, Dag!Lifecycle!Fail, Dag!Lifecycle!Move
<1>7. UNCHANGED AbstractTask \/ Dag!TaskStep(e, t)
  BY <1>2, <1>4, <1>5, <1>6, MoveIsLifecycleStep DEF Dependable, Dag!TaskStep
<1> QED BY <1>1, <1>2, <1>7 DEF Dag!dagVars, Dag!Progress

LEMMA FailureIsDagStep ==
  ASSUME Dependable, TypeOK, DagInv, [Next]_vars, UNCHANGED tasks,
         NEW w \in Thread, FailsExecution(w)
  PROVE  UNCHANGED Dag!dagVars \/ \E e \in Execution : Dag!Progress(e)
<1>1. PICK t \in DOMAIN tasks : /\ t = thread[w].task /\ tasks[t].status = "FAILED"
                                /\ executions' = Updated(tasks[t].executionID, "FAILED")
  BY DEF FailsExecution, TypeOK, WorkerTypeOK, DagInv, EndedInv, StageInv, StatusOK, Row,
     Dependable
<1>2. PICK e \in Execution : /\ e = tasks[t].executionID /\ t \in DOMAIN AbstractDag[e]
  BY AbstractParents
<1>3. UNCHANGED <<AbstractTask, AbstractDag>>
  BY DagStays DEF AbstractTask, DagInv
<1>4. executions[e] # "absent" /\ executions[e] # "COMPLETED"
  BY <1>1, <1>2 DEF DagInv, RecordsInv, OutcomeInv, CompletedMeansAllCompleted, EveryTaskIs,
     TasksOf
<1>5. executions[e] \in {"RUNNING", "FAILED"}
  BY <1>4 DEF TypeOK, WorkflowRepositoryTypeOK, WorkflowStatus
<1>6. AbstractTask[t].state = "FAILED"
  BY <1>1 DEF AbstractTask, AbstractState
<1>7. CASE executions[e] = "FAILED"
  <2>1. executions' = executions
    BY <1>1, <1>2, <1>7 DEF Updated, MayBecome, TypeOK, WorkflowRepositoryTypeOK
  <2> QED BY <1>3, <2>1 DEF Dag!dagVars
<1>8. CASE executions[e] = "RUNNING"
  <2>1. executions' = [executions EXCEPT ![e] = "FAILED"]
    BY <1>1, <1>2, <1>8 DEF Updated, MayBecome
  <2> QED BY <1>2, <1>3, <1>6, <1>8, <2>1 DEF Dag!Progress, Dag!FailWorkflow, Dag!Decide
<1> QED BY <1>5, <1>7, <1>8

LEMMA CompletionIsDagStep ==
  ASSUME TypeOK, DagInv, [Next]_vars, UNCHANGED tasks, CompletesExecution
  PROVE  UNCHANGED Dag!dagVars \/ \E e \in Execution : Dag!Progress(e)
<1>1. PICK e \in Execution : /\ e = coord.event.executionID /\ executions[e] # "absent"
                             /\ AllTasksCompleted(e)
                             /\ executions' = Updated(e, "COMPLETED")
  BY DEF CompletesExecution, DagInv, RecordsInv, OutcomeInv, Handled, AboutARow, TypeOK,
     TaskRepositoryTypeOK, TaskID
<1>2. UNCHANGED <<AbstractTask, AbstractDag>>
  BY DagStays DEF AbstractTask, DagInv
<1>3. \A t \in DOMAIN AbstractDag[e] : Dag!Completed(t)
  BY <1>1 DEF AllTasksCompleted, AbstractDag, TasksOf, AbstractTask, AbstractState,
     Dag!Completed
<1>4. executions[e] \in {"RUNNING", "FAILED", "COMPLETED"}
  BY <1>1 DEF TypeOK, WorkflowRepositoryTypeOK, WorkflowStatus
<1>5. CASE executions[e] # "RUNNING"
  <2>1. executions' = executions
    BY <1>1, <1>4, <1>5 DEF Updated, MayBecome, TypeOK, WorkflowRepositoryTypeOK
  <2> QED BY <1>2, <2>1 DEF Dag!dagVars
<1>6. CASE executions[e] = "RUNNING"
  <2>1. executions' = [executions EXCEPT ![e] = "COMPLETED"]
    BY <1>1, <1>6 DEF Updated, MayBecome
  <2> QED BY <1>2, <1>3, <1>6, <2>1 DEF Dag!Progress, Dag!CompleteWorkflow, Dag!Decide
<1> QED BY <1>5, <1>6

LEMMA DagStep ==
  ASSUME Dependable, TypeOK, DagInv, [Next]_vars
  PROVE  [Dag!Next]_(Dag!dagVars)
<1>1. CASE \E e \in Execution, req \in Requests : Submits(e, req)
  BY <1>1, SubmissionIsDagStep DEF Dag!Next
<1>2. CASE UNCHANGED executions
  <2>1. CASE UNCHANGED tasks
    BY <1>2, <2>1, DagStays DEF AbstractTask, Dag!dagVars, DagInv
  <2>2. ASSUME NEW w \in Thread, WorkerAction(w), ~UNCHANGED tasks
        PROVE  [Dag!Next]_(Dag!dagVars)
    BY <1>2, <2>2, WorkerMoves, MoveIsDagStep DEF Dag!Next, DagInv
  <2>3. CASE CoordinatorAction /\ ~UNCHANGED tasks
    <3>1. PICK skip \in BOOLEAN : CountsDown(skip)
      BY <2>3, CoordinatorMoves
    <3>2. UNCHANGED <<AbstractTask, AbstractDag>>
      BY <3>1, DecrementIsNoLifecycleStep, DagStays DEF CountsDown, DagInv
    <3> QED BY <1>2, <3>2 DEF Dag!dagVars
  <2>4. ASSUME NEW e \in Execution, ServiceAction(e), ~UNCHANGED tasks
        PROVE  \E req \in Requests : Submits(e, req)
    BY <2>4 DEF ServiceAction, SubmitStep, CreateExecution, EnqueueRootTask, Submits
  <2>5. CASE (\E ch \in ChannelName : BusAction(ch)) \/ Crash \/ UNCHANGED vars
    BY <2>1, <2>5 DEF BusAction, Crash, vars
  <2> QED BY <1>1, <2>1, <2>2, <2>3, <2>4, <2>5 DEF Next
<1>3. ASSUME NEW e \in Execution, submit[e].pc = "new", CreateExecution(e),
             executions' = [executions EXCEPT ![e] = "RUNNING"]
      PROVE  \E req \in Requests : Submits(e, req)
  <2>1. executions' # executions
    BY <1>3 DEF DagInv, RecordsInv, TypeOK, WorkflowRepositoryTypeOK
  <2> QED BY <1>3, <2>1 DEF CreateExecution, Submits
<1>4. ASSUME UNCHANGED tasks, NEW w \in Thread, FailsExecution(w)
      PROVE  [Dag!Next]_(Dag!dagVars)
  BY <1>4, FailureIsDagStep DEF Dag!Next
<1>5. CASE UNCHANGED tasks /\ CompletesExecution
  BY <1>5, CompletionIsDagStep DEF Dag!Next
<1> QED BY <1>1, <1>2, <1>3, <1>4, <1>5, ExecutionMoves

(* The server executes the DAGs of its requests step by step, whatever      *)
(* crashes, lost pushes and lost events do to its progress.                 *)
THEOREM DagRefinement ==
  ASSUME Dependable, DistinctRefs
  PROVE  Spec => ImplementsDag
<1>1. Init => Dag!Init
  <2> SUFFICES ASSUME Init PROVE Dag!Init
    OBVIOUS
  <2>1. DOMAIN tasks = {} /\ executions = [e \in Execution |-> "absent"]
    BY DEF Init, TaskRepositoryInit, WorkflowRepositoryInit
  <2>2. AbstractTask = [t \in {} |-> Dag!Lifecycle!New]
    BY <2>1 DEF AbstractTask
  <2>3. AbstractDag = [e \in Execution |-> Dag!NoGraph]
    BY <2>1 DEF AbstractDag, TasksOf, Dag!NoGraph
  <2> QED BY <2>1, <2>2, <2>3 DEF Dag!Init, Dag!Lifecycle!Init
<1>2. TypeOK /\ DeliveryInv /\ StageInv /\ (RecordsInv /\ OutcomeInv)
        /\ (EndedInv /\ EventsInv) /\ (CountInv /\ HintsInv) /\ [Next]_vars
        => [Dag!Next]_(Dag!dagVars)
  BY DagStep DEF DagInv
<1>3. "dupPush" \notin FaultKinds
  BY DEF Dependable
<1> QED
  BY <1>1, <1>2, <1>3, TypeCorrect, DeliveryInvariant, StageInvariant, OutcomeInvariant,
     EventsInvariant, CountInvariant, PTL DEF Spec, ImplementsDag, Dag!Spec
=============================================================================
