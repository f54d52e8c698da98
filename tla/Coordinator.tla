----------------------------- MODULE Coordinator -----------------------------
(***************************************************************************)
(* The coordinator goroutine of coordinator.go: it subscribes to both      *)
(* channels and then handles one event at a time.  coord.pc is the call    *)
(* made next.  completionsTotal is the metric                              *)
(* CoordinatorWorkflowCompletionsTotal, incremented where the code logs    *)
(* the outcome of a workflow.                                              *)
(***************************************************************************)
EXTENDS TaskRepository, WorkflowRepository, RedisQueue, RedisEventBus

VARIABLES coord, completionsTotal

CoordinatorPC == {"subscribeCompleted", "subscribeTerminated", "select",
                  "decrement", "push", "check", "complete"}

NoEvent == [type |-> "none"]

CoordinatorAt(pc) == [pc |-> pc, event |-> NoEvent, ready |-> {}]

Select == coord' = CoordinatorAt("select")

Handling(pc, type) == coord.pc = pc /\ coord.event.type = type

-----------------------------------------------------------------------------
(* Start *)
SubscribeToEvents ==
  /\ coord.pc = "subscribeCompleted"
  /\ Subscribe("completed")
  /\ coord' = CoordinatorAt("subscribeTerminated")
  /\ UNCHANGED <<tasks, executions, queue, faults, completionsTotal>>

SubscribeToTerminationEvents ==
  /\ coord.pc = "subscribeTerminated"
  /\ Subscribe("terminated")
  /\ Select
  /\ UNCHANGED <<tasks, executions, queue, faults, completionsTotal>>

(* select takes from either channel, at random when both are ready. *)
ReceiveEvent(ch) ==
  /\ coord.pc = "select"
  /\ \E i \in DOMAIN channel[ch] :
       /\ Receive(ch, channel[ch][i])
       /\ coord' = [pc |-> "decrement", event |-> channel[ch][i], ready |-> {}]
  /\ UNCHANGED <<tasks, executions, queue, faults, completionsTotal>>

-----------------------------------------------------------------------------
(* Mutant of AfterDecrement: no completion check. *)
AfterDecrementNoCheck(event, ready) ==
  IF ready = {} THEN CoordinatorAt("select")
  ELSE [pc |-> "push", event |-> event, ready |-> ready]

(* handleTaskCompleted up to the push loop.  The completion check runs      *)
(* only when nothing became ready.                                          *)
AfterDecrement(event, ready) ==
  [pc |-> IF ready = {} THEN "check" ELSE "push",
   event |-> event, ready |-> ready]

HandleTaskCompleted ==
  /\ Handling("decrement", "completed")
  /\ \E ready \in SUBSET DOMAIN tasks, ok \in BOOLEAN :
       /\ DecrementInDegree(coord.event.executionID, coord.event.refID, FALSE, ready, ok)
       /\ IF ok THEN coord' = AfterDecrement(coord.event, ready) ELSE Select
  /\ UNCHANGED <<executions, queue, busVars, completionsTotal>>

(* The end of handleTaskTerminated: one "failed" outcome per failure event. *)
CountOutcome(event) ==
  completionsTotal' = IF event.type = "failed"
                      THEN [completionsTotal EXCEPT !.failed = @ + 1]
                      ELSE completionsTotal

(* handleTaskTerminated up to the push loop; when that is empty, all of it. *)
HandleTaskTerminated ==
  /\ coord.pc = "decrement" /\ coord.event.type \in {"failed", "skipped"}
  /\ \E ready \in SUBSET DOMAIN tasks, ok \in BOOLEAN :
       /\ DecrementInDegree(coord.event.executionID, coord.event.refID, TRUE, ready, ok)
       /\ IF ok /\ ready # {}
          THEN /\ coord' = AfterDecrement(coord.event, ready)
               /\ UNCHANGED completionsTotal
          ELSE /\ Select
               /\ IF ok THEN CountOutcome(coord.event) ELSE UNCHANGED completionsTotal
  /\ UNCHANGED <<executions, queue, busVars>>

(* The push loop of both handlers, in the order RETURNING lists the rows,   *)
(* which SQL leaves open.  A failed push is logged and forgotten.           *)
PushReady ==
  /\ coord.pc = "push"
  /\ \E t \in coord.ready, ok \in BOOLEAN :
       /\ Push("main", t, ok)
       /\ IF coord.ready = {t}
          THEN Select /\ CountOutcome(coord.event)
          ELSE coord' = [coord EXCEPT !.ready = @ \ {t}] /\ UNCHANGED completionsTotal
  /\ UNCHANGED <<tasks, executions, busVars>>

-----------------------------------------------------------------------------
(* checkIfWorkflowFinished *)
CheckIfWorkflowFinished ==
  /\ coord.pc = "check"
  /\ \/ /\ AllTasksCompleted(coord.event.executionID)
        /\ coord' = [coord EXCEPT !.pc = "complete"]
        /\ NoFault /\ UNCHANGED tasks
     \/ /\ ~AllTasksCompleted(coord.event.executionID)
        /\ Select
        /\ NoFault /\ UNCHANGED tasks
     \/ Select /\ ReadError
  /\ UNCHANGED <<executions, queue, busVars, completionsTotal>>

(* No error means success here, whether or not the row changed. *)
CompleteWorkflow ==
  /\ coord.pc = "complete"
  /\ \/ /\ UpdateStatus(coord.event.executionID, "COMPLETED", TRUE)
        /\ completionsTotal' = [completionsTotal EXCEPT !.completed = @ + 1]
     \/ /\ UpdateStatus(coord.event.executionID, "COMPLETED", FALSE)
        /\ UNCHANGED completionsTotal
  /\ Select
  /\ UNCHANGED <<tasks, queue, busVars>>

-----------------------------------------------------------------------------
CoordinatorStep ==
  \/ SubscribeToEvents \/ SubscribeToTerminationEvents
  \/ \E ch \in ChannelName : ReceiveEvent(ch)
  \/ HandleTaskCompleted \/ HandleTaskTerminated \/ PushReady
  \/ CheckIfWorkflowFinished \/ CompleteWorkflow

CoordinatorTypeOK ==
  /\ coord \in [pc: CoordinatorPC,
                event: TaskCompletedEvent \cup TaskTerminatedEvent \cup {NoEvent},
                ready: SUBSET DOMAIN tasks]
  /\ coord.pc \in {"decrement", "push", "check", "complete"} => coord.event # NoEvent
  /\ completionsTotal \in [completed: Nat, failed: Nat]

Listening(coldStart) ==
  CoordinatorAt(IF coldStart THEN "subscribeCompleted" ELSE "select")

NoOutcome == [completed |-> 0, failed |-> 0]

CoordinatorInit(coldStart) ==
  coord = Listening(coldStart) /\ completionsTotal = NoOutcome
=============================================================================
