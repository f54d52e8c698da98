---------------------------- MODULE DagExecution ----------------------------
(***************************************************************************)
(* What go-tempo promises for a submitted workflow, without lists, events, *)
(* counters and threads.  The tasks of an execution form a graph fixed at  *)
(* its submission.  A task starts when all its parents are completed; it   *)
(* is skipped, without ever having run, when all of them ended and one     *)
(* failed or was skipped itself; the execution fails when a task of it     *)
(* failed and completes when all of them completed.                        *)
(***************************************************************************)
EXTENDS Naturals

CONSTANTS
  Execution,
  Graph,        \* the graphs a client may submit: from task to set of parents
  MaxRetries

VARIABLES task, dag, workflow

dagVars == <<task, dag, workflow>>

Lifecycle == INSTANCE TaskLifecycle WITH Batch <- {DOMAIN g : g \in Graph}

NoGraph == [t \in {} |-> {}]

Init ==
  /\ Lifecycle!Init
  /\ dag = [e \in Execution |-> NoGraph]
  /\ workflow = [e \in Execution |-> "absent"]

Submit(e) ==
  /\ workflow[e] = "absent"
  /\ \E g \in Graph : Lifecycle!Submit(DOMAIN g) /\ dag' = [dag EXCEPT ![e] = g]
  /\ workflow' = [workflow EXCEPT ![e] = "RUNNING"]

Completed(t) == task[t].state = "COMPLETED"

Spoiled(t) == task[t].state \in {"FAILED", "SKIPPED"}

Ended(t) == Completed(t) \/ Spoiled(t)

Start(e, t) == Lifecycle!Start(t) /\ \A d \in dag[e][t] : Completed(d)

Skip(e, t) ==
  /\ Lifecycle!Skip(t)
  /\ \A d \in dag[e][t] : Ended(d)
  /\ \E d \in dag[e][t] : Spoiled(d)
  /\ task[t].retries = 0

TaskStep(e, t) ==
  /\ \/ Start(e, t) \/ Skip(e, t)
     \/ Lifecycle!Complete(t) \/ Lifecycle!Retry(t) \/ Lifecycle!Fail(t)
  /\ UNCHANGED <<dag, workflow>>

Decide(e, outcome) ==
  /\ workflow[e] = "RUNNING"
  /\ workflow' = [workflow EXCEPT ![e] = outcome]
  /\ UNCHANGED <<task, dag>>

CompleteWorkflow(e) ==
  Decide(e, "COMPLETED") /\ \A t \in DOMAIN dag[e] : Completed(t)

FailWorkflow(e) ==
  Decide(e, "FAILED") /\ \E t \in DOMAIN dag[e] : task[t].state = "FAILED"

Progress(e) ==
  \/ \E t \in DOMAIN dag[e] : TaskStep(e, t)
  \/ CompleteWorkflow(e) \/ FailWorkflow(e)

Next == \E e \in Execution : Submit(e) \/ Progress(e)

Spec == Init /\ [][Next]_dagVars

(* While an execution is unfinished some step of it is possible, if its     *)
(* graph has no cycle.  Fairness is weak fairness of Progress(e) with this  *)
(* predicate in the place of ENABLED, which has no meaning under a          *)
(* refinement mapping that TLC could evaluate.                              *)
Unfinished(e) ==
  workflow[e] = "RUNNING" \/ \E t \in DOMAIN dag[e] : ~Ended(t)

Fairness ==
  \A e \in Execution : []<>~Unfinished(e) \/ []<><<Progress(e)>>_dagVars

FairSpec == Spec /\ Fairness
=============================================================================
