-------------------------- MODULE GoTempoRefinement --------------------------
(***************************************************************************)
(* The server implements what TaskLifecycle and DagExecution promise.  The *)
(* mapping forgets everything but the two tables: a task waits as long as  *)
(* its row is PENDING or QUEUED, and its parents are the tasks of its      *)
(* execution that its dependencies name.                                   *)
(***************************************************************************)
EXTENDS GoTempo

AbstractState(status) ==
  IF status \in {"PENDING", "QUEUED"} THEN "WAITING" ELSE status

AbstractTask ==
  [t \in DOMAIN tasks |-> [state   |-> AbstractState(tasks[t].status),
                           retries |-> tasks[t].retryCount]]

AbstractDag == [e \in Execution |-> [t \in TasksOf(e) |-> Parents(t)]]

(* The graph of a request. *)
RequestGraph(e, req) ==
  [t \in TaskIDs(e, req) |->
     {d \in TaskIDs(e, req) : req[d[2]].refID \in Range(req[t[2]].dependencies)}]

RequestGraphs == {RequestGraph(e, req) : e \in Execution, req \in Requests}

Lifecycle == INSTANCE TaskLifecycle
               WITH Batch <- {TaskIDs(e, req) : e \in Execution, req \in Requests},
                    task  <- AbstractTask

Dag == INSTANCE DagExecution
         WITH Graph    <- RequestGraphs,
              task     <- AbstractTask,
              dag      <- AbstractDag,
              workflow <- executions

(* Every task of a registered action goes through its life as TaskLifecycle *)
(* says, although the claim, the retry and the three final updates come     *)
(* from threads with old snapshots, statements fail after they took effect, *)
(* events are doubled and the process dies between any two calls.           *)
ImplementsLifecycle == Lifecycle!Spec

(* As long as Postgres answers, the pipeline of rows, events, counters and  *)
(* lists computes exactly the steps of the DAG: nothing starts, is skipped, *)
(* fails or completes out of turn, whatever events and pushes are lost and  *)
(* wherever the process dies.                                               *)
ImplementsDag == Dag!Spec

(* Without faults no execution is ever stuck: it makes progress as long as  *)
(* it is unfinished.                                                        *)
ImplementsFairDag == Dag!FairSpec
=============================================================================
