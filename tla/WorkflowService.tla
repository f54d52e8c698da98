--------------------------- MODULE WorkflowService ---------------------------
(***************************************************************************)
(* SubmitWorkflow of workflow_service.go, called by the HTTP handler: one  *)
(* goroutine per request.  submit[e] is the call that creates e.           *)
(***************************************************************************)
EXTENDS TaskRepository, WorkflowRepository, RedisQueue

VARIABLE submit

SubmitPC == {"new", "push", "created", "error"}

Submitted(pc, roots) == [pc |-> pc, roots |-> roots]

(* getRootTasks *)
RootTasks(e, req) ==
  {t \in TaskIDs(e, req) : ToTasks(e, req)[t].inDegree = 0}

AfterCreate(roots) == Submitted(IF roots = {} THEN "created" ELSE "push", roots)

(* CreateExecution inserts the execution and its tasks in one transaction;  *)
(* on an error the client gets a 500, the transaction committed or not.     *)
CreateExecution(e) ==
  /\ submit[e].pc = "new"
  /\ \E req \in Requests :
       \/ /\ tasks' = Inserted(e, req)
          /\ executions' = [executions EXCEPT ![e] = "RUNNING"]
          /\ \/ /\ submit' = [submit EXCEPT ![e] = AfterCreate(RootTasks(e, req))]
                /\ NoFault
             \/ /\ submit' = [submit EXCEPT ![e] = Submitted("error", {})]
                /\ Fault("db")
       \/ /\ UNCHANGED <<tasks, executions>>
          /\ submit' = [submit EXCEPT ![e] = Submitted("error", {})]
          /\ Fault("db")
  /\ UNCHANGED queue

(* enqueueRootTasks, in the order of the request; it gives up on the first  *)
(* error and the client gets a 500 for an execution that exists.            *)
NextRoot(e, t) ==
  t \in submit[e].roots /\ \A u \in submit[e].roots : t[2] <= u[2]

AfterPush(e, t) == AfterCreate(submit[e].roots \ {t})

EnqueueRootTask(e) ==
  /\ submit[e].pc = "push"
  /\ \E t \in submit[e].roots :
       /\ NextRoot(e, t)
       /\ \/ /\ Push("main", t, TRUE)
             /\ submit' = [submit EXCEPT ![e] = AfterPush(e, t)]
          \/ /\ Push("main", t, FALSE)
             /\ submit' = [submit EXCEPT ![e] = Submitted("error", {})]
  /\ UNCHANGED <<tasks, executions>>

SubmitStep(e) == CreateExecution(e) \/ EnqueueRootTask(e)

WorkflowServiceTypeOK ==
  submit \in [Execution -> [pc: SubmitPC, roots: SUBSET DOMAIN tasks]]

WorkflowServiceInit == submit = [e \in Execution |-> Submitted("new", {})]
=============================================================================
