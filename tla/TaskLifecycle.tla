---------------------------- MODULE TaskLifecycle ----------------------------
(***************************************************************************)
(* What becomes of a task, whatever happens to the lists, the channels and *)
(* the threads around it: it waits, runs, goes back to waiting at most     *)
(* MaxRetries times, and ends once, completed, failed or skipped.  It fails *)
(* only after its last retry, and it ends as skipped without running then. *)
(***************************************************************************)
EXTENDS Naturals

CONSTANTS
  Batch,        \* the sets of tasks that may be submitted together
  MaxRetries

VARIABLE task

State == {"WAITING", "RUNNING", "COMPLETED", "FAILED", "SKIPPED"}

New == [state |-> "WAITING", retries |-> 0]

Init == task = [t \in {} |-> New]

Submit(ids) ==
  /\ ids \cap DOMAIN task = {}
  /\ task' = [t \in ids \cup DOMAIN task |-> IF t \in ids THEN New ELSE task[t]]

Move(t, from, to) ==
  task[t].state = from /\ task' = [task EXCEPT ![t].state = to]

Start(t) == Move(t, "WAITING", "RUNNING")

Complete(t) == Move(t, "RUNNING", "COMPLETED")

Retry(t) ==
  /\ task[t].state = "RUNNING" /\ task[t].retries < MaxRetries
  /\ task' = [task EXCEPT ![t].state = "WAITING", ![t].retries = @ + 1]

Fail(t) == task[t].retries = MaxRetries /\ Move(t, "RUNNING", "FAILED")

Skip(t) == Move(t, "WAITING", "SKIPPED")

Step(t) == Start(t) \/ Complete(t) \/ Retry(t) \/ Fail(t) \/ Skip(t)

Next ==
  \/ \E ids \in Batch : Submit(ids)
  \/ \E t \in DOMAIN task : Step(t)

Spec == Init /\ [][Next]_task
=============================================================================
