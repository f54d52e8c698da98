------------------------- MODULE WorkflowRepository -------------------------
(***************************************************************************)
(* The workflow_executions table: workflow_repository_impl.go.             *)
(***************************************************************************)
EXTENDS Domain, Faults

VARIABLE executions   \* the status of every row; "absent" before its INSERT

ExecutionsWrite(table, ok) ==
  \/ ok /\ executions' = table /\ NoFault
  \/ ~ok /\ executions' \in {executions, table} /\ Fault("db")

(* WHERE id = ? AND status != new AND status != 'FAILED'. *)
MayBecome(old, status) == old # status /\ old # "FAILED"

Updated(e, status) ==
  [executions EXCEPT ![e] = IF MayBecome(@, status) THEN status ELSE @]

(* A statement that matches no row is a success too. *)
UpdateStatus(e, status, ok) == ExecutionsWrite(Updated(e, status), ok)

WorkflowRepositoryTypeOK ==
  executions \in [Execution -> WorkflowStatus \cup {"absent"}]

WorkflowRepositoryInit == executions = [e \in Execution |-> "absent"]
=============================================================================
