--------------------------- MODULE ActionRegistry ---------------------------
(***************************************************************************)
(* InitRegistry of registry.go: which actions have a handler and what it   *)
(* may return.  What the handlers print and how long they sleep is left    *)
(* out.  timeout_task returns an error only when its context is cancelled, *)
(* and the worker hands every handler the context of main, which never is. *)
(***************************************************************************)

Succeeding == {"create_employee_profile", "setup_email_account", "assign_equipment",
               "enroll_benefits", "schedule_orientation", "timeout_task"}

InitRegistry ==
  [action \in Succeeding \cup {"failing_task"} |->
     IF action \in Succeeding THEN {"success"} ELSE {"error"}]
=============================================================================
