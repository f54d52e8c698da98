------------------------------- MODULE Faults -------------------------------
(***************************************************************************)
(* What Postgres, Redis and the host may do to a call.  Every faulty       *)
(* outcome in the other modules passes through Fault(kind), so that a      *)
(* configuration selects the kinds it studies (FaultKinds) and bounds how  *)
(* many occur in a behaviour (MaxFaults).                                  *)
(*                                                                         *)
(*   "db"          a statement returns an error, executed or not           *)
(*   "queue"       RPUSH or BLPOP returns an error, executed or not        *)
(*   "publish"     PUBLISH fails and nobody receives the event             *)
(*   "disconnect"  a subscription's connection breaks                      *)
(*   "crash"       the process dies and is restarted                       *)
(*   "dupPush"     the client library re-sends an RPUSH whose reply it     *)
(*                 lost: the list gets the element twice                   *)
(*   "dupPublish"  likewise for a PUBLISH                                  *)
(***************************************************************************)
EXTENDS Naturals

CONSTANTS FaultKinds, MaxFaults

ASSUME FaultsAssumption ==
  /\ FaultKinds \subseteq {"db", "queue", "publish", "disconnect", "crash",
                           "dupPush", "dupPublish"}
  /\ MaxFaults \in Nat

VARIABLE faults

NoFault == UNCHANGED faults

Fault(kind) ==
  /\ kind \in FaultKinds
  /\ faults < MaxFaults
  /\ faults' = faults + 1
=============================================================================
