------------------------------ MODULE MCMetrics ------------------------------
(* The requests and registries of MCGoTempo for the TLC run of Metrics. *)
EXTENDS MCGoTempo, Metrics
=============================================================================
