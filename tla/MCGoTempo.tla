------------------------------ MODULE MCGoTempo ------------------------------
(* Requests, registries and symmetry for the TLC runs of GoTempo. *)
EXTENDS GoTempoRefinement, ActionRegistry, FiniteSetsExt, TLC

CONSTANTS e1, e2, w1, w2, r1, a, b, c, d, flaky

(* The server's registry and a handler that fails or not at each attempt.   *)
RegistryValue == (flaky :> {"success", "error"}) @@ InitRegistry

works == "enroll_benefits"

(* An action of STRESS_TESTING.md that is not in the registry. *)
unknown == "send_email"

ActionValue == DOMAIN RegistryValue \cup {unknown}

DTO(ref, action, deps) == [refID |-> ref, action |-> action, dependencies |-> deps]

(* Every DAG of three or of four tasks up to renaming: a task depends on    *)
(* earlier ones.                                                            *)
DAGs3(action) ==
  {<<DTO(a, action, <<>>), DTO(b, action, db), DTO(c, action, dc)>> :
     db \in {<<>>, <<a>>}, dc \in {<<>>, <<a>>, <<b>>, <<a, b>>}}

DAGs4(action) ==
  {Append(dag, DTO(d, action, dd)) :
     dag \in DAGs3(action),
     dd \in {<<>>, <<a>>, <<b>>, <<c>>, <<a, b>>, <<a, c>>, <<b, c>>, <<a, b, c>>}}

Dependencies(dag) == MapThenSumSet(LAMBDA i : Len(dag[i].dependencies), DOMAIN dag)

(* The connected DAGs of three tasks, and a dependency beside a single task. *)
FlakyDAGs3 ==
  {dag \in DAGs3(flaky) : Dependencies(dag) >= 2 \/ dag[3].dependencies = <<a>>}

(* Every connected DAG of four tasks among them. *)
FlakyDAGs4 == {dag \in DAGs4(flaky) : Dependencies(dag) >= 3}

(* Small workflows that share their RefIDs. *)
SmallDAGs == {<<DTO(a, flaky, <<>>)>>,
              <<DTO(a, flaky, <<>>), DTO(b, works, <<a>>)>>,
              <<DTO(a, works, <<>>), DTO(b, flaky, <<>>)>>}

Join == <<DTO(a, flaky, <<>>), DTO(b, works, <<>>), DTO(c, works, <<a, b>>)>>

JoinOrSmall == SmallDAGs \cup {Join}

JoinOrChain == {<<DTO(a, "failing_task", <<>>), DTO(b, works, <<>>), DTO(c, works, <<a, b>>)>>,
                <<DTO(a, flaky, <<>>), DTO(b, works, <<a>>)>>}

(* What the mapper accepts without complaint: a dependency listed twice, a  *)
(* RefID used twice, a reference to nobody, a cycle; and actions that are   *)
(* not in the registry.                                                     *)
Malformed ==
  {<<DTO(a, flaky, <<>>), DTO(b, flaky, <<a, a>>), DTO(c, flaky, <<b>>)>>,
   <<DTO(a, flaky, <<>>), DTO(a, flaky, <<>>), DTO(b, flaky, <<a>>)>>,
   <<DTO(a, flaky, <<>>), DTO(a, flaky, <<>>), DTO(b, flaky, <<a, a>>)>>,
   <<DTO(a, flaky, <<>>), DTO(b, flaky, <<d>>), DTO(c, flaky, <<a>>)>>,
   <<DTO(a, flaky, <<>>), DTO(b, flaky, <<a, c>>), DTO(c, flaky, <<b>>)>>,
   <<DTO(a, unknown, <<>>), DTO(b, flaky, <<a>>), DTO(c, flaky, <<b>>)>>,
   <<DTO(a, unknown, <<>>), DTO(b, flaky, <<>>), DTO(c, flaky, <<a, b>>)>>,
   <<DTO(a, unknown, <<>>), DTO(a, flaky, <<>>), DTO(b, flaky, <<a, a, a>>)>>}

UnknownDAG == {<<DTO(a, unknown, <<>>), DTO(b, works, <<a>>)>>}

Symmetry == Permutations(MainThread) \cup Permutations(Execution)
=============================================================================
