---------------------------- MODULE MCPlanApply ----------------------------
(* PlanApply on small instances. *)
EXTENDS PlanApply, TLC

\* Configurations are interchangeable: no formula tells them apart.
Symmetry == Permutations(Configs)
=============================================================================
