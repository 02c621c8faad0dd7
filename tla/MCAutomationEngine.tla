-------------------------- MODULE MCAutomationEngine --------------------------
(* A small instance of AutomationEngine. *)
EXTENDS AutomationEngine, TLC

Symmetry == Permutations(Workflows) \cup Permutations(Handlers)
=============================================================================
