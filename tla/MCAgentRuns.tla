----------------------------- MODULE MCAgentRuns -----------------------------
(* Small instances of AgentRuns. Ids are interchangeable: a new row takes any unused one. *)
EXTENDS AgentRuns, TLC

Symmetry ==
  Permutations(Actions) \cup Permutations(Runs) \cup Permutations(Workers)
    \cup Permutations(Agents) \cup Permutations(Workspaces)
=============================================================================
