---------------------------- MODULE MCMemoryIndex ----------------------------
(* Small instances of MemoryIndex. *)
EXTENDS MemoryIndex, TLC

Symmetry ==
  Permutations(Memories) \cup Permutations(Texts) \cup Permutations(Models)
    \cup Permutations(Clients)
=============================================================================
