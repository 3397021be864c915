----------------------------- MODULE MCWorkspace -----------------------------
(* Workspace with few tabs and a short history. *)
EXTENDS Workspace, TLC

Symmetric == Permutations(TabIds) \cup Permutations(Terminals) \cup Permutations(Projects)
==============================================================================
