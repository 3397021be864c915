------------------------------- MODULE MCShells -------------------------------
(* Shells on small sets; threads and commands are interchangeable. *)
EXTENDS Shells, TLC

Symmetric == Permutations(Threads) \cup Permutations(Commands)
=============================================================================
