--------------------------- MODULE MCOrchestrator ---------------------------
(* Orchestrator on small sets of model values.  Jobs, processes and planners *)
(* are interchangeable, so safety runs may treat them as symmetric.          *)
EXTENDS Orchestrator, TLC

SymmetricJobs == Permutations(Jobs) \cup Permutations(Procs)
Symmetric == SymmetricJobs \cup Permutations(Callers)
=============================================================================
