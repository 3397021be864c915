---------------------------- MODULE MCProjectsFile ----------------------------
(* ProjectsFile with few edits and faults. *)
EXTENDS ProjectsFile
==============================================================================
