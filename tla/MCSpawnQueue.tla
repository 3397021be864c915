---------------------------- MODULE MCSpawnQueue ----------------------------
(* SpawnQueue with a few panes and one restart of all panes. *)
EXTENDS SpawnQueue

\* From one slot to three at once lets two waiters in; zero is taken for one.
MCSizes == 0 .. 3
=============================================================================
