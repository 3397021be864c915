---------------------------- MODULE MCSyncEngine ----------------------------
(* SyncEngine on two machines that share an account.  Preferences and tools   *)
(* start from one state, projects from every list two machines may have.      *)
EXTENDS SyncEngine

MCEdits == [s \in Scopes |-> CASE s = "settings" -> 3
                                [] s = "tooling"  -> 2
                                [] s = "projects" -> 1]
=============================================================================
