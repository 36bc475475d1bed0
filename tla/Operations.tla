---------------------------- MODULE Operations -----------------------------
(* The programs around the requests: the runs of the migration tool during a *)
(* deployment, and the background queue of a server process.  They share no  *)
(* state.                                                                    *)
EXTENDS MigrationLock, TaskQueue

vars == <<migrationVars, taskVars>>

Init == MigrationInit /\ TaskInit

Next ==
  \/ MigrationNext /\ UNCHANGED taskVars
  \/ TaskNext /\ UNCHANGED migrationVars

Spec == Init /\ [][Next]_vars /\ TaskFairness
=============================================================================
