----------------------------- MODULE MCMonitor -----------------------------
(* The states of the daemon with the lengths of their names in a small file. *)
EXTENDS Monitor

mcStates == {"Net Down", "Net Up", "Idle"}
mcNameLen == [s \in mcStates |-> CASE s = "Net Down" -> 4 [] s = "Net Up" -> 3 [] s = "Idle" -> 2]

============================================================================
