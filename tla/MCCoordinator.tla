--------------------------- MODULE MCCoordinator ---------------------------
(* MonitorCoordinator for TLC: request slots and task slots are symmetric.  *)
EXTENDS MonitorCoordinator, TLC

RequestSymmetry == Permutations(Requests)
=============================================================================
