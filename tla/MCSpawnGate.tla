----------------------------- MODULE MCSpawnGate ----------------------------
(* SpawnGate for TLC: whose children the spawns are.                         *)
EXTENDS SpawnGate

CONSTANTS p1

OneParent == [x \in Spawns |-> p1]
=============================================================================
