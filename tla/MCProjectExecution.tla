------------------------- MODULE MCProjectExecution -------------------------
(* Constants for TLC: all executions belong to the same project.           *)
EXTENDS ProjectExecution, TLC

CONSTANT p

OneProject == [e \in Execution |-> p]

(* Executions and workers are interchangeable.                             *)
Symmetric == Permutations(Execution) \cup Permutations(Worker)
=============================================================================
