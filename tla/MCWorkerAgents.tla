--------------------------- MODULE MCWorkerAgents ---------------------------
(* Constants of the model-checking runs of WorkerAgents. *)
EXTENDS WorkerAgents, TLC

CONSTANTS w1, w2, t1, t2, backend, frontend

MCPriority == [t \in Task |-> 10]
MCMaxAttempts == [t \in Task |-> IF t = t1 THEN 2 ELSE 1]
MCCapability == [t \in Task |-> IF t = t1 THEN backend ELSE frontend]
MCCapabilities == [w \in Worker |->
    {Capability[t] : t \in Task} \ (IF w = w1 THEN {} ELSE {frontend})]
MCConcurrency == [w \in Worker |-> {Cardinality(Slots)}]
=============================================================================
