----------------------- MODULE MCExecutionFabricStore -----------------------
(* Constants of the model-checking runs of ExecutionFabricStore. *)
EXTENDS ExecutionFabricStore, TLC

CONSTANTS w1, w2, t1, t2, backend, frontend

MCMaxAttempts == (t1 :> 2 @@ t2 :> 1)
MCPriority == (t1 :> 10 @@ t2 :> 10)
MCCapability == (t1 :> backend @@ t2 :> frontend)
MCCapabilities == (w1 :> {backend, frontend} @@ w2 :> {backend})
MCConcurrency == (w1 :> {1, 2} @@ w2 :> {1})
=============================================================================
