--------------------------- MODULE MCFabricDriver ---------------------------
(* Constants of the model-checking runs of FabricDriver. *)
EXTENDS FabricDriver, TLC

CONSTANTS w1, w2, t1, t2, t3, backend, frontend, devops

MCDriven == <<w1, w2>>
MCPriority == (t1 :> 10 @@ t2 :> 11 @@ t3 :> 12)
MCMaxAttempts == (t1 :> 3 @@ t2 :> 1 @@ t3 :> 1)
MCCapability == (t1 :> backend @@ t2 :> frontend @@ t3 :> devops)
MCCapabilities == (w1 :> {backend, frontend} @@ w2 :> {backend})
MCConcurrency == [w \in Worker |-> {1}]
=============================================================================
