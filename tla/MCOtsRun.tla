------------------------------ MODULE MCOtsRun ------------------------------
EXTENDS OtsRunProperties

(* Object ids in an order unrelated to history: newer commits sort lower. *)
MCSha(c) == 100 - c

AllSteps == Steps \ {"idle"}

NotManifest == AllSteps \ {"manifest"}
=============================================================================
