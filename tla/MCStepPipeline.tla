--------------------------- MODULE MCStepPipeline ---------------------------
(* StepPipeline on small rings, for TLC. *)
EXTENDS StepPipelineQueue

MCStepEvents == {1, 3}
=============================================================================
