-------------------------- MODULE MCKahinPipeline --------------------------
(* Small instances of KahinPipeline for TLC, which gives the constants their *)
(* values in the .cfg files. *)
EXTENDS KahinPipelineInvariant
=============================================================================
