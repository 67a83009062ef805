------------------------- MODULE MCDocumentPipeline -------------------------
(* An instance for TLC: the cfg gives the pages and the attempts. *)
EXTENDS EvaluatedPipeline
=============================================================================
