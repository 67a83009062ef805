-------------------------- MODULE MCReviewConsole ---------------------------
(* Instances of ReviewConsole for TLC: the constants are given by the cfg. *)
EXTENDS ReviewConsole

=============================================================================
