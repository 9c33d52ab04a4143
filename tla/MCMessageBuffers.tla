-------------------------- MODULE MCMessageBuffers --------------------------
(* Model-checking instance of MessageBuffers; the bounds are in the cfg.   *)
EXTENDS MessageBuffers
=============================================================================
