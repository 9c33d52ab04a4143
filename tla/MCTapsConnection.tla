-------------------------- MODULE MCTapsConnection --------------------------
(* Model-checking instances of TapsConnection; the bounds and the sets of  *)
(* faults and events are in the cfg files.                                 *)
EXTENDS TapsConnection
=============================================================================
