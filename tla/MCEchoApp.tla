----------------------------- MODULE MCEchoApp -----------------------------
(* Model-checking instances of EchoApp; the cfg files choose how the peer  *)
(* behaves and what may fail.                                              *)
EXTENDS EchoApp
=============================================================================
