--------------------------- MODULE MCTapsListener ---------------------------
(* Model-checking instances of TapsListener; the cfg files choose what the *)
(* application may do and which calls may fail.                            *)
EXTENDS TapsListener
=============================================================================
