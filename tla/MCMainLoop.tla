------------------------------ MODULE MCMainLoop ------------------------------
(* A timer of each clock, one bottom half, clocks that run from 1 to 3.      *)
EXTENDS MainLoop
=============================================================================
