------------------------------ MODULE MCStream ------------------------------
(* Model checking of Stream: the sizes and bounds of each run are given in *)
(* its .cfg.                                                               *)
EXTENDS Stream
=============================================================================
