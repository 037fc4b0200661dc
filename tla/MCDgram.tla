------------------------------- MODULE MCDgram -------------------------------
(* Model checking of Dgram: the sizes and bounds of each run are given in   *)
(* its .cfg.                                                                *)
EXTENDS Dgram
=============================================================================
