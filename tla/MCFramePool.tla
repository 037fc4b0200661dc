----------------------------- MODULE MCFramePool -----------------------------
(***************************************************************************)
(* An instance of FramePool for TLC: three zone addresses, which are not   *)
(* interchangeable where liveness is checked.                              *)
(***************************************************************************)
EXTENDS FramePoolRefinement
=============================================================================
