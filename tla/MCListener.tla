------------------------------ MODULE MCListener ------------------------------
(* Model checking of Listener with its constants as model values. *)
EXTENDS Listener
=============================================================================
