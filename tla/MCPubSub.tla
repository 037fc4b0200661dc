------------------------------- MODULE MCPubSub -------------------------------
(* Model checking of PubSub; which subscribers there are is all that matters *)
(* of them, so they may be exchanged where no liveness is checked.           *)
EXTENDS PubSub, TLC
SubSymmetry == Permutations(Sub \ Silent)
=============================================================================
