---------------------------- MODULE MCLockFreeStack ----------------------------
(* Two threads and three nodes: enough for a node to be popped, freed and pushed *)
(* again while a thread is about to pop it.                                      *)
EXTENDS LockFreeStack
=============================================================================
