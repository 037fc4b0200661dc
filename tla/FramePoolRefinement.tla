------------------------- MODULE FramePoolRefinement -------------------------
(***************************************************************************)
(* The frame pool keeps the promise of FrameStore: the memory there is are *)
(* the frames of the chained zones, and the frames on loan are those the   *)
(* callers hold.                                                           *)
(***************************************************************************)
EXTENDS FramePool

Stock == {f \in Frame : f[1] \in zones /\ f[2] \in 1 .. size[f[1]]}
Held  == {f \in Frame : held[f] > 0}

Store == INSTANCE FrameStore WITH stock <- Stock, held <- Held

\* Seen through its callers the pool is a frame store: every frame it hands out
\* was free, it maps a zone only when all frames are out, and the heartbeat and
\* ft_pool_fini unmap only frames nobody holds.
StoreSpec == Store!Spec
=============================================================================
