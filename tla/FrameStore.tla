------------------------------ MODULE FrameStore ------------------------------
(***************************************************************************)
(* What the frame pool promises to its callers, whatever zones it keeps:   *)
(* a frame is lent to one holder at a time, memory is only added when      *)
(* every frame is on loan, and memory is only taken away from under frames *)
(* nobody holds.                                                           *)
(***************************************************************************)
CONSTANT Frame

VARIABLES
  stock,   \* the frames there is memory for
  held     \* the frames on loan

vars == <<stock, held>>

Init == stock = {} /\ held = {}

Lend(f) ==
  /\ f \in stock \ held
  /\ held' = held \cup {f}
  /\ UNCHANGED stock

\* S is new memory and the borrower gets one of its frames.
Grow(S, f) ==
  /\ held = stock
  /\ S \cap stock = {} /\ f \in S
  /\ stock' = stock \cup S
  /\ held' = held \cup {f}

TakeBack(f) ==
  /\ f \in held
  /\ held' = held \ {f}
  /\ UNCHANGED stock

Shrink(S) ==
  /\ S \subseteq stock \ held
  /\ stock' = stock \ S
  /\ UNCHANGED held

Next ==
  \/ \E f \in Frame : Lend(f) \/ TakeBack(f)
  \/ \E S \in SUBSET Frame : Shrink(S) \/ \E f \in S : Grow(S, f)

Spec == Init /\ [][Next]_vars
=============================================================================
