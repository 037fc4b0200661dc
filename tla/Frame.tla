--------------------------------- MODULE Frame ---------------------------------
(***************************************************************************)
(* Frames and their vecs (src/mempool/frame.c, include/ft/mempool/frame.h  *)
(* and vec.h), as operators on values.  A frame has room for FrameSize     *)
(* bytes; data grow up from its start, and the vecs that say where they    *)
(* are, VecSize bytes each, grow down from its end.                        *)
(*                                                                         *)
(* A frame is its vecs and vec_position, counted from one as sequences are: *)
(* "at" is Len(vecs) + 1 where vec_position has reached vec_limit.  The     *)
(* modules that need the bytes keep them beside it.                        *)
(***************************************************************************)
EXTENDS Integers, Sequences, SequencesExt

CONSTANTS
  FrameSize,    \* the capacity of a frame
  VecSize       \* sizeof(struct ft_vec)

ASSUME FrameAssumption == /\ VecSize \in Nat \ {0} /\ FrameSize \in Nat
                          /\ FrameSize > 2 * VecSize

Vec == [offset : Nat, position : Nat, limit : Nat, capacity : Nat]
NewVec(o, c) == [offset |-> o, position |-> 0, limit |-> c, capacity |-> c]

Sum(f, field) == FoldLeft(LAMBDA n, v : n + v[field], 0, f.vecs)

\* ft_frame_pos: over all vecs, wherever vec_position is.
FramePos(f) == Sum(f, "position")

\* The room left below one more vec.
Space(f) == FrameSize - (Len(f.vecs) + 1) * VecSize

\* ft_frame_format_empty, ft_frame_format_simple.
FormatEmpty == [vecs |-> <<>>, at |-> 1]
FormatSimple == [vecs |-> <<NewVec(0, FrameSize - VecSize)>>, at |-> 1]

\* ft_frame_append_vec: behind the vec before it, if there is room for both the
\* data and the vec.
NextOffset(f) == IF f.vecs = <<>> THEN 0
                 ELSE Last(f.vecs).offset + Last(f.vecs).capacity
Fits(f, c) == NextOffset(f) + c <= Space(f)
AppendVec(f, c) == [f EXCEPT !.vecs = Append(@, NewVec(NextOffset(f), c))]

\* ft_frame_create_vec: anywhere below the vecs.
CreateVec(f, o, c) == [f EXCEPT !.vecs = Append(@, NewVec(o, c))]
\* ft_frame_append_max_vec: all the room there is.
AppendMaxVec(f) == AppendVec(f, Space(f) - NextOffset(f))
\* ft_frame_remove_last_vec
RemoveLastVec(f) == [f EXCEPT !.vecs = Front(@)]

\* ft_frame_get_vec, ft_frame_next_vec and ft_frame_prev_vec: the vec at
\* vec_position, one on, one back.  There is none at the end.
AtEnd(f) == f.at > Len(f.vecs)
GetVec(f) == f.vecs[f.at]
NextVec(f) == IF AtEnd(f) THEN f ELSE [f EXCEPT !.at = @ + 1]
PrevVec(f) == IF f.at = 1 THEN f ELSE [f EXCEPT !.at = @ - 1]

\* ft_vec_advance, ft_vec_flip, ft_vec_trim, and the growing of a vec in place.
Advance(v, n) == [v EXCEPT !.position = @ + n]
FlipVec(v) == [NewVec(v.offset, v.capacity) EXCEPT !.limit = v.position]
Trim(v) == [NewVec(v.offset, v.position) EXCEPT !.position = v.position]
Grow(v, n) == [v EXCEPT !.capacity = @ + n, !.limit = v.capacity + n]
Remaining(v) == v.limit - v.position

\* ft_frame_flip: what was written can be read from the start.
Flip(f) == [vecs |-> [i \in DOMAIN f.vecs |-> FlipVec(f.vecs[i])], at |-> 1]

\* The invariant vec.h states (lines 26 to 43): position <= limit <= capacity, and
\* every vec ends where the next one begins or before it, the last below the vecs
\* themselves.
VecOk(v) == v.position <= v.limit /\ v.limit <= v.capacity
Inside(v, end) == v.offset + v.capacity <= end
WellFormed(f) ==
  /\ f \in [vecs : Seq(Vec), at : Nat] /\ f.at \in 1 .. Len(f.vecs) + 1
  /\ \A i \in DOMAIN f.vecs :
       /\ VecOk(f.vecs[i])
       /\ Inside(f.vecs[i], FrameSize - Len(f.vecs) * VecSize)
       /\ \A j \in DOMAIN f.vecs : i < j => Inside(f.vecs[i], f.vecs[j].offset)
=============================================================================
