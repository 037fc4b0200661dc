------------------------------- MODULE LogProofs -------------------------------
(***************************************************************************)
(* Proofs about frames and about the logging that fills them.              *)
(*                                                                         *)
(* Frames, for every size of a frame and of a vec: whatever is appended,    *)
(* created, removed, advanced, trimmed or flipped, the vecs stay in order,  *)
(* apart from each other and below the descriptions of the vecs.            *)
(*                                                                         *)
(* Logging, for every number of records and frames and every size of both:  *)
(* records come to the sink once and in order, none is lost without a       *)
(* cause, and every frame is free, in hand, queued or taken by others.      *)
(***************************************************************************)
EXTENDS Log, FiniteSetTheorems, TLAPS

\* Writing, trimming and flipping a vec.
LEMMA AdvanceOk ==
  ASSUME NEW v \in Vec, VecOk(v), NEW n \in 0 .. Remaining(v)
  PROVE  /\ Advance(v, n) \in Vec /\ VecOk(Advance(v, n))
         /\ Advance(v, n).offset = v.offset /\ Advance(v, n).capacity = v.capacity
  BY DEF Advance, Remaining, Vec, VecOk

LEMMA TrimOk ==
  ASSUME NEW v \in Vec, VecOk(v)
  PROVE  /\ Trim(v) \in Vec /\ VecOk(Trim(v))
         /\ Trim(v).offset = v.offset /\ Trim(v).capacity <= v.capacity
  BY DEF Trim, NewVec, Vec, VecOk

LEMMA FlipVecOk ==
  ASSUME NEW v \in Vec, VecOk(v)
  PROVE  /\ FlipVec(v) \in Vec /\ VecOk(FlipVec(v))
         /\ FlipVec(v).offset = v.offset /\ FlipVec(v).capacity = v.capacity
  BY DEF FlipVec, NewVec, Vec, VecOk

LEMMA NewVecOk ==
  ASSUME NEW o \in Nat, NEW c \in Nat
  PROVE  NewVec(o, c) \in Vec /\ VecOk(NewVec(o, c))
  BY DEF NewVec, Vec, VecOk

\* What the length of a well-formed frame, its last vec and its end are.
LEMMA Shape ==
  ASSUME NEW f, WellFormed(f)
  PROVE  /\ f.vecs \in Seq(Vec) /\ f.at \in Nat /\ Len(f.vecs) \in Nat
         /\ f \in [vecs : Seq(Vec), at : Nat]
         /\ DOMAIN f.vecs = 1 .. Len(f.vecs)
         /\ \A i \in DOMAIN f.vecs :
              /\ f.vecs[i] \in Vec
              /\ f.vecs[i].offset \in Nat /\ f.vecs[i].position \in Nat
              /\ f.vecs[i].limit \in Nat /\ f.vecs[i].capacity \in Nat
  <1>1. f \in [vecs : Seq(Vec), at : Nat]
    BY DEF WellFormed
  <1>2. f.vecs \in Seq(Vec) /\ f.at \in Nat
    BY <1>1
  <1>3. /\ Len(f.vecs) \in Nat /\ DOMAIN f.vecs = 1 .. Len(f.vecs)
        /\ \A i \in DOMAIN f.vecs : f.vecs[i] \in Vec
    BY <1>2
  <1>4. \A v \in Vec : /\ v.offset \in Nat /\ v.position \in Nat
                        /\ v.limit \in Nat /\ v.capacity \in Nat
    BY DEF Vec
  <1> QED
    BY <1>1, <1>2, <1>3, <1>4

\* The end of the last vec is behind every vec.
LEMMA NextOffsetIsBehind ==
  ASSUME NEW f, WellFormed(f)
  PROVE  /\ NextOffset(f) \in Nat
         /\ \A i \in DOMAIN f.vecs : Inside(f.vecs[i], NextOffset(f))
  <1>1. CASE f.vecs = <<>>
    BY <1>1 DEF NextOffset
  <1>2. CASE f.vecs # <<>>
    <2>1. Len(f.vecs) \in DOMAIN f.vecs /\ Last(f.vecs) = f.vecs[Len(f.vecs)]
      BY <1>2, Shape DEF Last
    <2>2. NextOffset(f) = Last(f.vecs).offset + Last(f.vecs).capacity
      BY <1>2 DEF NextOffset
    <2> DEFINE l == f.vecs[Len(f.vecs)]
    <2>3. ASSUME NEW i \in DOMAIN f.vecs
          PROVE  Inside(f.vecs[i], l.offset + l.capacity)
      <3>1. CASE i = Len(f.vecs)
        BY <3>1, <2>1, Shape DEF Inside
      <3>2. CASE i # Len(f.vecs)
        <4>1. i < Len(f.vecs)
          BY <3>2, Shape
        <4>2. Inside(f.vecs[i], l.offset)
          BY <4>1, <2>1 DEF WellFormed
        <4> QED
          BY <4>2, <2>1, Shape DEF Inside
      <3> QED
        BY <3>1, <3>2
    <2>4. NextOffset(f) = l.offset + l.capacity /\ NextOffset(f) \in Nat
      BY <2>1, <2>2, Shape
    <2> QED
      BY <2>3, <2>4
  <1> QED
    BY <1>1, <1>2

\* A vec created behind the others, with room for it and for its description
\* (ft_frame_create_vec).
LEMMA CreateVecOk ==
  ASSUME NEW f, WellFormed(f), NEW o \in Nat, NEW c \in Nat,
         NextOffset(f) <= o, o + c <= Space(f)
  PROVE  WellFormed(CreateVec(f, o, c))
  <1> DEFINE g == CreateVec(f, o, c)
             n == Len(f.vecs)
  <1>a. n \in Nat /\ DOMAIN f.vecs = 1 .. n /\ f \in [vecs : Seq(Vec), at : Nat]
    BY Shape
  <1>b. Append(f.vecs, NewVec(o, c)) \in Seq(Vec)
    BY Shape, NewVecOk
  <1>c. /\ g \in [vecs : Seq(Vec), at : Nat] /\ g.at = f.at
        /\ g.vecs = Append(f.vecs, NewVec(o, c))
    BY <1>a, <1>b DEF CreateVec
  <1>1. n \in Nat /\ DOMAIN f.vecs = 1 .. n
    BY <1>a
  <1>2. /\ g.vecs \in Seq(Vec) /\ Len(g.vecs) = n + 1 /\ DOMAIN g.vecs = 1 .. n + 1
        /\ \A i \in 1 .. n : g.vecs[i] = f.vecs[i]
        /\ g.vecs[n + 1] = NewVec(o, c)
    BY <1>1, <1>c, Shape, NewVecOk
  <1>3. g \in [vecs : Seq(Vec), at : Nat] /\ g.at \in 1 .. Len(g.vecs) + 1
    BY <1>1, <1>2, <1>c DEF WellFormed
  <1>4. NextOffset(f) \in Nat /\ \A i \in 1 .. n : Inside(f.vecs[i], NextOffset(f))
    BY <1>1, NextOffsetIsBehind
  <1>5. Space(f) = FrameSize - (n + 1) * VecSize /\ Space(f) \in Int
    BY <1>1, FrameAssumption DEF Space
  <1>6. NewVec(o, c).offset = o /\ NewVec(o, c).capacity = c
    BY DEF NewVec
  <1>7. ASSUME NEW i \in 1 .. n
        PROVE  Inside(f.vecs[i], o) /\ Inside(f.vecs[i], Space(f))
    BY <1>1, <1>4, <1>5, Shape DEF Inside
  <1>8. ASSUME NEW i \in DOMAIN g.vecs
        PROVE  /\ VecOk(g.vecs[i])
               /\ Inside(g.vecs[i], FrameSize - Len(g.vecs) * VecSize)
               /\ \A j \in DOMAIN g.vecs : i < j => Inside(g.vecs[i], g.vecs[j].offset)
    <2>1. CASE i \in 1 .. n
      <3>1. VecOk(g.vecs[i]) /\ Inside(g.vecs[i], Space(f))
        BY <2>1, <1>1, <1>2, <1>7 DEF WellFormed
      <3>2. ASSUME NEW j \in DOMAIN g.vecs, i < j
            PROVE  Inside(g.vecs[i], g.vecs[j].offset)
        <4>1. CASE j \in 1 .. n
          BY <2>1, <3>2, <4>1, <1>1, <1>2 DEF WellFormed
        <4>2. CASE j = n + 1
          BY <2>1, <4>2, <1>2, <1>6, <1>7
        <4> QED
          BY <4>1, <4>2, <1>1, <1>2
      <3> QED
        BY <3>1, <3>2, <1>2, <1>5
    <2>2. CASE i = n + 1
      BY <2>2, <1>1, <1>2, <1>5, <1>6, NewVecOk DEF Inside
    <2> QED
      BY <2>1, <2>2, <1>1, <1>2
  <1> QED
    BY <1>3, <1>8 DEF WellFormed

\* A vec in its place: moved neither down nor beyond its old end.
LEMMA ReplaceVecOk ==
  ASSUME NEW f, WellFormed(f), NEW i \in DOMAIN f.vecs, NEW v \in Vec, VecOk(v),
         v.offset = f.vecs[i].offset, v.capacity <= f.vecs[i].capacity
  PROVE  WellFormed([f EXCEPT !.vecs[i] = v])
  <1> DEFINE g == [f EXCEPT !.vecs[i] = v]
             s == [f.vecs EXCEPT ![i] = v]
             n == Len(f.vecs)
  <1>a. n \in Nat /\ DOMAIN f.vecs = 1 .. n /\ f \in [vecs : Seq(Vec), at : Nat]
    BY Shape
  <1>b. s \in Seq(Vec)
    BY <1>a, Shape
  <1>1. /\ n \in Nat /\ DOMAIN f.vecs = 1 .. n
        /\ g \in [vecs : Seq(Vec), at : Nat] /\ g.vecs = s /\ g.at = f.at
    BY <1>a, <1>b
  <1>2. s \in Seq(Vec) /\ Len(s) = n /\ DOMAIN s = 1 .. n
    BY <1>1, Shape
  <1>3. \A j \in 1 .. n : s[j] = IF j = i THEN v ELSE f.vecs[j]
    BY <1>1
  <1>4. g \in [vecs : Seq(Vec), at : Nat] /\ g.at \in 1 .. Len(g.vecs) + 1
    BY <1>1, <1>2, Shape DEF WellFormed
  <1>5. \A j \in 1 .. n : /\ s[j].offset = f.vecs[j].offset
                          /\ s[j].capacity <= f.vecs[j].capacity
                          /\ s[j].capacity \in Nat /\ VecOk(s[j])
    <2> SUFFICES ASSUME NEW j \in 1 .. n
                 PROVE  /\ s[j].offset = f.vecs[j].offset
                        /\ s[j].capacity <= f.vecs[j].capacity
                        /\ s[j].capacity \in Nat /\ VecOk(s[j])
      OBVIOUS
    <2>1. CASE j = i
      <3>1. s[j] = v
        BY <2>1, <1>3
      <3>2. v.capacity \in Nat
        BY DEF Vec
      <3>3. f.vecs[j] = f.vecs[i]
        BY <2>1
      <3> DEFINE w == s[j]
                 u == f.vecs[j]
      <3>4. w = v /\ u.offset = v.offset /\ v.capacity <= u.capacity
        BY <3>1, <3>3
      <3> HIDE DEF w, u
      <3>5. w.offset = u.offset /\ w.capacity <= u.capacity /\ w.capacity \in Nat /\ VecOk(w)
        BY <3>2, <3>4
      <3> QED
        BY <3>5 DEF w, u
    <2>2. CASE j # i
      <3> DEFINE w == s[j]
                 u == f.vecs[j]
      <3>1. w = u
        BY <2>2, <1>3
      <3>2. u.offset \in Nat /\ u.capacity \in Nat /\ VecOk(u)
        BY <1>1, Shape DEF WellFormed
      <3> HIDE DEF w, u
      <3>3. w.offset = u.offset /\ w.capacity <= u.capacity /\ w.capacity \in Nat /\ VecOk(w)
        BY <3>1, <3>2
      <3> QED
        BY <3>3 DEF w, u
    <2> QED
      BY <2>1, <2>2
  <1>6. n * VecSize \in Nat /\ FrameSize \in Nat
    BY <1>1, FrameAssumption
  <1>7. ASSUME NEW j \in 1 .. n
        PROVE  /\ VecOk(s[j]) /\ Inside(s[j], FrameSize - n * VecSize)
               /\ \A k \in 1 .. n : j < k => Inside(s[j], s[k].offset)
    <2>1. \A end \in Int : Inside(f.vecs[j], end) => Inside(s[j], end)
      BY <1>1, <1>5, Shape DEF Inside
    <2>2. ASSUME NEW k \in 1 .. n, j < k PROVE Inside(s[j], s[k].offset)
      <3>1. Inside(f.vecs[j], f.vecs[k].offset)
        BY <2>2, <1>1 DEF WellFormed
      <3>2. f.vecs[k].offset \in Int /\ s[k].offset = f.vecs[k].offset
        BY <1>1, <1>5, Shape
      <3> QED
        BY <2>1, <3>1, <3>2
    <2> QED
      BY <2>1, <2>2, <1>1, <1>5, <1>6 DEF WellFormed
  <1> QED
    BY <1>1, <1>2, <1>4, <1>7 DEF WellFormed
-----------------------------------------------------------------------------
\* ft_frame_format_empty and ft_frame_format_simple leave a sound frame.
THEOREM FormatsSound == WellFormed(FormatEmpty) /\ WellFormed(FormatSimple)
  <1>1. WellFormed(FormatEmpty)
    BY DEF FormatEmpty, WellFormed
  <1>2. NextOffset(FormatEmpty) = 0 /\ Space(FormatEmpty) = FrameSize - VecSize
    BY FrameAssumption DEF NextOffset, Space, FormatEmpty
  <1>3. FormatSimple = CreateVec(FormatEmpty, 0, FrameSize - VecSize)
    BY DEF FormatSimple, CreateVec, FormatEmpty
  <1> QED
    BY <1>1, <1>2, <1>3, CreateVecOk, FrameAssumption

\* Whatever ft_frame_append_vec does not refuse keeps the vecs apart and above
\* their data, for any sizes; so does ft_frame_append_max_vec where there is room
\* for one more vec at all, and it fills the frame.
THEOREM AppendSound ==
  ASSUME NEW f, WellFormed(f)
  PROVE  /\ \A c \in Nat : Fits(f, c) => WellFormed(AppendVec(f, c))
         /\ Fits(f, 0) => WellFormed(AppendMaxVec(f)) /\ ~Fits(AppendMaxVec(f), 0)
  <1>1. /\ NextOffset(f) \in Nat /\ Space(f) \in Int
        /\ \A c : AppendVec(f, c) = CreateVec(f, NextOffset(f), c)
    BY NextOffsetIsBehind, Shape, FrameAssumption DEF Space, AppendVec, CreateVec
  <1>2. \A c \in Nat : Fits(f, c) => WellFormed(AppendVec(f, c))
    BY <1>1, CreateVecOk DEF Fits
  <1>3. ASSUME Fits(f, 0)
        PROVE  WellFormed(AppendMaxVec(f)) /\ ~Fits(AppendMaxVec(f), 0)
    <2> DEFINE c == Space(f) - NextOffset(f)
               g == AppendMaxVec(f)
               w == NewVec(NextOffset(f), c)
               n == Len(f.vecs)
    <2>1. c \in Nat /\ Fits(f, c) /\ g = AppendVec(f, c)
      BY <1>1, <1>3 DEF Fits, AppendMaxVec
    <2>2. n \in Nat /\ g.vecs = Append(f.vecs, w)
      BY <2>1, Shape DEF AppendVec
    <2>3. g.vecs # <<>> /\ Last(g.vecs) = w /\ Len(g.vecs) = n + 1
      BY <2>1, <2>2, <1>1, Shape, NewVecOk DEF Last
    <2>4. NextOffset(g) = Space(f)
      BY <2>1, <2>3, <1>1 DEF NextOffset, NewVec
    <2>5. Space(f) = FrameSize - (n + 1) * VecSize /\ Space(g) = FrameSize - (n + 2) * VecSize
      BY <2>2, <2>3 DEF Space
    <2>6. (n + 2) * VecSize = (n + 1) * VecSize + VecSize /\ (n + 1) * VecSize \in Nat
      BY <2>2, FrameAssumption
    <2>7. ~Fits(g, 0)
      BY <2>4, <2>5, <2>6, FrameAssumption DEF Fits
    <2> QED
      BY <1>2, <2>1, <2>7
  <1> QED
    BY <1>2, <1>3

\* Writing into a vec no further than its limit, trimming it to what has been
\* written (ft_vec_advance, ft_vec_trim) and flipping a frame to read it
\* (ft_frame_flip) leave it sound.
THEOREM VecChangesSound ==
  ASSUME NEW f, WellFormed(f)
  PROVE  /\ \A i \in DOMAIN f.vecs : \A n \in 0 .. Remaining(f.vecs[i]) :
              WellFormed([f EXCEPT !.vecs[i] = Advance(f.vecs[i], n)])
         /\ \A i \in DOMAIN f.vecs :
              WellFormed([f EXCEPT !.vecs[i] = Trim(f.vecs[i])])
         /\ WellFormed(Flip(f))
  <1>1. ASSUME NEW i \in DOMAIN f.vecs, NEW n \in 0 .. Remaining(f.vecs[i])
        PROVE  WellFormed([f EXCEPT !.vecs[i] = Advance(f.vecs[i], n)])
    <2> DEFINE v == f.vecs[i]
               w == Advance(v, n)
    <2>1. v \in Vec /\ VecOk(v)
      BY Shape DEF WellFormed
    <2>2. w \in Vec /\ VecOk(w) /\ w.offset = v.offset /\ w.capacity = v.capacity
      BY <2>1, AdvanceOk
    <2> QED
      BY <2>1, <2>2, ReplaceVecOk DEF Vec
  <1>2. ASSUME NEW i \in DOMAIN f.vecs
        PROVE  WellFormed([f EXCEPT !.vecs[i] = Trim(f.vecs[i])])
    <2> DEFINE v == f.vecs[i]
               w == Trim(v)
    <2>1. v \in Vec /\ VecOk(v)
      BY Shape DEF WellFormed
    <2>2. w \in Vec /\ VecOk(w) /\ w.offset = v.offset /\ w.capacity <= v.capacity
      BY <2>1, TrimOk
    <2> QED
      BY <2>2, ReplaceVecOk
  <1>3. WellFormed(Flip(f))
    <2> DEFINE s == Flip(f).vecs
               n == Len(f.vecs)
    <2>1. n \in Nat /\ DOMAIN f.vecs = 1 .. n
      BY Shape
    <2>2. DOMAIN s = 1 .. n /\ \A i \in 1 .. n : s[i] = FlipVec(f.vecs[i])
      BY <2>1 DEF Flip
    <2>3. \A i \in 1 .. n : /\ s[i] \in Vec /\ VecOk(s[i])
                            /\ s[i].offset = f.vecs[i].offset
                            /\ s[i].capacity = f.vecs[i].capacity
      <3>1. \A i \in 1 .. n : f.vecs[i] \in Vec /\ VecOk(f.vecs[i])
        BY <2>1, Shape DEF WellFormed
      <3> QED
        BY <2>2, <3>1, FlipVecOk
    <2>4. s = [i \in 1 .. n |-> FlipVec(f.vecs[i])]
      BY <2>1 DEF Flip
    <2>5. s \in Seq(Vec) /\ Len(s) = n
      BY <2>1, <2>2, <2>3, <2>4
    <2>6. Flip(f) = [vecs |-> s, at |-> 1] /\ Flip(f) \in [vecs : Seq(Vec), at : Nat]
      BY <2>5 DEF Flip
    <2>7. \A i \in 1 .. n : \A end : Inside(s[i], end) <=> Inside(f.vecs[i], end)
      BY <2>3 DEF Inside
    <2>8. \A i \in DOMAIN s :
            /\ VecOk(s[i]) /\ Inside(s[i], FrameSize - Len(s) * VecSize)
            /\ \A j \in DOMAIN s : i < j => Inside(s[i], s[j].offset)
      BY <2>1, <2>2, <2>3, <2>5, <2>7 DEF WellFormed
    <2> QED
      BY <2>5, <2>6, <2>8, <2>1 DEF WellFormed
  <1> QED
    BY <1>1, <1>2, <1>3

\* Going to the next and the previous vec never leaves the frame.  Taking the last
\* vec away (ft_frame_remove_last_vec) leaves vec_position alone: the frame stays
\* sound only if that was not at the end.
THEOREM MovesSound ==
  ASSUME NEW f, WellFormed(f)
  PROVE  /\ WellFormed(NextVec(f)) /\ WellFormed(PrevVec(f))
         /\ ~AtEnd(f) => WellFormed(RemoveLastVec(f))
  <1>1. WellFormed(NextVec(f))
    <2>1. CASE AtEnd(f)
      BY <2>1 DEF NextVec
    <2>2. CASE ~AtEnd(f)
      BY <2>2, Shape DEF NextVec, AtEnd, WellFormed
    <2> QED
      BY <2>1, <2>2
  <1>2. WellFormed(PrevVec(f))
    <2>1. CASE f.at = 1
      BY <2>1 DEF PrevVec
    <2>2. CASE f.at # 1
      BY <2>2, Shape DEF PrevVec, WellFormed
    <2> QED
      BY <2>1, <2>2
  <1>3. ASSUME ~AtEnd(f) PROVE WellFormed(RemoveLastVec(f))
    <2> DEFINE g == RemoveLastVec(f)
               n == Len(f.vecs)
    <2>1. n \in Nat \ {0} /\ DOMAIN f.vecs = 1 .. n /\ f.at \in 1 .. n
      BY <1>3, Shape DEF AtEnd, WellFormed
    <2>2. g = [vecs |-> SubSeq(f.vecs, 1, n - 1), at |-> f.at]
      BY Shape DEF RemoveLastVec, Front
    <2>3. /\ g.vecs \in Seq(Vec) /\ Len(g.vecs) = n - 1 /\ DOMAIN g.vecs = 1 .. n - 1
          /\ \A i \in 1 .. n - 1 : g.vecs[i] = f.vecs[i]
      BY <2>1, <2>2, Shape
    <2>4. g \in [vecs : Seq(Vec), at : Nat] /\ g.at \in 1 .. Len(g.vecs) + 1
      BY <2>1, <2>2, <2>3
    <2>5. /\ n * VecSize = (n - 1) * VecSize + VecSize
          /\ n * VecSize \in Nat /\ (n - 1) * VecSize \in Nat
      BY <2>1, FrameAssumption
    <2>6. \A i \in 1 .. n - 1 : Inside(f.vecs[i], FrameSize - (n - 1) * VecSize)
      <3> SUFFICES ASSUME NEW i \in 1 .. n - 1
                   PROVE  Inside(f.vecs[i], FrameSize - (n - 1) * VecSize)
        OBVIOUS
      <3>1. Inside(f.vecs[i], FrameSize - n * VecSize)
        BY <2>1 DEF WellFormed
      <3>2. f.vecs[i].offset \in Nat /\ f.vecs[i].capacity \in Nat
        BY <2>1, Shape
      <3> HIDE DEF n
      <3> QED
        BY <2>5, <3>1, <3>2, FrameAssumption DEF Inside
    <2>7. ASSUME NEW i \in 1 .. n - 1
          PROVE  /\ VecOk(f.vecs[i])
                 /\ \A j \in 1 .. n - 1 : i < j => Inside(f.vecs[i], f.vecs[j].offset)
      <3>1. \A j \in 1 .. n - 1 : j \in DOMAIN f.vecs
        BY <2>1
      <3>2. /\ VecOk(f.vecs[i])
            /\ \A j \in DOMAIN f.vecs : i < j => Inside(f.vecs[i], f.vecs[j].offset)
        BY <3>1 DEF WellFormed
      <3> QED
        BY <3>1, <3>2
    <2>8. \A i \in DOMAIN g.vecs :
            /\ VecOk(g.vecs[i]) /\ Inside(g.vecs[i], FrameSize - Len(g.vecs) * VecSize)
            /\ \A j \in DOMAIN g.vecs : i < j => Inside(g.vecs[i], g.vecs[j].offset)
      BY SMTT(30), <2>3, <2>6, <2>7
    <2> QED
      BY <2>4, <2>8 DEF WellFormed
  <1> QED
    BY <1>1, <1>2, <1>3
-----------------------------------------------------------------------------
\* All there is to know of the logging, with its types.
Cell == [id : Nat, last : BOOLEAN]
FileState == [name : BOOLEAN, open : BOOLEAN, buffer : Seq(Nat), disk : Seq(Nat),
              counter : Nat, last : {"past", "1e77"}]
Socket == [claimed : BOOLEAN, up : BOOLEAN, open : BOOLEAN, ready : BOOLEAN,
           watch : BOOLEAN, failed : BOOLEAN]
State == [backend : {"file", "syslog", None}, file : FileState,
          frame : {None} \cup LogFrame, sock : Socket, queue : Seq(Cell), free : Nat,
          phase : {"running", "crashed", "looping", "retrying"}, sent : Seq(Nat),
          err : Seq(Nat), dry : BOOLEAN, le : {None} \cup Record]

\* The socket of the syslog backend has been initialised, and is open until it fails.
Usable(g) ==
  /\ g.sock.up => g.sock.claimed /\ (g.sock.open \/ g.sock.failed)
  /\ g.backend = "syslog" \/ g.frame # None => g.sock.up
FrameSound(g) == g.frame # None => WellFormed(g.frame.f)
Good(g) == g \in State /\ Usable(g) /\ FrameSound(g) /\ InOrder(g)

Lasts(q) == Cardinality({i \in DOMAIN q : q[i].last})
Acct(g) == g.free + (IF g.frame = None THEN 0 ELSE 1) + Lasts(g.queue)

\* What a step from g to h does to the records: at most "x" comes to a sink, besides
\* records of libft's own, and none is lost unless the socket has failed.
Gains(s, t, x) == Range(t) \subseteq Range(s) \cup {0, x}
Keeps(g, h, x) ==
  /\ g.sock.failed => h.sock.failed
  /\ g.dry => h.dry
  /\ Gains(ToSyslog(g), ToSyslog(h), x)
  /\ Gains(ToFile(g), ToFile(h), x)
  /\ Gains(g.err, h.err, x)
  /\ \A id \in Somewhere(g) \ {0} : id \in Somewhere(h) \/ h.sock.failed
  /\ Acct(h) = Acct(g)
LeKept(g, h) ==
  \/ h.le = g.le
  \/ /\ g.le # None /\ g.le.plain /\ h.le = [g.le EXCEPT !.id = 0]
     /\ h.dry \/ h.sock.failed
Moves(g, h, x) ==
  /\ Keeps(g, h, x) /\ LeKept(g, h)
  /\ h.backend = g.backend /\ h.sock.up = g.sock.up
  /\ Gains(Framed(g), Framed(h), x)

Fresh(g, x) == x = 0 \/ \A id \in Somewhere(g) : id < x

Inv ==
  /\ Good(Log)
  /\ taken \in Nat /\ Acct(Log) + taken = Frames
  /\ logged \in Seq(BOOLEAN) /\ Somewhere(Log) \subseteq 0 .. Len(logged)
  /\ LostOnlyWithCause
-----------------------------------------------------------------------------
\* Sequences of records, one behind the other.
Before(s, t) ==
  \A x \in Range(s), y \in Range(t) : 0 \notin {x, y} => x < y

LEMMA ConcatType ==
  ASSUME NEW s \in Seq(Nat), NEW t \in Seq(Nat)
  PROVE  s \o t \in Seq(Nat) /\ Range(s) \subseteq Nat
  BY DEF Range

LEMMA ConcatRange ==
  ASSUME NEW s \in Seq(Nat), NEW t \in Seq(Nat)
  PROVE  Range(s \o t) = Range(s) \cup Range(t)
<1>1. DOMAIN s = 1 .. Len(s) /\ DOMAIN t = 1 .. Len(t) /\ Len(s) \in Nat /\ Len(t) \in Nat
  OBVIOUS
<1>2. /\ DOMAIN (s \o t) = 1 .. Len(s) + Len(t)
      /\ \A i \in 1 .. Len(s) : (s \o t)[i] = s[i]
      /\ \A i \in 1 .. Len(t) : (s \o t)[Len(s) + i] = t[i]
      /\ \A i \in (Len(s) + 1) .. (Len(s) + Len(t)) : (s \o t)[i] = t[i - Len(s)]
  BY <1>1
<1>3. ASSUME NEW x \in Range(s \o t) PROVE x \in Range(s) \cup Range(t)
  <2>1. PICK i \in 1 .. Len(s) + Len(t) : x = (s \o t)[i]
    BY <1>2 DEF Range
  <2>2. CASE i \in 1 .. Len(s)
    BY <2>1, <2>2, <1>1, <1>2 DEF Range
  <2>3. CASE i \in (Len(s) + 1) .. (Len(s) + Len(t))
    <3>1. x = t[i - Len(s)] /\ i - Len(s) \in 1 .. Len(t)
      BY <2>1, <2>3, <1>1, <1>2
    <3> QED
      BY <3>1, <1>1 DEF Range
  <2> QED
    BY <2>2, <2>3, <1>1
<1>4. ASSUME NEW x \in Range(s) PROVE x \in Range(s \o t)
  <2>1. PICK i \in 1 .. Len(s) : x = s[i]
    BY <1>1 DEF Range
  <2>2. i \in DOMAIN (s \o t) /\ x = (s \o t)[i]
    BY <2>1, <1>1, <1>2
  <2> QED
    BY <2>2 DEF Range
<1>5. ASSUME NEW x \in Range(t) PROVE x \in Range(s \o t)
  <2>1. PICK i \in 1 .. Len(t) : x = t[i]
    BY <1>1 DEF Range
  <2>2. Len(s) + i \in DOMAIN (s \o t) /\ x = (s \o t)[Len(s) + i]
    BY <2>1, <1>1, <1>2
  <2> QED
    BY <2>2 DEF Range
<1> QED
  BY <1>3, <1>4, <1>5

LEMMA ConcatAscending ==
  ASSUME NEW s \in Seq(Nat), NEW t \in Seq(Nat)
  PROVE  Ascending(s \o t) <=> Ascending(s) /\ Ascending(t) /\ Before(s, t)
<1> DEFINE u == s \o t
           m == Len(s)
           n == Len(t)
<1>1. DOMAIN s = 1 .. m /\ DOMAIN t = 1 .. n /\ m \in Nat /\ n \in Nat
  OBVIOUS
<1>2. /\ DOMAIN u = 1 .. m + n
      /\ \A i \in 1 .. m : u[i] = s[i] /\ s[i] \in Nat
      /\ \A i \in 1 .. n : u[m + i] = t[i] /\ t[i] \in Nat
      /\ \A i \in (m + 1) .. (m + n) : u[i] = t[i - m]
  BY <1>1
<1> HIDE DEF u, m, n
<1>3. ASSUME Ascending(u) PROVE Ascending(s) /\ Ascending(t) /\ Before(s, t)
  <2>1. Ascending(s)
    BY <1>1, <1>2, <1>3 DEF Ascending
  <2>2. Ascending(t)
    <3> SUFFICES ASSUME NEW i \in 1 .. n, NEW j \in 1 .. n, i < j, 0 \notin {t[i], t[j]}
                 PROVE  t[i] < t[j]
      BY <1>1 DEF Ascending
    <3>1. m + i \in 1 .. m + n /\ m + j \in 1 .. m + n /\ m + i < m + j
      BY <1>1
    <3>2. u[m + i] = t[i] /\ u[m + j] = t[j]
      BY <1>2
    <3> QED
      BY <3>1, <3>2, <1>2, <1>3 DEF Ascending
  <2>3. Before(s, t)
    <3> SUFFICES ASSUME NEW i \in 1 .. m, NEW j \in 1 .. n, 0 \notin {s[i], t[j]}
                 PROVE  s[i] < t[j]
      BY <1>1 DEF Before, Range
    <3>1. i \in 1 .. m + n /\ m + j \in 1 .. m + n /\ i < m + j
      BY <1>1
    <3>2. u[i] = s[i] /\ u[m + j] = t[j]
      BY <1>2
    <3> QED
      BY <3>1, <3>2, <1>2, <1>3 DEF Ascending
  <2> QED
    BY <2>1, <2>2, <2>3
<1>4. ASSUME Ascending(s), Ascending(t), Before(s, t) PROVE Ascending(u)
  <2> SUFFICES ASSUME NEW i \in 1 .. m + n, NEW j \in 1 .. m + n, i < j,
                      0 \notin {u[i], u[j]}
               PROVE  u[i] < u[j]
    BY <1>2 DEF Ascending
  <2>1. CASE j \in 1 .. m
    <3>1. i \in 1 .. m
      BY <2>1, <1>1
    <3> QED
      BY <2>1, <3>1, <1>1, <1>2, <1>4 DEF Ascending
  <2>2. CASE i \in 1 .. m /\ j \in (m + 1) .. (m + n)
    <3>1. j - m \in 1 .. n /\ u[j] = t[j - m] /\ u[i] = s[i]
      BY <2>2, <1>1, <1>2
    <3>2. u[i] \in Range(s) /\ u[j] \in Range(t)
      BY <3>1, <2>2, <1>1 DEF Range
    <3> QED
      BY <3>2, <1>4 DEF Before
  <2>3. CASE i \in (m + 1) .. (m + n) /\ j \in (m + 1) .. (m + n)
    <3>1. j - m \in 1 .. n /\ u[j] = t[j - m] /\ i - m \in 1 .. n /\ u[i] = t[i - m]
          /\ i - m < j - m
      BY <2>3, <1>1, <1>2
    <3> QED
      BY <3>1, <1>1, <1>4 DEF Ascending
  <2> QED
    BY <2>1, <2>2, <2>3, <1>1
<1> QED
  BY <1>3, <1>4 DEF u

LEMMA ConcatEmpty ==
  ASSUME NEW s \in Seq(Nat)
  PROVE  s \o <<>> = s /\ <<>> \o s = s
  OBVIOUS

LEMMA ConcatConcat ==
  ASSUME NEW s \in Seq(Nat), NEW t \in Seq(Nat), NEW u \in Seq(Nat)
  PROVE  (s \o t) \o u = s \o (t \o u)
  OBVIOUS

LEMMA RangeOfOne == \A x : Range(<<x>>) = {x} /\ Range(<<>>) = {}
  BY DEF Range

\* A record of libft's own, or a new one, behind the others.
LEMMA AppendAscending ==
  ASSUME NEW s \in Seq(Nat), Ascending(s), NEW x \in Nat,
         x = 0 \/ \A y \in Range(s) : y < x
  PROVE  Ascending(s \o <<x>>) /\ s \o <<x>> \in Seq(Nat)
         /\ Range(s \o <<x>>) = Range(s) \cup {x}
<1>1. <<x>> \in Seq(Nat) /\ Ascending(<<x>>) /\ Range(<<x>>) = {x}
  BY DEF Ascending, Range
<1>2. Before(s, <<x>>)
  BY <1>1 DEF Before
<1>3. Ascending(s \o <<x>>)
  BY <1>1, <1>2, ConcatAscending
<1>4. Range(s \o <<x>>) = Range(s) \cup {x}
  BY <1>1, ConcatRange
<1>5. s \o <<x>> \in Seq(Nat)
  BY <1>1, ConcatType
<1> QED
  BY <1>3, <1>4, <1>5

\* Numbered takes a record of libft's own for none.
LEMMA NumberedAscending ==
  ASSUME NEW s \in Seq(Nat), Ascending(s), NEW x \in Nat,
         x = 0 \/ \A y \in Range(s) : y < x
  PROVE  /\ Ascending(s \o Numbered(x)) /\ s \o Numbered(x) \in Seq(Nat)
         /\ Range(s \o Numbered(x)) = Range(s) \cup ({x} \ {0})
<1>1. CASE x = 0
  BY <1>1, ConcatEmpty DEF Numbered
<1>2. CASE x # 0
  BY <1>2, AppendAscending DEF Numbered
<1> QED
  BY <1>1, <1>2
-----------------------------------------------------------------------------
\* The types of the parts of a state.
LEMMA StateTypes ==
  ASSUME NEW g \in State
  PROVE  /\ g.backend \in {"file", "syslog", None} /\ g.file \in FileState
         /\ g.frame \in {None} \cup LogFrame /\ g.sock \in Socket
         /\ g.queue \in Seq(Cell) /\ g.free \in Nat /\ g.sent \in Seq(Nat)
         /\ g.err \in Seq(Nat) /\ g.dry \in BOOLEAN /\ g.le \in {None} \cup Record
         /\ g.phase \in {"running", "crashed", "looping", "retrying"}
         /\ g.file.buffer \in Seq(Nat) /\ g.file.disk \in Seq(Nat)
  BY DEF State, FileState

LEMMA FrameTypes ==
  ASSUME NEW g \in State, g.frame # None
  PROVE  /\ g.frame \in LogFrame /\ g.frame.ids \in Seq(Nat)
         /\ g.frame.f \in [vecs : Seq(Vec), at : Nat]
         /\ Framed(g) = g.frame.ids
<1>1. g.frame \in LogFrame
  BY StateTypes
<1> QED
  BY <1>1 DEF LogFrame, Framed

LEMMA Sinks ==
  ASSUME NEW g \in State
  PROVE  /\ Queued(g) \in Seq(Nat) /\ Framed(g) \in Seq(Nat)
         /\ ToSyslog(g) \in Seq(Nat) /\ ToFile(g) \in Seq(Nat)
         /\ g.sent \o Queued(g) \in Seq(Nat)
         /\ ToSyslog(g) = (g.sent \o Queued(g)) \o Framed(g)
         /\ Range(ToSyslog(g)) = Range(g.sent) \cup Range(Queued(g)) \cup Range(Framed(g))
         /\ Range(ToFile(g)) = Range(g.file.disk) \cup Range(g.file.buffer)
<1>1. Queued(g) \in Seq(Nat)
  <2> DEFINE q == g.queue
  <2>1. q \in Seq(Cell)
    BY StateTypes
  <2>2. Queued(g) = [i \in DOMAIN q |-> q[i].id]
    BY DEF Queued
  <2> HIDE DEF q
  <2>3. Len(q) \in Nat /\ DOMAIN q = 1 .. Len(q) /\ \A i \in 1 .. Len(q) : q[i] \in Cell
    BY <2>1
  <2>4. \A i \in 1 .. Len(q) : q[i].id \in Nat
    BY <2>3 DEF Cell
  <2> QED
    BY <2>2, <2>3, <2>4
<1>2. Framed(g) \in Seq(Nat)
  BY FrameTypes DEF Framed
<1>3. g.sent \in Seq(Nat) /\ g.file.buffer \in Seq(Nat) /\ g.file.disk \in Seq(Nat)
  BY StateTypes
<1>4. g.sent \o Queued(g) \in Seq(Nat) /\ ToSyslog(g) = (g.sent \o Queued(g)) \o Framed(g)
  BY <1>1, <1>2, <1>3, ConcatType DEF ToSyslog
<1>5. ToSyslog(g) \in Seq(Nat) /\ ToFile(g) \in Seq(Nat)
  BY <1>1, <1>2, <1>3, <1>4, ConcatType DEF ToFile
<1>6. Range(g.sent \o Queued(g)) = Range(g.sent) \cup Range(Queued(g))
  BY <1>1, <1>3, ConcatRange
<1>7. Range(ToSyslog(g)) = Range(g.sent \o Queued(g)) \cup Range(Framed(g))
  BY <1>2, <1>4, ConcatRange
<1>8. Range(ToFile(g)) = Range(g.file.disk) \cup Range(g.file.buffer)
  BY <1>3, ConcatRange DEF ToFile
<1> QED
  BY <1>1, <1>2, <1>4, <1>5, <1>6, <1>7, <1>8

LEMMA SinkTypes ==
  ASSUME NEW g \in State
  PROVE  Somewhere(g) \subseteq Nat
<1>1. g.err \in Seq(Nat)
  BY StateTypes
<1> QED
  BY <1>1, Sinks, ConcatType DEF Somewhere

\* The relation between two states is transitive.
LEMMA GainsTrans ==
  ASSUME NEW s, NEW t, NEW u, NEW x, NEW y, Gains(s, t, x), Gains(t, u, y),
         x = y \/ x = 0 \/ y = 0
  PROVE  Gains(s, u, IF x = 0 THEN y ELSE x)
  BY DEF Gains

LEMMA KeepsTrans ==
  ASSUME NEW g, NEW h, NEW k, NEW x, Keeps(g, h, 0), Keeps(h, k, x)
  PROVE  Keeps(g, k, x)
  BY DEF Keeps, Gains

LEMMA KeepsTransLeft ==
  ASSUME NEW g, NEW h, NEW k, NEW x, Keeps(g, h, x), Keeps(h, k, 0)
  PROVE  Keeps(g, k, x)
  BY DEF Keeps, Gains

LEMMA LeKeptTrans ==
  ASSUME NEW g, NEW h, NEW k, LeKept(g, h), LeKept(h, k),
         g.le \in {None} \cup Record,
         h.dry => k.dry, h.sock.failed => k.sock.failed
  PROVE  LeKept(g, k)
<1>1. CASE h.le = g.le
  BY <1>1 DEF LeKept
<1>2. CASE k.le = h.le
  BY <1>2 DEF LeKept
<1>3. CASE h.le # g.le /\ k.le # h.le
  <2>1. g.le \in Record /\ h.le = [g.le EXCEPT !.id = 0] /\ k.le = [h.le EXCEPT !.id = 0]
    BY <1>3 DEF LeKept
  <2>2. k.le = h.le
    BY <2>1 DEF Record
  <2> QED
    BY <1>3, <2>2
<1> QED
  BY <1>1, <1>2, <1>3

LEMMA MovesTrans ==
  ASSUME NEW g \in State, NEW h, NEW k, NEW x, Moves(g, h, 0), Moves(h, k, x)
  PROVE  Moves(g, k, x)
<1>1. Keeps(g, k, x)
  BY KeepsTrans DEF Moves
<1>2. LeKept(g, k)
  <2>1. g.le \in {None} \cup Record
    BY StateTypes
  <2>2. /\ h.dry => k.dry
        /\ h.sock.failed => k.sock.failed
    BY DEF Moves, Keeps
  <2> QED
    BY <2>1, <2>2, LeKeptTrans DEF Moves
<1> QED
  BY <1>1, <1>2 DEF Moves, Gains

\* A step that leaves all records where they are.
LEMMA Still ==
  ASSUME NEW g, NEW h, ToSyslog(h) = ToSyslog(g), ToFile(h) = ToFile(g), h.err = g.err,
         g.sock.failed => h.sock.failed, g.dry => h.dry, Acct(h) = Acct(g)
  PROVE  Keeps(g, h, 0) /\ (InOrder(g) => InOrder(h))
  BY DEF Keeps, Gains, InOrder, Somewhere

LEMMA FreshStays ==
  ASSUME NEW g, NEW h, NEW x \in Nat, Fresh(g, x), Keeps(g, h, 0)
  PROVE  Fresh(h, x)
<1> SUFFICES ASSUME x # 0, NEW id \in Somewhere(h) PROVE id < x
  BY DEF Fresh
<1>1. id \in Somewhere(g) \cup {0}
  BY DEF Keeps, Gains, Somewhere
<1> QED
  BY <1>1 DEF Fresh
-----------------------------------------------------------------------------
\* The frames in a queue are counted by their last vecs.
LastsIn(q) == {i \in DOMAIN q : q[i].last}

LEMMA LastsFinite ==
  ASSUME NEW q \in Seq(Cell)
  PROVE  IsFiniteSet(LastsIn(q)) /\ Lasts(q) \in Nat /\ Lasts(q) = Cardinality(LastsIn(q))
<1>1. DOMAIN q = 1 .. Len(q) /\ Len(q) \in Nat
  OBVIOUS
<1>2. IsFiniteSet(LastsIn(q))
  <2>1. LastsIn(q) \in SUBSET (1 .. Len(q)) /\ 1 \in Int /\ Len(q) \in Int
    BY <1>1 DEF LastsIn
  <2>2. IsFiniteSet(1 .. Len(q))
    BY <2>1, FS_Interval
  <2> QED
    BY <2>1, <2>2, FS_Subset
<1> QED
  BY <1>2, FS_CardinalityType DEF Lasts, LastsIn

LEMMA LastsConcat ==
  ASSUME NEW s \in Seq(Cell), NEW t \in Seq(Cell)
  PROVE  s \o t \in Seq(Cell) /\ Lasts(s \o t) = Lasts(s) + Lasts(t)
<1> DEFINE m == Len(s)
           n == Len(t)
           B == {i \in (m + 1) .. (m + n) : t[i - m].last}
           f == [i \in LastsIn(t) |-> m + i]
<1>1. DOMAIN s = 1 .. m /\ DOMAIN t = 1 .. n /\ m \in Nat /\ n \in Nat
  OBVIOUS
<1>2. /\ DOMAIN (s \o t) = 1 .. m + n /\ s \o t \in Seq(Cell)
      /\ \A i \in 1 .. m : (s \o t)[i] = s[i]
      /\ \A i \in (m + 1) .. (m + n) : (s \o t)[i] = t[i - m]
  BY <1>1
<1>3. LastsIn(s \o t) = LastsIn(s) \cup B
  <2>1. \A i : i \in 1 .. m + n <=> i \in 1 .. m \/ i \in (m + 1) .. (m + n)
    BY <1>1
  <2> HIDE DEF m, n
  <2> QED
    BY <2>1, <1>1, <1>2 DEF LastsIn
<1>4. LastsIn(s) \cap B = {}
  BY <1>1 DEF LastsIn
<1>5. f \in Bijection(LastsIn(t), B)
  <2> HIDE DEF m, n
  <2>1. \A i \in LastsIn(t) : i \in 1 .. n /\ t[i].last /\ f[i] = m + i
    BY <1>1 DEF LastsIn
  <2>2. \A i \in LastsIn(t) : f[i] \in B
    <3> SUFFICES ASSUME NEW i \in LastsIn(t) PROVE m + i \in B
      BY <2>1
    <3>1. m + i \in (m + 1) .. (m + n) /\ (m + i) - m = i
      BY <2>1, <1>1
    <3> QED
      BY <3>1, <2>1
  <2>3. \A i, j \in LastsIn(t) : f[i] = f[j] => i = j
    BY <2>1, <1>1
  <2>4. \A k \in B : \E i \in LastsIn(t) : f[i] = k
    <3> SUFFICES ASSUME NEW k \in B PROVE k - m \in LastsIn(t) /\ m + (k - m) = k
      BY <2>1
    <3> QED
      BY <1>1 DEF LastsIn
  <2> HIDE DEF B
  <2>5. f \in [LastsIn(t) -> B]
    BY <2>2
  <2> HIDE DEF f
  <2>6. f \in Injection(LastsIn(t), B)
    BY <2>5, <2>3 DEF Injection, IsInjective
  <2>7. f \in Surjection(LastsIn(t), B)
    BY <2>5, <2>4 DEF Surjection
  <2> QED
    BY <2>6, <2>7 DEF Bijection
<1>6. IsFiniteSet(B) /\ Cardinality(B) = Lasts(t)
  BY <1>5, LastsFinite, FS_Bijection DEF ExistsBijection
<1>7. Lasts(s \o t) = Lasts(s) + Lasts(t) - Cardinality({})
  <2> HIDE DEF B, m, n, f
  <2>1. Lasts(s \o t) = Cardinality(LastsIn(s \o t))
    BY <1>2, LastsFinite
  <2>2. IsFiniteSet(LastsIn(s)) /\ Cardinality(LastsIn(s)) = Lasts(s)
    BY LastsFinite
  <2>3. Cardinality(LastsIn(s) \cup B)
          = Cardinality(LastsIn(s)) + Cardinality(B) - Cardinality(LastsIn(s) \cap B)
    BY <1>6, <2>2, FS_Union
  <2> QED
    BY <2>1, <2>2, <2>3, <1>3, <1>4, <1>6
<1> QED
  BY <1>2, <1>7, FS_EmptySet, LastsFinite

\* ft_dgram_write puts one frame into the queue.
VecsOf(ids) == [i \in DOMAIN ids |-> [id |-> ids[i], last |-> i = Len(ids)]]

LEMMA OneFrame ==
  ASSUME NEW ids \in Seq(Nat), ids # <<>>
  PROVE  VecsOf(ids) \in Seq(Cell) /\ Lasts(VecsOf(ids)) = 1
<1> DEFINE n == Len(ids)
           q == VecsOf(ids)
<1>1. DOMAIN ids = 1 .. n /\ n \in Nat /\ n # 0 /\ \A i \in 1 .. n : ids[i] \in Nat
  OBVIOUS
<1>2. DOMAIN q = 1 .. n /\ \A i \in 1 .. n : q[i] = [id |-> ids[i], last |-> i = n]
  BY <1>1 DEF VecsOf
<1> HIDE DEF q
<1>3. ASSUME NEW i \in 1 .. n PROVE q[i] \in Cell /\ (q[i].last <=> i = n)
  <2>1. q[i] = [id |-> ids[i], last |-> i = n] /\ ids[i] \in Nat
    BY <1>1, <1>2
  <2>2. q[i].last = (i = n)
    BY <2>1
  <2>3. (i = n) \in BOOLEAN
    OBVIOUS
  <2>4. q[i] \in Cell
    BY <2>1, <2>3 DEF Cell
  <2> QED
    BY <2>2, <2>4
<1>4. q \in Seq(Cell)
  <2>1. q = [i \in 1 .. n |-> [id |-> ids[i], last |-> i = n]]
    BY <1>1 DEF VecsOf, q
  <2>2. q = [i \in 1 .. n |-> q[i]]
    BY <2>1, <1>2
  <2> QED
    BY <2>2, <1>1, <1>3
<1>5. LastsIn(q) = {n}
  <2>1. \A i \in DOMAIN q : q[i].last <=> i = n
    BY <1>2, <1>3
  <2>2. n \in DOMAIN q
    <3>1. n \in Nat /\ n # 0 /\ DOMAIN q = 1 .. n
      BY <1>1, <1>2
    <3> HIDE DEF n
    <3> QED
      BY <3>1
  <2> HIDE DEF n
  <2> QED
    BY <2>1, <2>2 DEF LastsIn
<1> QED
  BY <1>4, <1>5, LastsFinite, FS_Singleton DEF q

LEMMA IsASeq ==
  ASSUME NEW S, NEW s \in Seq(S), NEW t \in Seq(S), Len(s) = Len(t),
         \A i \in 1 .. Len(s) : s[i] = t[i]
  PROVE  s = t
<1>1. s = [i \in 1 .. Len(s) |-> s[i]]
  OBVIOUS
<1>2. t = [i \in 1 .. Len(s) |-> t[i]]
  OBVIOUS
<1> QED
  BY <1>1, <1>2

LEMMA ConcatIndex ==
  ASSUME NEW S, NEW s \in Seq(S), NEW t \in Seq(S)
  PROVE  /\ s \o t \in Seq(S) /\ Len(s \o t) = Len(s) + Len(t)
         /\ DOMAIN (s \o t) = 1 .. Len(s) + Len(t)
         /\ \A i \in 1 .. Len(s) : (s \o t)[i] = s[i]
         /\ \A i \in (Len(s) + 1) .. (Len(s) + Len(t)) : (s \o t)[i] = t[i - Len(s)]
  OBVIOUS

IdsIn(q) == [i \in DOMAIN q |-> q[i].id]

LEMMA IdsType ==
  ASSUME NEW q \in Seq(Cell)
  PROVE  /\ IdsIn(q) \in Seq(Nat) /\ Len(IdsIn(q)) = Len(q)
         /\ \A i \in 1 .. Len(q) : IdsIn(q)[i] = q[i].id
<1>1. DOMAIN q = 1 .. Len(q) /\ Len(q) \in Nat /\ \A i \in 1 .. Len(q) : q[i] \in Cell
  OBVIOUS
<1>2. \A i \in 1 .. Len(q) : q[i].id \in Nat
  BY <1>1 DEF Cell
<1> QED
  BY <1>1, <1>2 DEF IdsIn

LEMMA IdsConcat ==
  ASSUME NEW q \in Seq(Cell), NEW ids \in Seq(Nat), ids # <<>>
  PROVE  IdsIn(q \o VecsOf(ids)) = IdsIn(q) \o ids
<1> DEFINE v == VecsOf(ids)
           t == q \o v
           a == IdsIn(q)
           b == IdsIn(t)
           c == a \o ids
           m == Len(q)
           n == Len(ids)
<1>1. v \in Seq(Cell) /\ m \in Nat /\ n \in Nat
  BY OneFrame
<1>2. Len(v) = n /\ \A i \in 1 .. n : v[i].id = ids[i]
  <2>1. DOMAIN v = DOMAIN ids /\ \A i \in DOMAIN ids : v[i].id = ids[i]
    BY DEF VecsOf
  <2>2. DOMAIN v = 1 .. Len(v) /\ DOMAIN ids = 1 .. n /\ Len(v) \in Nat
    BY <1>1
  <2> DEFINE l == Len(v)
  <2>3. l \in Nat /\ 1 .. l = 1 .. n
    BY <2>1, <2>2
  <2>4. \A i \in 1 .. n : v[i].id = ids[i]
    BY <2>1, <2>2
  <2> HIDE DEF l, n
  <2>5. l = n
    BY <2>3, <1>1
  <2> QED
    BY <2>4, <2>5 DEF l
<1>3. /\ t \in Seq(Cell) /\ Len(t) = m + Len(v)
      /\ \A i \in 1 .. m : t[i] = q[i]
      /\ \A i \in (m + 1) .. (m + Len(v)) : t[i] = v[i - m]
  BY <1>1, ConcatIndex
<1> HIDE DEF t, v
<1>4. /\ a \in Seq(Nat) /\ Len(a) = m /\ \A i \in 1 .. m : a[i] = q[i].id
      /\ b \in Seq(Nat) /\ Len(b) = m + n /\ \A i \in 1 .. m + n : b[i] = t[i].id
  <2>1. a \in Seq(Nat) /\ Len(a) = m /\ \A i \in 1 .. m : a[i] = q[i].id
    BY IdsType
  <2>2. b \in Seq(Nat) /\ Len(b) = Len(t) /\ \A i \in 1 .. Len(t) : b[i] = t[i].id
    BY <1>3, IdsType
  <2> QED
    BY <2>1, <2>2, <1>2, <1>3
<1> HIDE DEF a, b
<1>5. /\ c \in Seq(Nat) /\ Len(c) = Len(a) + n
      /\ \A i \in 1 .. Len(a) : c[i] = a[i]
      /\ \A i \in (Len(a) + 1) .. (Len(a) + n) : c[i] = ids[i - Len(a)]
  BY <1>4, ConcatIndex
<1> HIDE DEF c, m, n
<1>6. ASSUME NEW i \in 1 .. m + n PROVE b[i] = c[i]
  <2>1. CASE i \in 1 .. m
    BY ZenonT(30), <2>1, <1>3, <1>4, <1>5
  <2>2. CASE i \in (m + 1) .. (m + n)
    <3>1. i - m \in 1 .. n
      BY <2>2, <1>1
    <3> QED
      BY ZenonT(30), <3>1, <2>2, <1>2, <1>3, <1>4, <1>5
  <2> QED
    BY <2>1, <2>2, <1>1
<1>7. Len(b) = Len(c) /\ \A i \in 1 .. Len(b) : b[i] = c[i]
  BY <1>4, <1>5, <1>6
<1>8. b \in Seq(Nat) /\ c \in Seq(Nat)
  BY <1>4, <1>5
<1>9. b = c
  BY <1>7, <1>8, IsASeq
<1> QED
  BY <1>9 DEF a, b, c, t, v

\* What the kernel takes is the front of the queue.
LEMMA Fronts ==
  ASSUME NEW q \in Seq(Cell), NEW n \in 0 .. Len(q)
  PROVE  /\ SubSeq(q, 1, n) \in Seq(Cell) /\ SubSeq(q, n + 1, Len(q)) \in Seq(Cell)
         /\ q = SubSeq(q, 1, n) \o SubSeq(q, n + 1, Len(q))
         /\ Cardinality({i \in 1 .. n : q[i].last}) = Lasts(SubSeq(q, 1, n))
         /\ Cardinality({i \in 1 .. n : q[i].last}) \in Nat
         /\ Lasts(q) = Cardinality({i \in 1 .. n : q[i].last})
                         + Lasts(SubSeq(q, n + 1, Len(q)))
<1> DEFINE s == SubSeq(q, 1, n)
           t == SubSeq(q, n + 1, Len(q))
<1>1. /\ s \in Seq(Cell) /\ Len(s) = n /\ DOMAIN s = 1 .. n
      /\ \A i \in 1 .. n : s[i] = q[i]
  OBVIOUS
<1>2. /\ t \in Seq(Cell) /\ Len(t) = Len(q) - n
      /\ \A i \in 1 .. Len(q) - n : t[i] = q[n + i]
  OBVIOUS
<1>3. q = s \o t
  <2> HIDE DEF s, t
  <2>1. /\ s \o t \in Seq(Cell) /\ Len(s \o t) = Len(q)
        /\ \A i \in 1 .. n : (s \o t)[i] = q[i]
        /\ \A i \in (n + 1) .. Len(q) : (s \o t)[i] = t[i - n]
    BY SMTT(30), <1>1, <1>2
  <2>2. ASSUME NEW i \in (n + 1) .. Len(q) PROVE (s \o t)[i] = q[i]
    <3>1. i - n \in 1 .. Len(q) - n /\ n + (i - n) = i
      OBVIOUS
    <3> QED
      BY <2>1, <3>1, <1>2
  <2>3. \A i \in 1 .. Len(q) : (s \o t)[i] = q[i]
    BY <2>1, <2>2
  <2> DEFINE u == s \o t
  <2>4. u \in Seq(Cell) /\ Len(u) = Len(q) /\ \A i \in 1 .. Len(q) : u[i] = q[i]
    BY <2>1, <2>3
  <2> HIDE DEF u
  <2>5. q = u
    BY <2>4, IsASeq
  <2> QED
    BY <2>5 DEF u
<1>4. {i \in 1 .. n : q[i].last} = LastsIn(s)
  BY <1>1 DEF LastsIn
<1>5. Lasts(s) = Cardinality({i \in 1 .. n : q[i].last}) /\ Lasts(s) \in Nat
  BY <1>1, <1>4, LastsFinite
<1>6. Lasts(q) = Lasts(s) + Lasts(t)
  BY <1>1, <1>2, <1>3, LastsConcat
<1> QED
  BY <1>1, <1>2, <1>3, <1>5, <1>6

LEMMA MinOfTwo ==
  ASSUME NEW a \in Nat, NEW b \in Nat
  PROVE  Min({a, b}) = IF a <= b THEN a ELSE b
<1> DEFINE m == IF a <= b THEN a ELSE b
<1>1. m \in {a, b} /\ \A y \in {a, b} : m <= y
  OBVIOUS
<1>2. \A x \in {a, b} : (\A y \in {a, b} : x <= y) => x = m
  OBVIOUS
<1> HIDE DEF m
<1>3. Min({a, b}) = m
  BY <1>1, <1>2 DEF Min
<1> QED
  BY <1>3 DEF m
-----------------------------------------------------------------------------
\* One more record in one of the sinks.
LEMMA GainSyslog ==
  ASSUME NEW g \in State, NEW h \in State, InOrder(g), NEW x \in Nat, Fresh(g, x),
         ToSyslog(h) = ToSyslog(g) \o <<x>>, ToFile(h) = ToFile(g), h.err = g.err
  PROVE  /\ InOrder(h) /\ Somewhere(h) = Somewhere(g) \cup {x}
         /\ Gains(ToSyslog(g), ToSyslog(h), x) /\ Gains(ToFile(g), ToFile(h), x)
         /\ Gains(g.err, h.err, x)
<1>1. ToSyslog(g) \in Seq(Nat) /\ Ascending(ToSyslog(g)) /\ Somewhere(g) \subseteq Nat
  BY Sinks, SinkTypes DEF InOrder
<1>2. \A y \in Range(ToSyslog(g)) \cup Range(ToFile(g)) \cup Range(g.err) : x = 0 \/ y < x
  BY DEF Fresh, Somewhere
<1>3. Ascending(ToSyslog(h)) /\ Range(ToSyslog(h)) = Range(ToSyslog(g)) \cup {x}
  BY <1>1, <1>2, AppendAscending
<1>4. x = 0 \/ x \notin Range(ToFile(g)) \cup Range(g.err)
  BY <1>2
<1> QED
  BY <1>3, <1>4 DEF InOrder, Apart, Gains, Somewhere

LEMMA GainFile ==
  ASSUME NEW g \in State, NEW h \in State, InOrder(g), NEW x \in Nat, Fresh(g, x),
         ToFile(h) = ToFile(g) \o Numbered(x), ToSyslog(h) = ToSyslog(g), h.err = g.err
  PROVE  /\ InOrder(h) /\ Somewhere(h) = Somewhere(g) \cup ({x} \ {0})
         /\ Gains(ToSyslog(g), ToSyslog(h), x) /\ Gains(ToFile(g), ToFile(h), x)
         /\ Gains(g.err, h.err, x)
<1>1. ToFile(g) \in Seq(Nat) /\ Ascending(ToFile(g)) /\ Somewhere(g) \subseteq Nat
  BY Sinks, SinkTypes DEF InOrder
<1>2. \A y \in Range(ToSyslog(g)) \cup Range(ToFile(g)) \cup Range(g.err) : x = 0 \/ y < x
  BY DEF Fresh, Somewhere
<1>3. Ascending(ToFile(h)) /\ Range(ToFile(h)) = Range(ToFile(g)) \cup ({x} \ {0})
  BY <1>1, <1>2, NumberedAscending
<1>4. x = 0 \/ x \notin Range(ToSyslog(g)) \cup Range(g.err)
  BY <1>2
<1> QED
  BY <1>3, <1>4 DEF InOrder, Apart, Gains, Somewhere

LEMMA GainErr ==
  ASSUME NEW g \in State, NEW h \in State, InOrder(g), NEW x \in Nat, Fresh(g, x),
         h.err = g.err \o Numbered(x), ToSyslog(h) = ToSyslog(g), ToFile(h) = ToFile(g)
  PROVE  /\ InOrder(h) /\ Somewhere(h) = Somewhere(g) \cup ({x} \ {0})
         /\ Gains(ToSyslog(g), ToSyslog(h), x) /\ Gains(ToFile(g), ToFile(h), x)
         /\ Gains(g.err, h.err, x)
<1>1. g.err \in Seq(Nat) /\ Ascending(g.err) /\ Somewhere(g) \subseteq Nat
  BY StateTypes, SinkTypes DEF InOrder
<1>2. \A y \in Range(ToSyslog(g)) \cup Range(ToFile(g)) \cup Range(g.err) : x = 0 \/ y < x
  BY DEF Fresh, Somewhere
<1>3. Ascending(h.err) /\ Range(h.err) = Range(g.err) \cup ({x} \ {0})
  BY <1>1, <1>2, NumberedAscending
<1>4. x = 0 \/ x \notin Range(ToSyslog(g)) \cup Range(ToFile(g))
  BY <1>2
<1> QED
  BY <1>3, <1>4 DEF InOrder, Apart, Gains, Somewhere

\* What the sinks depend on.
LEMMA SinksDepend ==
  ASSUME NEW g, NEW h, h.sent = g.sent, h.queue = g.queue, h.frame = g.frame,
         h.file.disk = g.file.disk, h.file.buffer = g.file.buffer
  PROVE  /\ ToSyslog(h) = ToSyslog(g) /\ ToFile(h) = ToFile(g) /\ Framed(h) = Framed(g)
         /\ h.free = g.free => Acct(h) = Acct(g)
  BY DEF ToSyslog, ToFile, Queued, Framed, Acct

\* Steps that change flags only.
LEMMA FlagsMove ==
  ASSUME NEW g, Good(g), NEW h \in State,
         h.sent = g.sent, h.queue = g.queue, h.frame = g.frame, h.free = g.free,
         h.file.disk = g.file.disk, h.file.buffer = g.file.buffer, h.err = g.err,
         g.sock.failed => h.sock.failed, g.dry => h.dry,
         h.backend = g.backend, h.sock.up = g.sock.up, h.sock.claimed = g.sock.claimed,
         g.sock.open \/ g.sock.failed => h.sock.open \/ h.sock.failed,
         LeKept(g, h)
  PROVE  Good(h) /\ Moves(g, h, 0)
<1>1. /\ ToSyslog(h) = ToSyslog(g) /\ ToFile(h) = ToFile(g) /\ Framed(h) = Framed(g)
      /\ Acct(h) = Acct(g)
  BY SinksDepend
<1>2. Keeps(g, h, 0) /\ InOrder(h)
  BY <1>1, Still DEF Good
<1>3. Usable(h) /\ FrameSound(h)
  BY DEF Good, Usable, FrameSound
<1> QED
  BY <1>1, <1>2, <1>3 DEF Good, Moves, Gains

LEMMA RecordTypes ==
  ASSUME NEW r \in Record
  PROVE  /\ r.id \in Nat /\ r.size \in Nat /\ r.plain \in BOOLEAN /\ r.header \in Nat
         /\ r # None
  BY NoneAssumption DEF Record

\* A log call inside another spoils only a record with a cause to be lost.
LEMMA NestedMoves ==
  ASSUME NEW g, Good(g), g.le \in Record, NEW plain \in BOOLEAN,
         plain => g.dry \/ g.sock.failed
  PROVE  /\ Good(Nested(g, plain)) /\ Moves(g, Nested(g, plain), 0)
         /\ Nested(g, plain) = [g EXCEPT !.le = Nested(g, plain).le]
         /\ Nested(g, plain).le \in Record
         /\ Nested(g, plain).le.size = g.le.size
         /\ Nested(g, plain).le.header = g.le.header
         /\ Nested(g, plain).le.id \in {0, g.le.id}
<1> DEFINE h == [g EXCEPT !.le.id = 0]
<1>1. g \in State
  BY DEF Good
<1>2. /\ [g.le EXCEPT !.id = 0] \in Record
      /\ [g.le EXCEPT !.id = 0].size = g.le.size
      /\ [g.le EXCEPT !.id = 0].header = g.le.header
      /\ [g.le EXCEPT !.id = 0].id = 0
  BY DEF Record
<1>3. h = [g EXCEPT !.le = [g.le EXCEPT !.id = 0]] /\ h.le = [g.le EXCEPT !.id = 0]
  BY <1>1 DEF State
<1>4. h \in State
  BY <1>1, <1>2, <1>3 DEF State
<1>5. CASE plain /\ g.le.plain
  <2>1. Nested(g, plain) = h
    BY <1>5 DEF Nested
  <2>2. LeKept(g, h)
    BY <1>1, <1>3, <1>5, RecordTypes DEF LeKept, State
  <2>3. Good(h) /\ Moves(g, h, 0)
    BY <1>1, <1>4, <2>2, FlagsMove DEF State
  <2> QED
    BY <2>1, <2>3, <1>2, <1>3
<1>6. CASE ~(plain /\ g.le.plain)
  <2>1. Nested(g, plain) = g
    BY <1>6 DEF Nested
  <2>2. Moves(g, g, 0) /\ g = [g EXCEPT !.le = g.le]
    BY <1>1, FlagsMove DEF LeKept, State
  <2> QED
    BY <2>1, <2>2
<1> QED
  BY <1>5, <1>6
-----------------------------------------------------------------------------
\* A record that is printed (ft_logrecord_emergency_fprint).
LEMMA EmergencyMoves ==
  ASSUME NEW g, Good(g), g.le \in Record, Fresh(g, g.le.id)
  PROVE  /\ Good(Emergency(g)) /\ Moves(g, Emergency(g), g.le.id)
         /\ g.le.id \in Somewhere(Emergency(g)) \cup {0}
         /\ Emergency(g) = [g EXCEPT !.err = Emergency(g).err]
<1> DEFINE h == Emergency(g)
           x == g.le.id
<1>1. g \in State /\ x \in Nat /\ InOrder(g)
  BY RecordTypes DEF Good
<1>2. g.err \o Numbered(x) \in Seq(Nat)
  BY <1>1, StateTypes, ConcatType DEF Numbered
<1>3. h = [g EXCEPT !.err = g.err \o Numbered(x)]
  BY <1>1 DEF Emergency, State
<1>4. h \in State /\ h.err = g.err \o Numbered(x) /\ h = [g EXCEPT !.err = h.err]
  BY <1>1, <1>2, <1>3 DEF State
<1>5. /\ h.sent = g.sent /\ h.queue = g.queue /\ h.frame = g.frame /\ h.file = g.file
      /\ h.free = g.free /\ h.sock = g.sock /\ h.backend = g.backend /\ h.le = g.le
      /\ h.dry = g.dry
  BY <1>1, <1>3 DEF State
<1> HIDE DEF h
<1>6. /\ ToSyslog(h) = ToSyslog(g) /\ ToFile(h) = ToFile(g) /\ Framed(h) = Framed(g)
      /\ Acct(h) = Acct(g)
  BY <1>5, SinksDepend
<1>7. /\ InOrder(h) /\ Somewhere(h) = Somewhere(g) \cup ({x} \ {0})
      /\ Gains(ToSyslog(g), ToSyslog(h), x) /\ Gains(ToFile(g), ToFile(h), x)
      /\ Gains(g.err, h.err, x)
  BY <1>1, <1>4, <1>6, GainErr
<1>8. Keeps(g, h, x)
  BY <1>5, <1>6, <1>7 DEF Keeps
<1>9. Good(h)
  BY <1>4, <1>5, <1>7 DEF Good, Usable, FrameSound
<1>10. Moves(g, h, x)
  BY <1>5, <1>6, <1>8 DEF Moves, LeKept, Gains
<1> QED
  BY <1>4, <1>7, <1>9, <1>10 DEF h

\* The file backend (ft_log_file_backend_logrecord_process).
LEMMA FileProcessMoves ==
  ASSUME NEW g, Good(g), g.le \in Record, Fresh(g, g.le.id)
  PROVE  /\ Good(FileProcess(g)) /\ Moves(g, FileProcess(g), g.le.id)
         /\ g.le.id \in Somewhere(FileProcess(g)) \cup {0}
         /\ FileProcess(g) = [g EXCEPT !.err = FileProcess(g).err,
                                       !.file = FileProcess(g).file]
<1> DEFINE c == Min({g.file.counter + 1, FlushMax})
           k == [g EXCEPT !.file.counter = c]
           x == g.le.id
<1>1. g \in State /\ x \in Nat /\ InOrder(g) /\ g.file \in FileState
  BY RecordTypes, StateTypes DEF Good
<1>2. c \in Nat
  <2>1. g.file.counter + 1 \in Nat /\ FlushMax \in Nat
    BY <1>1, LogAssumption DEF FileState
  <2> QED
    BY <2>1, MinOfTwo
<1> HIDE DEF c
<1>3. [g.file EXCEPT !.counter = c] \in FileState
  BY <1>1, <1>2 DEF FileState
<1>4. /\ k = [g EXCEPT !.file = [g.file EXCEPT !.counter = c]] /\ k \in State
      /\ k.le = g.le /\ k.file = [g.file EXCEPT !.counter = c]
      /\ k.file.open = g.file.open
      /\ k.file.disk = g.file.disk /\ k.file.buffer = g.file.buffer
      /\ k.sent = g.sent /\ k.queue = g.queue /\ k.frame = g.frame
      /\ k.free = g.free /\ k.sock = g.sock /\ k.backend = g.backend
      /\ k.dry = g.dry /\ k.err = g.err
  BY <1>1, <1>3 DEF State, FileState
<1>5. Good(k) /\ Moves(g, k, 0)
  BY <1>4, FlagsMove DEF LeKept
<1>6. Fresh(k, x)
  BY <1>1, <1>5, FreshStays DEF Moves
<1> HIDE DEF k
<1>7. CASE ~g.file.open
  <2>1. FileProcess(g) = Emergency(k)
    BY <1>7 DEF FileProcess, k, c
  <2>2. /\ Good(Emergency(k)) /\ Moves(k, Emergency(k), x)
        /\ x \in Somewhere(Emergency(k)) \cup {0}
        /\ Emergency(k) = [k EXCEPT !.err = Emergency(k).err]
    BY <1>4, <1>5, <1>6, EmergencyMoves
  <2>3. Moves(g, Emergency(k), x)
    BY <1>1, <1>5, <2>2, MovesTrans
  <2>4. Emergency(k) = [g EXCEPT !.err = Emergency(k).err, !.file = Emergency(k).file]
    BY <1>1, <1>4, <2>2 DEF State
  <2> QED
    BY <2>1, <2>2, <2>3, <2>4
<1>8. CASE g.file.open
  <2> DEFINE h == FileProcess(g)
             b == g.file.buffer \o Numbered(x)
  <2>1. h = [k EXCEPT !.file.buffer = k.file.buffer \o Numbered(k.le.id)]
    BY <1>1, <1>4, <1>8 DEF FileProcess, k, c, State, FileState
  <2>2. b \in Seq(Nat)
    BY <1>1, StateTypes, ConcatType DEF Numbered
  <2>a. k.file \in FileState /\ k \in State
    BY <1>3, <1>4
  <2>b. [k.file EXCEPT !.buffer = b] \in FileState
    BY <2>2, <2>a DEF FileState
  <2>c. h = [k EXCEPT !.file = [k.file EXCEPT !.buffer = b]]
    BY <1>4, <2>1, <2>a DEF State
  <2> HIDE DEF h, b
  <2>3. /\ h = [k EXCEPT !.file = [k.file EXCEPT !.buffer = b]]
        /\ h.file = [k.file EXCEPT !.buffer = b] /\ h \in State
    BY <2>a, <2>b, <2>c DEF State
  <2>4. /\ h.file.buffer = b /\ h.file.disk = k.file.disk
        /\ h.sent = k.sent /\ h.queue = k.queue /\ h.frame = k.frame
        /\ h.free = k.free /\ h.sock = k.sock /\ h.backend = k.backend /\ h.le = k.le
        /\ h.dry = k.dry /\ h.err = k.err
    BY <2>3, <2>a DEF State, FileState
  <2>5. ToFile(h) = ToFile(k) \o Numbered(x)
    <3>1. k.file.disk \in Seq(Nat) /\ k.file.buffer \in Seq(Nat) /\ Numbered(x) \in Seq(Nat)
      BY <1>1, <1>4, StateTypes DEF Numbered
    <3>2. ToFile(h) = k.file.disk \o (k.file.buffer \o Numbered(x))
      BY <1>4, <2>4 DEF ToFile, b
    <3> QED
      BY <3>1, <3>2, ConcatConcat DEF ToFile
  <2>6. ToSyslog(h) = ToSyslog(k) /\ Framed(h) = Framed(k) /\ Acct(h) = Acct(k)
    BY <2>4 DEF ToSyslog, Queued, Framed, Acct
  <2>7. /\ InOrder(h) /\ Somewhere(h) = Somewhere(k) \cup ({x} \ {0})
        /\ Gains(ToSyslog(k), ToSyslog(h), x) /\ Gains(ToFile(k), ToFile(h), x)
        /\ Gains(k.err, h.err, x)
    <3>1. k \in State /\ h \in State /\ InOrder(k) /\ x \in Nat /\ h.err = k.err
      BY <1>1, <1>4, <1>5, <2>3, <2>4 DEF Good
    <3> HIDE DEF x
    <3> QED
      BY <3>1, <1>6, <2>5, <2>6, GainFile
  <2>8. Keeps(k, h, x)
    BY <2>4, <2>6, <2>7 DEF Keeps
  <2>9. Good(h)
    BY <1>5, <2>3, <2>4, <2>7 DEF Good, Usable, FrameSound
  <2>10. Moves(k, h, x)
    BY <2>4, <2>6, <2>8 DEF Moves, LeKept, Gains
  <2>11. Moves(g, h, x)
    BY <1>1, <1>5, <2>10, MovesTrans
  <2>12. h = [g EXCEPT !.err = h.err, !.file = h.file]
    BY <1>1, <1>4, <2>3, <2>4 DEF State
  <2> QED
    BY <2>7, <2>9, <2>11, <2>12 DEF h
<1> QED
  BY <1>7, <1>8

\* What the kernel takes leaves the queue from its front (_ft_dgram_write_real).
LEMMA GoneMoves ==
  ASSUME NEW g, Good(g), NEW n \in 0 .. Len(g.queue)
  PROVE  /\ Good(Gone(g, n)) /\ Moves(g, Gone(g, n), 0)
         /\ Gone(g, n).frame = g.frame /\ Gone(g, n).le = g.le
         /\ Gone(g, n).backend = g.backend /\ Gone(g, n).sock = g.sock
<1> DEFINE h == Gone(g, n)
           q == g.queue
           gone == [i \in 1 .. n |-> q[i].id]
           rest == SubSeq(q, n + 1, Len(q))
           c == Cardinality({i \in 1 .. n : q[i].last})
<1>1. g \in State /\ q \in Seq(Cell) /\ g.sent \in Seq(Nat) /\ g.free \in Nat
  BY StateTypes DEF Good
<1>2. /\ rest \in Seq(Cell) /\ c \in Nat /\ Lasts(q) = c + Lasts(rest)
      /\ Lasts(rest) \in Nat
  BY <1>1, Fronts, LastsFinite
<1>3. gone \in Seq(Nat) /\ Len(gone) = n /\ \A i \in 1 .. n : gone[i] = q[i].id
  <2>1. \A i \in 1 .. n : q[i] \in Cell
    BY <1>1
  <2> HIDE DEF q
  <2> QED
    BY <2>1 DEF Cell
<1>4. Queued(g) \in Seq(Nat) /\ Framed(g) \in Seq(Nat)
  BY <1>1, Sinks
<1> HIDE DEF c
<1>5. h = [g EXCEPT !.queue = rest, !.sent = g.sent \o gone, !.free = g.free + c]
  BY <1>1 DEF Gone, c, State
<1>a. g.sent \o gone \in Seq(Nat) /\ g.free + c \in Nat
  BY <1>1, <1>2, <1>3, ConcatType
<1> HIDE DEF rest, gone, h
<1>6. /\ h \in State /\ h.queue = rest /\ h.sent = g.sent \o gone /\ h.free = g.free + c
      /\ h.frame = g.frame /\ h.le = g.le /\ h.backend = g.backend /\ h.sock = g.sock
      /\ h.err = g.err /\ h.file = g.file /\ h.dry = g.dry
  BY <1>1, <1>2, <1>5, <1>a DEF State
<1>7. Queued(h) \in Seq(Nat) /\ Framed(h) = Framed(g)
  BY <1>6, Sinks DEF Framed
<1>8. Queued(g) = gone \o Queued(h)
  <2>1. Queued(g) = [i \in DOMAIN q |-> q[i].id] /\ Queued(h) = [i \in DOMAIN rest |-> rest[i].id]
    BY <1>6 DEF Queued
  <2>2. DOMAIN q = 1 .. Len(q) /\ Len(q) \in Nat
    BY <1>1
  <2>3. /\ Len(rest) = Len(q) - n /\ DOMAIN rest = 1 .. Len(q) - n
        /\ \A i \in 1 .. Len(q) - n : rest[i] = q[n + i]
    BY <1>1, <2>2 DEF rest
  <2>4. Len(Queued(g)) = Len(q) /\ \A i \in 1 .. Len(q) : Queued(g)[i] = q[i].id
    BY <2>1, <2>2, <1>4
  <2>5. Len(Queued(h)) = Len(q) - n /\ \A i \in 1 .. Len(q) - n : Queued(h)[i] = q[n + i].id
    BY <2>1, <2>2, <2>3, <1>7
  <2> DEFINE v == Queued(h)
             w == Queued(g)
             u == gone \o v
  <2>c. v \in Seq(Nat) /\ Len(v) = Len(q) - n /\ Len(gone) = n /\ gone \in Seq(Nat)
    BY <1>3, <1>7, <2>5
  <2>d. w \in Seq(Nat) /\ Len(w) = Len(q)
    BY <1>4, <2>4
  <2> HIDE DEF v, w
  <2>6. /\ u \in Seq(Nat) /\ Len(u) = Len(q)
        /\ \A i \in 1 .. n : u[i] = gone[i]
        /\ \A i \in (n + 1) .. Len(q) : u[i] = v[i - n]
    BY <2>2, <2>c
  <2> HIDE DEF u
  <2>7. ASSUME NEW i \in 1 .. Len(q) PROVE w[i] = u[i]
    <3>1. CASE i \in 1 .. n
      BY <3>1, <1>3, <2>4, <2>6 DEF w
    <3>2. CASE i \in (n + 1) .. Len(q)
      <4>1. i - n \in 1 .. Len(q) - n /\ n + (i - n) = i
        BY <3>2, <2>2
      <4> QED
        BY <3>2, <4>1, <2>4, <2>5, <2>6 DEF v, w
    <3> QED
      BY <3>1, <3>2, <2>2
  <2>8. w = u
    <3>1. Len(w) = Len(u) /\ \A i \in 1 .. Len(w) : w[i] = u[i]
      BY <2>d, <2>6, <2>7
    <3>2. w \in Seq(Nat) /\ u \in Seq(Nat)
      BY <2>d, <2>6
    <3> QED
      BY SMTT(30), <3>1, <3>2, IsASeq
  <2> QED
    BY <2>8 DEF u, v, w
<1>9. ToSyslog(h) = ToSyslog(g)
  <2>1. g.sent \o Queued(g) = (g.sent \o gone) \o Queued(h)
    <3>1. (g.sent \o gone) \o Queued(h) = g.sent \o (gone \o Queued(h))
      BY <1>1, <1>3, <1>7, ConcatConcat
    <3> QED
      BY <3>1, <1>8
  <2>2. /\ ToSyslog(g) = (g.sent \o Queued(g)) \o Framed(g)
        /\ ToSyslog(h) = (h.sent \o Queued(h)) \o Framed(h)
    BY <1>1, <1>6, Sinks
  <2> QED
    BY <2>1, <2>2, <1>6, <1>7
<1>10. Acct(h) = Acct(g) /\ ToFile(h) = ToFile(g)
  BY <1>1, <1>2, <1>6 DEF Acct, ToFile, q
<1>11. Keeps(g, h, 0) /\ InOrder(h)
  BY <1>6, <1>9, <1>10, Still DEF Good
<1>12. Good(h)
  BY <1>6, <1>11 DEF Good, Usable, FrameSound
<1>13. Moves(g, h, 0)
  BY <1>6, <1>7, <1>11 DEF Moves, LeKept, Gains
<1> QED
  BY <1>6, <1>12, <1>13 DEF h
-----------------------------------------------------------------------------
\* The record that is being processed keeps its size.
LEMMA LeShape ==
  ASSUME NEW g, NEW h, g.le \in Record, LeKept(g, h)
  PROVE  /\ h.le \in Record /\ h.le.size = g.le.size /\ h.le.header = g.le.header
         /\ h.le.plain = g.le.plain
         /\ h.le.id = g.le.id \/ (h.le.id = 0 /\ g.le.plain /\ (h.dry \/ h.sock.failed))
  BY DEF LeKept, Record

\* A frame from the pool, or none.
Empty == [f |-> FormatEmpty, ids |-> <<>>]

LEMMA EmptyType == Empty \in LogFrame /\ WellFormed(Empty.f) /\ Empty # None
<1>1. WellFormed(FormatEmpty)
  BY FormatsSound
<1>2. FormatEmpty \in [vecs : Seq(Vec), at : Nat]
  BY <1>1 DEF WellFormed
<1>3. Empty \in LogFrame
  BY <1>2 DEF Empty, LogFrame
<1> QED
  BY <1>1, <1>3, NoneAssumption DEF Empty

Borrow(g) == [g EXCEPT !.free = @ - 1, !.frame = Empty]
Dry(g) == [g EXCEPT !.dry = TRUE]

LEMMA BorrowMoves ==
  ASSUME NEW g, Good(g), g.frame = None, g.free > 0, g.sock.up
  PROVE  /\ Good(Borrow(g)) /\ Moves(g, Borrow(g), 0) /\ Framed(Borrow(g)) = <<>>
         /\ Borrow(g).frame = Empty /\ Borrow(g).sent = g.sent /\ Borrow(g).queue = g.queue
<1> DEFINE h == Borrow(g)
<1>1. g \in State /\ g.free - 1 \in Nat /\ g.free \in Nat
  BY StateTypes DEF Good
<1>2. /\ h \in State /\ h.frame = Empty /\ h.free = g.free - 1 /\ h.sent = g.sent
      /\ h.queue = g.queue /\ h.file = g.file /\ h.err = g.err /\ h.sock = g.sock
      /\ h.dry = g.dry /\ h.backend = g.backend /\ h.le = g.le
  BY <1>1, EmptyType DEF Borrow, State
<1> HIDE DEF h
<1>3. Framed(h) = <<>> /\ Framed(g) = <<>>
  BY <1>2, EmptyType DEF Framed, Empty
<1>4. ToSyslog(h) = ToSyslog(g) /\ ToFile(h) = ToFile(g)
  BY <1>2, <1>3 DEF ToSyslog, ToFile, Queued
<1>5. Acct(h) = Acct(g)
  <2>1. Lasts(g.queue) \in Nat
    BY <1>1, StateTypes, LastsFinite
  <2> QED
    BY <2>1, <1>1, <1>2, EmptyType DEF Acct
<1>6. Keeps(g, h, 0) /\ InOrder(h)
  BY <1>2, <1>4, <1>5, Still DEF Good
<1>7. Good(h)
  BY <1>2, <1>6, EmptyType DEF Good, Usable, FrameSound
<1>8. Moves(g, h, 0)
  BY <1>2, <1>3, <1>6 DEF Moves, LeKept, Gains
<1> QED
  BY <1>2, <1>3, <1>7, <1>8 DEF h

LEMMA DryMoves ==
  ASSUME NEW g, Good(g)
  PROVE  /\ Good(Dry(g)) /\ Moves(g, Dry(g), 0)
         /\ Dry(g) = [g EXCEPT !.dry = TRUE] /\ Dry(g).dry
         /\ Dry(g).le = g.le /\ Dry(g).frame = g.frame /\ Dry(g).sent = g.sent
         /\ Dry(g).queue = g.queue /\ Dry(g).free = g.free /\ Dry(g).backend = g.backend
<1> DEFINE h == Dry(g)
<1>1. g \in State
  BY DEF Good
<1>2. /\ h \in State /\ h.dry /\ h.sent = g.sent /\ h.frame = g.frame
      /\ h.queue = g.queue /\ h.file = g.file /\ h.err = g.err /\ h.sock = g.sock
      /\ h.free = g.free /\ h.backend = g.backend /\ h.le = g.le
  BY <1>1 DEF Dry, State
<1> HIDE DEF h
<1>3. Good(h) /\ Moves(g, h, 0)
  BY <1>2, FlagsMove DEF LeKept
<1> QED
  BY <1>2, <1>3 DEF h, Dry

\* The flags of the socket.
Unready(g) == [g EXCEPT !.sock.ready = FALSE]
Waiting(g) == [g EXCEPT !.sock.ready = FALSE, !.sock.watch = TRUE]
Watched(g) == [g EXCEPT !.sock.watch = TRUE]
Shut(g) == [g EXCEPT !.sock.open = FALSE, !.sock.failed = TRUE]

LEMMA SockMoves ==
  ASSUME NEW g, Good(g), NEW s \in Socket,
         NEW h, h = [g EXCEPT !.sock = s],
         g.sock.failed => s.failed, s.up = g.sock.up, s.claimed = g.sock.claimed,
         g.sock.open \/ g.sock.failed => s.open \/ s.failed
  PROVE  /\ Good(h) /\ Moves(g, h, 0) /\ h.sock = s
         /\ h.le = g.le /\ h.frame = g.frame /\ h.sent = g.sent /\ h.queue = g.queue
         /\ h.backend = g.backend /\ h.phase = g.phase
<1>1. g \in State
  BY DEF Good
<1>2. /\ h \in State /\ h.dry = g.dry /\ h.sent = g.sent /\ h.frame = g.frame
      /\ h.queue = g.queue /\ h.file = g.file /\ h.err = g.err /\ h.sock = s
      /\ h.free = g.free /\ h.backend = g.backend /\ h.le = g.le /\ h.phase = g.phase
  BY <1>1 DEF State
<1>3. Good(h) /\ Moves(g, h, 0)
  BY <1>2, FlagsMove DEF LeKept
<1> QED
  BY <1>2, <1>3

LEMMA WatchMoves ==
  ASSUME NEW g, Good(g), NEW h \in {Unready(g), Waiting(g), Watched(g), Shut(g)}
  PROVE  /\ Good(h) /\ Moves(g, h, 0)
         /\ h = Shut(g) => h.sock.failed
         /\ h.le = g.le /\ h.frame = g.frame /\ h.sent = g.sent /\ h.queue = g.queue
         /\ h.backend = g.backend /\ h.phase = g.phase
<1>1. g \in State /\ g.sock \in Socket
  BY StateTypes DEF Good
<1> DEFINE a == [g.sock EXCEPT !.ready = FALSE]
           b == [g.sock EXCEPT !.ready = FALSE, !.watch = TRUE]
           c == [g.sock EXCEPT !.watch = TRUE]
           d == [g.sock EXCEPT !.open = FALSE, !.failed = TRUE]
<1>2. /\ Unready(g) = [g EXCEPT !.sock = a] /\ Waiting(g) = [g EXCEPT !.sock = b]
      /\ Watched(g) = [g EXCEPT !.sock = c] /\ Shut(g) = [g EXCEPT !.sock = d]
  BY <1>1 DEF State, Unready, Waiting, Watched, Shut
<1>3. \A s \in {a, b, c} : s \in Socket /\ s.failed = g.sock.failed /\ s.up = g.sock.up
                           /\ s.claimed = g.sock.claimed /\ s.open = g.sock.open
  BY <1>1 DEF Socket
<1>4. d \in Socket /\ d.failed /\ d.up = g.sock.up /\ d.claimed = g.sock.claimed
  BY <1>1 DEF Socket
<1> HIDE DEF a, b, c, d
<1>5. PICK s \in {a, b, c, d} : h = [g EXCEPT !.sock = s] /\ (h = Shut(g) => s = d)
  <2>1. CASE h = Shut(g)
    BY <2>1, <1>2
  <2>2. CASE h # Shut(g)
    BY <2>2, <1>2
  <2> QED
    BY <2>1, <2>2
<1>6. /\ s \in Socket
      /\ g.sock.failed => s.failed
      /\ s.up = g.sock.up /\ s.claimed = g.sock.claimed
      /\ g.sock.open \/ g.sock.failed => s.open \/ s.failed
      /\ s = d => s.failed
  BY <1>3, <1>4, <1>5
<1>7. /\ Good(h) /\ Moves(g, h, 0) /\ h.sock = s
      /\ h.le = g.le /\ h.frame = g.frame /\ h.sent = g.sent /\ h.queue = g.queue
      /\ h.backend = g.backend /\ h.phase = g.phase
  BY <1>5, <1>6, SockMoves
<1> QED
  BY <1>5, <1>6, <1>7

-----------------------------------------------------------------------------
\* A frame leaves the hands of the log: it is queued, refused or given up.
Detached(g) == [g EXCEPT !.frame = None]
Enqueued(g, ids) == [g EXCEPT !.queue = @ \o VecsOf(ids)]
Returned(g) == [g EXCEPT !.free = @ + 1]

LEMMA DetachMoves ==
  ASSUME NEW g, Good(g)
  PROVE  /\ Good(Detached(g)) /\ Detached(g).frame = None /\ Framed(Detached(g)) = <<>>
         /\ Detached(g).sent = g.sent /\ Detached(g).queue = g.queue
         /\ Detached(g).sock = g.sock /\ Detached(g).backend = g.backend
         /\ Detached(g).le = g.le /\ Detached(g).free = g.free /\ Detached(g).dry = g.dry
         /\ Detached(g).err = g.err /\ Detached(g).file = g.file
         /\ ToSyslog(Detached(g)) = g.sent \o Queued(g)
         /\ g.frame # None => Acct(g) = Acct(Detached(g)) + 1
<1> DEFINE h == Detached(g)
<1>1. g \in State /\ InOrder(g)
  BY DEF Good
<1>2. /\ h \in State /\ h.dry = g.dry /\ h.sent = g.sent /\ h.frame = None
      /\ h.queue = g.queue /\ h.file = g.file /\ h.err = g.err /\ h.sock = g.sock
      /\ h.free = g.free /\ h.backend = g.backend /\ h.le = g.le
  BY <1>1 DEF State, Detached
<1> HIDE DEF h
<1>3. Framed(h) = <<>> /\ Queued(h) = Queued(g) /\ ToFile(h) = ToFile(g)
  BY <1>2 DEF Framed, Queued, ToFile
<1>4. ToSyslog(h) = g.sent \o Queued(g)
  <2>1. ToSyslog(h) = (h.sent \o Queued(h)) \o Framed(h) /\ g.sent \o Queued(g) \in Seq(Nat)
    BY <1>1, <1>2, Sinks
  <2> QED
    BY <2>1, <1>2, <1>3, ConcatEmpty
<1>5. Ascending(ToSyslog(h)) /\ Range(ToSyslog(h)) \subseteq Range(ToSyslog(g))
  <2>1. /\ ToSyslog(g) = ToSyslog(h) \o Framed(g) /\ Framed(g) \in Seq(Nat)
        /\ ToSyslog(h) \in Seq(Nat)
    BY <1>1, <1>2, <1>4, Sinks
  <2>2. Ascending(ToSyslog(h) \o Framed(g))
    BY <2>1, <1>1 DEF InOrder
  <2> QED
    BY <2>1, <2>2, ConcatAscending, ConcatRange
<1>6. InOrder(h)
  BY <1>1, <1>2, <1>3, <1>5 DEF InOrder, Apart
<1>7. Good(h)
  BY <1>2, <1>6 DEF Good, Usable, FrameSound
<1>8. ASSUME g.frame # None PROVE Acct(g) = Acct(h) + 1
  <2>1. Lasts(g.queue) \in Nat /\ g.free \in Nat
    BY <1>1, StateTypes, LastsFinite
  <2> QED
    BY <2>1, <1>2, <1>8 DEF Acct
<1> QED
  BY <1>2, <1>3, <1>4, <1>7, <1>8 DEF h

LEMMA EnqueueMoves ==
  ASSUME NEW g, Good(g), g.frame # None, g.frame.ids # <<>>,
         NEW w, Good(w), Moves(Detached(g), w, 0),
         w.sent = g.sent, w.queue = g.queue, Framed(w) = <<>>
  PROVE  /\ Good(Enqueued(w, g.frame.ids)) /\ Moves(g, Enqueued(w, g.frame.ids), 0)
         /\ Framed(Enqueued(w, g.frame.ids)) = <<>>
         /\ Enqueued(w, g.frame.ids).frame = w.frame
         /\ Enqueued(w, g.frame.ids).sock = w.sock
         /\ Enqueued(w, g.frame.ids).le = w.le
         /\ Enqueued(w, g.frame.ids).backend = g.backend
<1> DEFINE ids == g.frame.ids
           v == VecsOf(ids)
           k == Enqueued(w, ids)
           d == Detached(g)
<1>1. g \in State /\ w \in State /\ InOrder(g) /\ InOrder(w)
  BY DEF Good
<1>2. ids \in Seq(Nat) /\ Framed(g) = ids
  BY <1>1, FrameTypes
<1>3. v \in Seq(Cell) /\ Lasts(v) = 1 /\ g.queue \in Seq(Cell)
  BY <1>1, <1>2, OneFrame, StateTypes
<1>4. g.queue \o v \in Seq(Cell) /\ Lasts(g.queue \o v) = Lasts(g.queue) + 1
  BY <1>3, LastsConcat
<1> HIDE DEF v
<1>5. k = [w EXCEPT !.queue = g.queue \o v]
  BY <1>1 DEF Enqueued, v, State
<1> HIDE DEF k
<1>6. /\ k \in State /\ k.dry = w.dry /\ k.sent = g.sent /\ k.frame = w.frame
      /\ k.queue = g.queue \o v /\ k.file = w.file /\ k.err = w.err /\ k.sock = w.sock
      /\ k.free = w.free /\ k.backend = w.backend /\ k.le = w.le
  BY <1>1, <1>4, <1>5 DEF State
<1>7. Framed(k) = <<>> /\ ToFile(k) = ToFile(w)
  BY <1>6 DEF Framed, ToFile
<1>8. Queued(k) = Queued(g) \o ids
  <2>1. Queued(g) = IdsIn(g.queue) /\ Queued(k) = IdsIn(g.queue \o v)
    BY <1>6 DEF Queued, IdsIn
  <2>a. ids # <<>>
    OBVIOUS
  <2> HIDE DEF ids
  <2>2. IdsIn(g.queue \o v) = IdsIn(g.queue) \o ids
    BY <1>2, <1>3, <2>a, IdsConcat DEF v
  <2> QED
    BY <2>1, <2>2
<1>9. ToSyslog(k) = ToSyslog(g)
  <2>1. g.sent \in Seq(Nat) /\ Queued(g) \in Seq(Nat) /\ Queued(k) \in Seq(Nat)
    BY <1>1, <1>6, StateTypes, Sinks
  <2>2. ToSyslog(k) = (g.sent \o Queued(k)) \o <<>>
    BY <1>6, <1>7, Sinks
  <2>3. ToSyslog(k) = g.sent \o Queued(k)
    BY <2>1, <2>2, ConcatType, ConcatEmpty
  <2>4. ToSyslog(g) = (g.sent \o Queued(g)) \o ids
    BY <1>1, <1>2, Sinks
  <2>5. (g.sent \o Queued(g)) \o ids = g.sent \o (Queued(g) \o ids)
    BY ZenonT(30), <2>1, <1>2, ConcatConcat
  <2> QED
    BY <2>3, <2>4, <2>5, <1>8
<1>10. /\ Good(d) /\ d.frame = None /\ d.le = g.le /\ d.dry = g.dry /\ d.sock = g.sock
       /\ d.backend = g.backend /\ ToFile(d) = ToFile(g) /\ d.err = g.err
       /\ Acct(g) = Acct(d) + 1
       /\ ToSyslog(d) = g.sent \o Queued(g)
  <2>1. d.file = g.file
    BY DetachMoves
  <2> QED
    BY <2>1, DetachMoves DEF ToFile
<1> HIDE DEF d
<1>11. /\ g.sock.failed => w.sock.failed
       /\ g.dry => w.dry
       /\ Gains(ToFile(g), ToFile(w), 0) /\ Gains(g.err, w.err, 0)
       /\ Acct(w) = Acct(d) /\ LeKept(d, w)
       /\ w.backend = g.backend /\ w.sock.up = g.sock.up
       /\ \A id \in Somewhere(d) \ {0} : id \in Somewhere(w) \/ w.sock.failed
  BY <1>10 DEF Moves, Keeps, d
<1>12. Acct(k) = Acct(g)
  <2>1. Lasts(w.queue) \in Nat /\ w.free \in Nat
    BY <1>1, StateTypes, LastsFinite
  <2> DEFINE n == IF w.frame = None THEN 0 ELSE 1
  <2>a. n \in Nat
    OBVIOUS
  <2>b. Acct(w) = w.free + n + Lasts(w.queue) /\ Acct(k) = w.free + n + Lasts(g.queue \o v)
    BY <1>6 DEF Acct
  <2>c. Lasts(g.queue \o v) = Lasts(w.queue) + 1
    BY <1>4
  <2> HIDE DEF n
  <2>2. Acct(k) = Acct(w) + 1
    BY <2>1, <2>a, <2>b, <2>c
  <2> QED
    BY <2>2, <1>10, <1>11
<1>13. Range(ToSyslog(w)) \subseteq Range(ToSyslog(k))
  <2>1. Queued(w) = Queued(g)
    BY DEF Queued
  <2>2. Range(ToSyslog(w)) = Range(g.sent) \cup Range(Queued(g)) \cup {}
    BY <1>1, <2>1, Sinks, RangeOfOne
  <2> QED
    BY <2>2, <1>1, <1>9, Sinks
<1>14. ASSUME NEW id \in Somewhere(g) \ {0} PROVE id \in Somewhere(k) \/ k.sock.failed
  <2>1. CASE id \in Range(ToSyslog(g))
    BY <2>1, <1>9 DEF Somewhere
  <2>2. CASE id \in Range(ToFile(g)) \cup Range(g.err)
    <3>1. id \in Somewhere(d) \ {0}
      BY <2>2, <1>10, <1>14 DEF Somewhere
    <3>2. id \in Somewhere(w) \/ w.sock.failed
      BY <3>1, <1>11
    <3> QED
      BY <3>2, <1>6, <1>7, <1>13 DEF Somewhere
  <2> QED
    BY <2>1, <2>2, <1>14 DEF Somewhere
<1>15. Keeps(g, k, 0)
  <2>1. Gains(ToSyslog(g), ToSyslog(k), 0)
    BY <1>9 DEF Gains
  <2> QED
    BY <2>1, <1>6, <1>7, <1>11, <1>12, <1>14 DEF Keeps
<1>16. InOrder(k)
  BY <1>1, <1>6, <1>7, <1>9, <1>11 DEF InOrder, Apart, Gains
<1>17. Good(k)
  BY <1>6, <1>16 DEF Good, Usable, FrameSound
<1>18. Moves(g, k, 0)
  <2>1. LeKept(g, k)
    BY <1>6, <1>10, <1>11 DEF LeKept
  <2>2. Gains(Framed(g), Framed(k), 0)
    BY <1>7, RangeOfOne DEF Gains
  <2> QED
    BY <2>1, <2>2, <1>6, <1>11, <1>15 DEF Moves
<1> QED
  BY <1>6, <1>7, <1>11, <1>17, <1>18 DEF k

\* What a closed socket refuses is lost, but its frame comes back.
LEMMA RefuseMoves ==
  ASSUME NEW g, Good(g), g.frame # None,
         NEW w, Good(w), Moves(Detached(g), w, 0), Framed(w) = <<>>, ~w.sock.open,
         NEW s, Good(s), Moves(w, s, 0)
  PROVE  /\ Good(Returned(s)) /\ Moves(g, Returned(s), 0)
         /\ Returned(s).frame = s.frame /\ Returned(s).le = s.le
         /\ Returned(s).backend = g.backend
         /\ Range(Framed(Returned(s))) \subseteq {0}
<1> DEFINE h == Returned(s)
           d == Detached(g)
<1>1. s \in State /\ s.free \in Nat /\ s.free + 1 \in Nat
  BY StateTypes DEF Good
<1>2. /\ h \in State /\ h.dry = s.dry /\ h.sent = s.sent /\ h.frame = s.frame
      /\ h.queue = s.queue /\ h.file = s.file /\ h.err = s.err /\ h.sock = s.sock
      /\ h.free = s.free + 1 /\ h.backend = s.backend /\ h.le = s.le
  BY <1>1 DEF State, Returned
<1> HIDE DEF h
<1>3. /\ ToSyslog(h) = ToSyslog(s) /\ ToFile(h) = ToFile(s) /\ Framed(h) = Framed(s)
      /\ Somewhere(h) = Somewhere(s)
  BY <1>2 DEF ToSyslog, ToFile, Framed, Queued, Somewhere
<1>4. Good(h)
  BY <1>2, <1>3 DEF Good, Usable, FrameSound, InOrder
<1>5. /\ Good(d) /\ d.le = g.le /\ d.dry = g.dry /\ d.sock = g.sock
      /\ d.backend = g.backend /\ ToFile(d) = ToFile(g) /\ d.err = g.err
      /\ Acct(g) = Acct(d) + 1 /\ d \in State
  <2>1. d.file = g.file
    BY DetachMoves
  <2> QED
    BY <2>1, DetachMoves DEF ToFile, Good
<1>6. Range(ToSyslog(d)) \subseteq Range(ToSyslog(g))
  <2>1. g \in State /\ g.sent \in Seq(Nat) /\ Queued(g) \in Seq(Nat)
    BY StateTypes, Sinks DEF Good
  <2>2. ToSyslog(d) = g.sent \o Queued(g)
    BY DetachMoves
  <2> QED
    BY <2>1, <2>2, Sinks, ConcatRange
<1>7. Moves(d, s, 0)
  BY <1>5, MovesTrans
<1> HIDE DEF d
<1>8. w.sock.failed /\ s.sock.failed
  <2>1. g.sock.up
    BY DEF Good, Usable
  <2>2. w.sock.up
    BY <2>1, <1>5 DEF Moves, d
  <2> QED
    BY <2>2 DEF Good, Usable, Moves, Keeps
<1>9. Acct(h) = Acct(g)
  <2>1. Lasts(s.queue) \in Nat
    BY <1>1, StateTypes, LastsFinite
  <2>2. Acct(h) = Acct(s) + 1
    BY <2>1, <1>1, <1>2 DEF Acct
  <2> QED
    BY <2>2, <1>5, <1>7 DEF Moves, Keeps
<1>10. Keeps(g, h, 0)
  BY <1>2, <1>3, <1>5, <1>6, <1>7, <1>8, <1>9 DEF Keeps, Moves, Gains
<1>11. LeKept(g, h) /\ h.backend = g.backend /\ h.sock.up = g.sock.up
  BY <1>2, <1>5, <1>7 DEF LeKept, Moves
<1>12. Range(Framed(h)) \subseteq {0}
  BY <1>3, RangeOfOne DEF Moves, Gains
<1> QED
  BY <1>2, <1>4, <1>10, <1>11, <1>12 DEF h, Moves, Gains

-----------------------------------------------------------------------------
\* Getting and sending frames inside ft_logrecord_process, where a log call of
\* libft's own only spoils the static record.
LEMMA ResetMoves ==
  ASSUME NEW g, Good(g), g.frame # None, g.frame.ids = <<>>
  PROVE  /\ Good([g EXCEPT !.frame = Empty]) /\ Moves(g, [g EXCEPT !.frame = Empty], 0)
         /\ [g EXCEPT !.frame = Empty].frame = Empty
<1> DEFINE h == [g EXCEPT !.frame = Empty]
<1>1. g \in State
  BY DEF Good
<1>2. /\ h \in State /\ h.frame = Empty /\ h.free = g.free /\ h.sent = g.sent
      /\ h.queue = g.queue /\ h.file = g.file /\ h.err = g.err /\ h.sock = g.sock
      /\ h.dry = g.dry /\ h.backend = g.backend /\ h.le = g.le
  BY <1>1, EmptyType DEF State
<1> HIDE DEF h
<1>3. Framed(h) = <<>> /\ Framed(g) = <<>>
  BY <1>2, EmptyType DEF Framed, Empty
<1>4. ToSyslog(h) = ToSyslog(g) /\ ToFile(h) = ToFile(g) /\ Acct(h) = Acct(g)
  BY <1>2, <1>3, EmptyType DEF ToSyslog, ToFile, Queued, Acct
<1>5. Keeps(g, h, 0) /\ InOrder(h)
  BY <1>2, <1>4, Still DEF Good
<1>6. Good(h)
  BY <1>2, <1>5, EmptyType DEF Good, Usable, FrameSound
<1>7. Moves(g, h, 0)
  BY <1>2, <1>3, <1>5 DEF Moves, LeKept, Gains
<1> QED
  BY <1>2, <1>6, <1>7 DEF h

LEMMA ReentryFrameAlloc ==
  ASSUME NEW g, Good(g), g.le \in Record, g.frame = None, g.sock.up
  PROVE  /\ Good(Reentry!FrameAlloc(g)) /\ Moves(g, Reentry!FrameAlloc(g), 0)
         /\ Reentry!FrameAlloc(g).frame \in {None, Empty}
         /\ Reentry!FrameAlloc(g).sent = g.sent /\ Reentry!FrameAlloc(g).queue = g.queue
<1> DEFINE h == Reentry!FrameAlloc(g)
<1>0. g \in State /\ g.free \in Nat
  BY StateTypes DEF Good
<1>1. CASE g.free > 0
  <2>1. h = Borrow(g)
    BY <1>1 DEF Reentry!FrameAlloc, Reentry!Borrowed, Reentry!FormatEmpty, FormatEmpty,
                Borrow, Empty
  <2> QED
    BY <2>1, <1>1, BorrowMoves
<1>2. CASE ~(g.free > 0)
  <2> DEFINE d == Dry(g)
  <2>1. h = Nested(d, TRUE)
    BY <1>2 DEF Reentry!FrameAlloc, Dry
  <2>2. /\ Good(d) /\ Moves(g, d, 0) /\ d.dry /\ d.le \in Record /\ d.frame = None
        /\ d.sent = g.sent /\ d.queue = g.queue
    BY DryMoves
  <2> HIDE DEF d
  <2>3. Good(h) /\ Moves(d, h, 0) /\ h = [d EXCEPT !.le = h.le]
    BY <2>1, <2>2, NestedMoves
  <2> HIDE DEF h
  <2>4. d \in State
    BY <2>2 DEF Good
  <2>5. h.frame = d.frame /\ h.sent = d.sent /\ h.queue = d.queue
    BY <2>3, <2>4 DEF State
  <2>6. Moves(g, h, 0)
    BY <1>0, <2>2, <2>3, MovesTrans
  <2> QED
    BY <2>2, <2>3, <2>5, <2>6 DEF h
<1> QED
  BY <1>1, <1>2

LEMMA ReentryStuck ==
  ASSUME NEW g, Good(g), g.le \in Record, NEW fails \in BOOLEAN
  PROVE  /\ Good(Reentry!Stuck(g, fails)) /\ Moves(g, Reentry!Stuck(g, fails), 0)
         /\ Reentry!Stuck(g, fails).frame = g.frame
<1> DEFINE h == Reentry!Stuck(g, fails)
<1>0. g \in State /\ Moves(g, g, 0)
  BY FlagsMove DEF Good, LeKept
<1>1. CASE g.queue = <<>>
  BY <1>0, <1>1 DEF Reentry!Stuck
<1>2. CASE g.queue # <<>> /\ ~fails
  <2>1. h = Waiting(g)
    BY <1>2 DEF Reentry!Stuck, Waiting
  <2> QED
    BY <2>1, WatchMoves
<1>3. CASE g.queue # <<>> /\ fails
  <2> DEFINE u == Unready(g)
             n == Nested(u, FALSE)
  <2>1. h = Shut(n)
    BY <1>3 DEF Reentry!Stuck, Reentry!Failed, Shut, Unready
  <2>2. Good(u) /\ Moves(g, u, 0) /\ u.le \in Record /\ u.frame = g.frame
    BY WatchMoves
  <2> HIDE DEF u
  <2>3. Good(n) /\ Moves(u, n, 0) /\ n = [u EXCEPT !.le = n.le]
    BY <2>2, NestedMoves
  <2> HIDE DEF n
  <2>4. u \in State
    BY <2>2 DEF Good
  <2>5. n.frame = u.frame
    BY <2>3, <2>4 DEF State
  <2>6. Good(h) /\ Moves(n, h, 0) /\ h.frame = n.frame
    BY <2>1, <2>3, WatchMoves
  <2> HIDE DEF h
  <2>7. Moves(g, h, 0)
    BY <1>0, <2>2, <2>3, <2>4, <2>6, MovesTrans
  <2> QED
    BY <2>2, <2>5, <2>6, <2>7 DEF h
<1> QED
  BY <1>1, <1>2, <1>3

LEMMA ReentryWriteReal ==
  ASSUME NEW g, Good(g), g.le \in Record, NEW a, a.n \in Nat, a.error \in BOOLEAN
  PROVE  /\ Good(Reentry!WriteReal(g, a)) /\ Moves(g, Reentry!WriteReal(g, a), 0)
         /\ Reentry!WriteReal(g, a).frame = g.frame
<1> DEFINE h == Reentry!WriteReal(g, a)
<1>0. g \in State /\ g.queue \in Seq(Cell)
  BY StateTypes DEF Good
<1>1. CASE g.sock.failed
  BY <1>1, ReentryStuck DEF Reentry!WriteReal
<1>2. CASE ~g.sock.failed
  <2> DEFINE m == Min({a.n, Len(g.queue)})
             t == Gone(g, m)
  <2>1. m \in 0 .. Len(g.queue)
    <3>1. Len(g.queue) \in Nat
      BY <1>0
    <3> QED
      BY <3>1, MinOfTwo
  <2> HIDE DEF m
  <2>2. h = Reentry!Stuck(t, a.error)
    <3>1. Reentry!Min({a.n, Len(g.queue)}) = m
      BY DEF Reentry!Min, Min, m
    <3>3. h = Reentry!Stuck(Gone(g, Reentry!Min({a.n, Len(g.queue)})), a.error)
      BY <1>2 DEF Reentry!WriteReal
    <3> QED
      BY <3>1, <3>3, Zenon
  <2>3. Good(t) /\ Moves(g, t, 0) /\ t.frame = g.frame /\ t.le \in Record
    BY <2>1, GoneMoves
  <2> HIDE DEF t
  <2>4. Good(h) /\ Moves(t, h, 0) /\ h.frame = t.frame
    BY <2>2, <2>3, ReentryStuck
  <2> HIDE DEF h
  <2>5. Moves(g, h, 0)
    BY <1>0, <2>3, <2>4, MovesTrans
  <2> QED
    BY <2>3, <2>4, <2>5 DEF h
<1> QED
  BY <1>1, <1>2

LEMMA ReentrySend ==
  ASSUME NEW g, Good(g), g.le \in Record, g.frame # None,
         NEW a, a.n \in Nat, a.error \in BOOLEAN
  PROVE  /\ Good(Reentry!Send(g, TRUE, a)) /\ Moves(g, Reentry!Send(g, TRUE, a), 0)
         /\ Reentry!Send(g, TRUE, a).frame \in {None, Empty}
<1> DEFINE h == Reentry!Send(g, TRUE, a)
           ids == g.frame.ids
           d == Detached(g)
           w == Reentry!FrameAlloc(d)
<1>0. g \in State
  BY DEF Good
<1>1. CASE ids = <<>>
  <2>1. h = [g EXCEPT !.frame = Empty]
    BY <1>1 DEF Reentry!Send, Reentry!Borrowed, Reentry!FormatEmpty, FormatEmpty, Empty
  <2> QED
    BY <2>1, <1>1, ResetMoves
<1>2. CASE ids # <<>>
  <2>1. h = Reentry!Write(w, ids, a)
    BY <1>2 DEF Reentry!Send, Detached
  <2>2. Good(d) /\ d.frame = None /\ d.le \in Record /\ d.sock.up
        /\ d.sent = g.sent /\ d.queue = g.queue
    <3>1. g.sock.up
      BY DEF Good, Usable
    <3> QED
      BY <3>1, DetachMoves
  <2> HIDE DEF d
  <2>3. /\ Good(w) /\ Moves(d, w, 0) /\ w.frame \in {None, Empty}
        /\ w.sent = g.sent /\ w.queue = g.queue
    BY <2>2, ReentryFrameAlloc
  <2>4. Framed(w) = <<>> /\ w.le \in Record
    BY <2>2, <2>3, LeShape DEF Framed, Empty, Moves
  <2> HIDE DEF w
  <2>5. CASE ~w.sock.open
    <3> DEFINE s == Nested(w, TRUE)
    <3>1. h = Returned(s)
      BY <2>1, <2>5 DEF Reentry!Write, Returned
    <3>2. w.sock.failed
      <4>1. w.sock.up
        BY <2>2, <2>3 DEF Moves
      <4> QED
        BY <4>1, <2>3, <2>5 DEF Good, Usable
    <3>3. Good(s) /\ Moves(w, s, 0) /\ s = [w EXCEPT !.le = s.le]
      BY <2>3, <2>4, <3>2, NestedMoves
    <3> HIDE DEF s, h
    <3>4. s.frame = w.frame
      BY <2>3, <3>3 DEF Good, State
    <3>5. Moves(Detached(g), w, 0)
      BY <2>3 DEF d
    <3>6. Good(h) /\ Moves(g, h, 0) /\ h.frame = s.frame
      BY <2>3, <2>4, <2>5, <3>1, <3>3, <3>5, RefuseMoves
    <3> QED
      BY <2>3, <3>4, <3>6 DEF h
  <2>6. CASE w.sock.open
    <3> DEFINE k == Enqueued(w, ids)
    <3>1. /\ Good(k) /\ Moves(g, k, 0) /\ k.frame = w.frame /\ k.sock = w.sock
          /\ k.le \in Record
      BY <1>2, <2>3, <2>4, EnqueueMoves DEF d
    <3>2. h = IF k.sock.ready THEN Reentry!WriteReal(k, a) ELSE Watched(k)
      BY <2>1, <2>6, <3>1
         DEF Reentry!Write, Reentry!Vecs, Enqueued, VecsOf, Watched
    <3> HIDE DEF k, h
    <3>3. Good(h) /\ Moves(k, h, 0) /\ h.frame = k.frame
      <4>1. CASE k.sock.ready
        BY <4>1, <3>1, <3>2, ReentryWriteReal
      <4>2. CASE ~k.sock.ready
        BY <4>2, <3>1, <3>2, WatchMoves
      <4> QED
        BY <4>1, <4>2
    <3>4. Moves(g, h, 0)
      BY <1>0, <3>1, <3>3, MovesTrans
    <3> QED
      BY <2>3, <3>1, <3>3, <3>4 DEF h
  <2> QED
    BY <2>5, <2>6
<1> QED
  BY <1>1, <1>2

-----------------------------------------------------------------------------
\* The record in the frame: behind the others, in a vec that ends within it.
LEMMA PutMoves ==
  ASSUME NEW g, Good(g), g.le \in Record, g.frame # None,
         Fits(g.frame.f, g.le.size + Overhead), Fresh(g, g.le.id)
  PROVE  /\ Good(Put(g)) /\ Moves(g, Put(g), g.le.id) /\ Put(g).le = g.le
         /\ g.le.id \in Somewhere(Put(g)) \cup {0}
<1> DEFINE r == g.le
           x == r.id
           c == r.size + Overhead
           f == AppendVec(g.frame.f, c)
           n == Len(f.vecs)
           v == Advance(Last(f.vecs), r.size + r.header)
           e == [f EXCEPT !.vecs[Len(f.vecs)] = Trim(v)]
           h == Put(g)
<1>1. /\ g \in State /\ InOrder(g) /\ WellFormed(g.frame.f)
      /\ r.id \in Nat /\ r.size \in Nat /\ r.header \in Nat /\ Overhead \in Nat
      /\ c \in Nat /\ x \in Nat
  BY RecordTypes, LogAssumption DEF Good, FrameSound
<1>2. CASE r.header >= Overhead
  <2>1. h = Emergency(g)
    BY <1>2 DEF Put
  <2>2. Emergency(g) = [g EXCEPT !.err = Emergency(g).err]
    BY EmergencyMoves
  <2>3. Emergency(g).le = g.le
    BY <2>2, <1>1 DEF State
  <2> QED
    BY <2>1, <2>3, EmergencyMoves
<1>3. CASE ~(r.header >= Overhead)
  <2>1. h = [g EXCEPT !.frame = [f |-> e, ids |-> Append(g.frame.ids, x)]]
    BY <1>3, <1>1 DEF Put, State
  <2>2. WellFormed(f)
    BY <1>1, AppendSound
  <2>3. /\ f.vecs = Append(g.frame.f.vecs, NewVec(NextOffset(g.frame.f), c))
        /\ g.frame.f.vecs \in Seq(Vec) /\ NextOffset(g.frame.f) \in Nat
    BY <1>1, Shape, NextOffsetIsBehind DEF AppendVec
  <2>4. NewVec(NextOffset(g.frame.f), c) \in Vec
    BY <1>1, <2>3, NewVecOk
  <2> DEFINE l == Last(f.vecs)
  <2>5. n \in DOMAIN f.vecs /\ l = f.vecs[n] /\ l = NewVec(NextOffset(g.frame.f), c)
    BY <2>3, <2>4 DEF Last
  <2>6. l \in Vec /\ VecOk(l) /\ Remaining(l) = c
    <3>1. VecOk(l) /\ l \in Vec
      BY <1>1, <2>3, <2>5, NewVecOk
    <3>2. l.limit = c /\ l.position = 0
      BY <2>5 DEF NewVec
    <3> QED
      BY <3>1, <3>2, <1>1 DEF Remaining
  <2>7. r.size + r.header \in 0 .. Remaining(l)
    BY <1>1, <1>3, <2>6
  <2> HIDE DEF l
  <2>8. v \in Vec /\ VecOk(v) /\ v.offset = l.offset /\ v.capacity = l.capacity
    BY <2>6, <2>7, AdvanceOk DEF l
  <2> DEFINE t == Trim(v)
  <2> HIDE DEF v
  <2>9. t \in Vec /\ VecOk(t) /\ t.offset = l.offset /\ t.capacity <= l.capacity
    BY <2>8, TrimOk
  <2> HIDE DEF f, n
  <2>10. WellFormed([f EXCEPT !.vecs[n] = t])
    BY <2>2, <2>5, <2>9, ReplaceVecOk
  <2>11. WellFormed(e)
    BY <2>10 DEF n
  <2> DEFINE ids == g.frame.ids
             k == [f |-> e, ids |-> ids \o <<x>>]
  <2>12. /\ ids \in Seq(Nat) /\ Append(ids, x) = ids \o <<x>> /\ ids \o <<x>> \in Seq(Nat)
         /\ <<x>> \in Seq(Nat) /\ Framed(g) = ids
    <3>1. ids \in Seq(Nat) /\ Framed(g) = ids
      BY <1>1, FrameTypes
    <3>2. x \in Nat
      BY <1>1
    <3> HIDE DEF ids, x
    <3>3. <<x>> \in Seq(Nat) /\ Append(ids, x) = ids \o <<x>>
      BY <3>1, <3>2
    <3>4. ids \o <<x>> \in Seq(Nat)
      BY <3>1, <3>3, ConcatType
    <3> QED
      BY <3>1, <3>3, <3>4
  <2>13. e \in [vecs : Seq(Vec), at : Nat]
    BY <2>11 DEF WellFormed
  <2> HIDE DEF e
  <2>14. k \in LogFrame /\ k # None
    <3> DEFINE s == ids \o <<x>>
    <3>1. s \in Seq(Nat)
      BY <2>12
    <3> HIDE DEF s
    <3>2. [f |-> e, ids |-> s] \in LogFrame
      BY <2>13, <3>1 DEF LogFrame
    <3> QED
      BY <3>2, NoneAssumption DEF s
  <2>15. h = [g EXCEPT !.frame = k]
    BY <2>1, <2>12
  <2>16. k.f = e /\ k.ids = ids \o <<x>>
    OBVIOUS
  <2> HIDE DEF k, h
  <2>17. /\ h \in State /\ h.frame = k /\ h.free = g.free /\ h.sent = g.sent
         /\ h.queue = g.queue /\ h.file = g.file /\ h.err = g.err /\ h.sock = g.sock
         /\ h.dry = g.dry /\ h.backend = g.backend /\ h.le = g.le
    BY <1>1, <2>14, <2>15 DEF State
  <2>18. Framed(h) = ids \o <<x>> /\ ToFile(h) = ToFile(g) /\ Queued(h) = Queued(g)
    BY <2>14, <2>16, <2>17 DEF Framed, ToFile, Queued
  <2>19. ToSyslog(h) = ToSyslog(g) \o <<x>>
    <3> DEFINE p == g.sent \o Queued(g)
    <3>1. /\ p \in Seq(Nat) /\ ToSyslog(g) = p \o ids
          /\ ToSyslog(h) = p \o (ids \o <<x>>)
      BY <1>1, <2>12, <2>17, <2>18, Sinks
    <3> HIDE DEF p, ids
    <3> QED
      BY <3>1, <2>12, ConcatConcat
  <2>20. Acct(h) = Acct(g)
    BY <2>14, <2>17 DEF Acct
  <2>21. /\ InOrder(h) /\ Somewhere(h) = Somewhere(g) \cup {x}
         /\ Gains(ToSyslog(g), ToSyslog(h), x) /\ Gains(ToFile(g), ToFile(h), x)
         /\ Gains(g.err, h.err, x)
    <3> HIDE DEF x
    <3>1. Fresh(g, x)
      BY DEF x
    <3> QED
      BY <3>1, <1>1, <2>17, <2>18, <2>19, GainSyslog
  <2>22. Keeps(g, h, x)
    BY <2>17, <2>20, <2>21 DEF Keeps
  <2>23. Good(h)
    BY <2>11, <2>14, <2>16, <2>17, <2>21 DEF Good, Usable, FrameSound
  <2>24. Gains(Framed(g), Framed(h), x)
    BY ZenonT(30), <2>12, <2>18, ConcatRange, RangeOfOne DEF Gains
  <2>25. Moves(g, h, x)
    BY <2>17, <2>22, <2>24 DEF Moves, LeKept
  <2> QED
    BY <2>17, <2>21, <2>23, <2>25 DEF h
<1> QED
  BY <1>2, <1>3

LEMMA AllocMoves ==
  ASSUME NEW g, Good(g), g.le \in Record, g.sock.up
  PROVE  /\ Good(Alloc(g)) /\ Moves(g, Alloc(g), 0)
         /\ Alloc(g).frame \in {g.frame, None, Empty}
<1>1. g \in State /\ Moves(g, g, 0)
  BY FlagsMove DEF Good, LeKept
<1>2. CASE g.frame = None
  BY <1>2, ReentryFrameAlloc DEF Alloc
<1>3. CASE g.frame # None
  BY <1>1, <1>3 DEF Alloc
<1> QED
  BY <1>2, <1>3

LEMMA ReplacedMoves ==
  ASSUME NEW g, Good(g), g.le \in Record, g.sock.up,
         NEW a, a.n \in Nat, a.error \in BOOLEAN
  PROVE  Good(Replaced(g, a)) /\ Moves(g, Replaced(g, a), 0)
<1> DEFINE s == Reentry!Send(g, TRUE, a)
           h == Alloc(s)
<1>1. g \in State /\ Moves(g, g, 0)
  BY FlagsMove DEF Good, LeKept
<1>2. CASE Full(g)
  <2>1. Replaced(g, a) = h
    BY <1>2 DEF Replaced
  <2>2. g.frame # None
    BY <1>2 DEF Full
  <2>3. Good(s) /\ Moves(g, s, 0) /\ s.frame \in {None, Empty}
    BY <2>2, ReentrySend
  <2>4. s.le \in Record /\ s.sock.up
    BY <2>3, LeShape DEF Moves
  <2> HIDE DEF s
  <2>5. Good(h) /\ Moves(s, h, 0) /\ h.frame \in {s.frame, None, Empty}
    BY <2>3, <2>4, AllocMoves
  <2> HIDE DEF h
  <2>6. Moves(g, h, 0)
    BY <1>1, <2>3, <2>5, MovesTrans
  <2> QED
    BY <2>1, <2>5, <2>6
<1>3. CASE ~Full(g)
  BY <1>1, <1>3 DEF Replaced, Full
<1> QED
  BY <1>2, <1>3

\* A record is in one of the sinks, or is lost with cause, or is tried for ever.
Handled(h, r) ==
  \/ r.id \in Somewhere(h) \cup {0} \/ h.sock.failed \/ (r.plain /\ h.dry)
  \/ h.phase = "retrying"

\* The phase is not about records.
InPhase(g, p) == [g EXCEPT !.phase = p]
LEMMA InPhaseMoves ==
  ASSUME NEW g, Good(g), NEW p \in {"running", "crashed", "looping", "retrying"}
  PROVE  /\ Good(InPhase(g, p)) /\ Moves(g, InPhase(g, p), 0)
         /\ InPhase(g, p).frame = g.frame /\ InPhase(g, p).backend = g.backend
         /\ InPhase(g, p).le = g.le /\ InPhase(g, p).phase = p
<1> DEFINE h == InPhase(g, p)
<1>1. g \in State
  BY DEF Good
<1>2. /\ h \in State /\ h.frame = g.frame /\ h.free = g.free /\ h.sent = g.sent
      /\ h.queue = g.queue /\ h.file = g.file /\ h.err = g.err /\ h.sock = g.sock
      /\ h.dry = g.dry /\ h.backend = g.backend /\ h.le = g.le /\ h.phase = p
  BY <1>1 DEF State, InPhase
<1> HIDE DEF h
<1>3. Good(h) /\ Moves(g, h, 0)
  BY <1>2, FlagsMove DEF LeKept
<1> QED
  BY <1>2, <1>3 DEF h

LEMMA GainsMore ==
  ASSUME NEW g, NEW h, NEW x, NEW y, Moves(g, h, y), y \in {0, x}
  PROVE  Moves(g, h, x)
  BY DEF Moves, Keeps, Gains

LEMMA SyslogProcessMoves ==
  ASSUME NEW g, Good(g), g.le \in Record, g.backend = "syslog",
         Fresh(g, g.le.id), NEW a, a.n \in Nat, a.error \in BOOLEAN
  PROVE  /\ Good(SyslogProcess(g, a)) /\ Moves(g, SyslogProcess(g, a), g.le.id)
         /\ Handled(SyslogProcess(g, a), g.le)
<1> DEFINE w == Alloc(g)
           k == Replaced(w, a)
           h == PutOrPrint(k)
           r == g.le
           y == k.le.id
<1>1. SyslogProcess(g, a) = IF Full(k) THEN InPhase(k, "retrying") ELSE h
  BY DEF SyslogProcess, InPhase
<1>2. g \in State /\ g.sock.up /\ r.id \in Nat /\ r.size \in Nat
  BY RecordTypes DEF Good, Usable
<1>3. Good(w) /\ Moves(g, w, 0)
  BY <1>2, AllocMoves
<1>4. w.le \in Record /\ w.le.size = r.size /\ w.sock.up
  BY <1>2, <1>3, LeShape DEF Moves
<1> HIDE DEF w
<1>6. Good(k) /\ Moves(w, k, 0)
  BY <1>3, <1>4, ReplacedMoves
<1>7. Moves(g, k, 0)
  BY <1>2, <1>3, <1>6, MovesTrans
<1> HIDE DEF k
<1>8. /\ k.le \in Record /\ k.le.size = r.size
      /\ y = r.id \/ (y = 0 /\ r.plain /\ (k.dry \/ k.sock.failed))
  BY <1>7, LeShape DEF Moves
<1>9. Fresh(k, y)
  <2>1. Fresh(k, r.id)
    BY <1>2, <1>7, FreshStays DEF Moves
  <2> QED
    BY <2>1, <1>8 DEF Fresh
<1>10. CASE Full(k)
  <2> DEFINE e == InPhase(k, "retrying")
  <2>1. SyslogProcess(g, a) = e
    BY <1>1, <1>10
  <2>2. Good(e) /\ Moves(k, e, 0) /\ e.phase = "retrying"
    BY <1>6, InPhaseMoves
  <2> HIDE DEF e
  <2>3. Moves(g, e, 0)
    BY <1>2, <1>7, <2>2, MovesTrans
  <2>4. Moves(g, e, r.id)
    BY <2>3, GainsMore
  <2> QED
    BY <2>1, <2>2, <2>4 DEF Handled
<1>11. CASE ~Full(k)
  <2>1. SyslogProcess(g, a) = h
    BY <1>1, <1>11
  <2>2. Good(h) /\ Moves(k, h, y) /\ y \in Somewhere(h) \cup {0}
    <3>1. CASE k.frame = None
      BY <3>1, <1>6, <1>8, <1>9, EmergencyMoves DEF PutOrPrint
    <3>2. CASE k.frame # None
      BY <3>2, <1>6, <1>8, <1>9, <1>11, PutMoves DEF PutOrPrint, Full
    <3> QED
      BY <3>1, <3>2
  <2> HIDE DEF h
  <2>3. Moves(g, h, y)
    BY <1>2, <1>7, <2>2, MovesTrans
  <2>4. Moves(g, h, r.id)
    <3>1. y \in {0, r.id}
      BY <1>8
    <3> HIDE DEF y, r
    <3> QED
      BY <3>1, <2>3, GainsMore
  <2>5. Handled(h, r)
    <3>1. k.dry => h.dry
      BY <2>2 DEF Moves, Keeps
    <3>2. k.sock.failed => h.sock.failed
      BY <2>2 DEF Moves, Keeps
    <3> QED
      BY <3>1, <3>2, <1>8, <2>2 DEF Handled
  <2> QED
    BY <2>1, <2>2, <2>4, <2>5
<1> QED
  BY <1>10, <1>11

-----------------------------------------------------------------------------
\* A whole log call.
WithRecord(g, r) == [g EXCEPT !.le = r]

LEMMA WithRecordMoves ==
  ASSUME NEW g, Good(g), NEW r \in {None} \cup Record
  PROVE  /\ Good(WithRecord(g, r)) /\ Keeps(g, WithRecord(g, r), 0)
         /\ WithRecord(g, r).le = r /\ WithRecord(g, r).backend = g.backend
         /\ WithRecord(g, r).sock = g.sock /\ WithRecord(g, r).frame = g.frame
         /\ WithRecord(g, r).file = g.file /\ WithRecord(g, r).sent = g.sent
         /\ WithRecord(g, r).queue = g.queue /\ WithRecord(g, r).free = g.free
         /\ WithRecord(g, r).dry = g.dry /\ WithRecord(g, r).phase = g.phase
         /\ Framed(WithRecord(g, r)) = Framed(g)
         /\ Somewhere(WithRecord(g, r)) = Somewhere(g)
<1> DEFINE h == WithRecord(g, r)
<1>1. g \in State
  BY DEF Good
<1>2. /\ h \in State /\ h.le = r /\ h.frame = g.frame /\ h.free = g.free /\ h.sent = g.sent
      /\ h.queue = g.queue /\ h.file = g.file /\ h.err = g.err /\ h.sock = g.sock
      /\ h.dry = g.dry /\ h.backend = g.backend /\ h.phase = g.phase
  BY <1>1 DEF WithRecord, State
<1> HIDE DEF h
<1>3. /\ ToSyslog(h) = ToSyslog(g) /\ ToFile(h) = ToFile(g) /\ Framed(h) = Framed(g)
      /\ Acct(h) = Acct(g)
  BY <1>2, SinksDepend
<1>4. Keeps(g, h, 0) /\ InOrder(h)
  BY <1>2, <1>3, Still DEF Good
<1>5. Good(h)
  BY <1>2, <1>4 DEF Good, Usable, FrameSound
<1> QED
  BY <1>2, <1>3, <1>4, <1>5 DEF h, Somewhere

\* Before the record is forgotten.
Processed(h, answer) ==
  CASE h.backend = None -> Emergency(h)
    [] h.backend = "file" -> FileProcess(h)
    [] OTHER -> SyslogProcess(h, answer)

LEMMA ProcessIs ==
  ASSUME NEW g, Good(g), NEW r \in Record, NEW a
  PROVE  Process(g, r, a) = WithRecord(Processed(WithRecord(g, r), a), None)
<1> DEFINE h == WithRecord(g, r)
<1>1. h.backend = g.backend
  BY WithRecordMoves
<1>2. [g EXCEPT !.le = r] = h
  BY DEF WithRecord
<1> HIDE DEF h
<1> QED
  BY <1>1, <1>2 DEF Process, Processed, WithRecord

LEMMA ProcessedMoves ==
  ASSUME NEW h, Good(h), h.le \in Record, Fresh(h, h.le.id),
         NEW a, a.n \in Nat, a.error \in BOOLEAN
  PROVE  /\ Good(Processed(h, a)) /\ Moves(h, Processed(h, a), h.le.id)
         /\ Handled(Processed(h, a), h.le)
<1>1. h.backend \in {"file", "syslog", None} /\ None # "file" /\ None # "syslog"
  BY StateTypes, NoneAssumption DEF Good
<1>2. CASE h.backend = None
  <2>1. Processed(h, a) = Emergency(h)
    BY <1>1, <1>2 DEF Processed
  <2> QED
    BY <2>1, EmergencyMoves DEF Handled
<1>3. CASE h.backend = "file"
  <2>1. Processed(h, a) = FileProcess(h)
    BY <1>1, <1>3 DEF Processed
  <2> QED
    BY <2>1, FileProcessMoves DEF Handled
<1>4. CASE h.backend = "syslog"
  <2>1. Processed(h, a) = SyslogProcess(h, a)
    BY <1>1, <1>4 DEF Processed
  <2> QED
    BY <2>1, <1>4, SyslogProcessMoves
<1> QED
  BY <1>1, <1>2, <1>3, <1>4

LEMMA ProcessMoves ==
  ASSUME NEW g, Good(g), g.le = None, NEW r \in Record, Fresh(g, r.id),
         NEW a, a.n \in Nat, a.error \in BOOLEAN
  PROVE  /\ Good(Process(g, r, a)) /\ Moves(g, Process(g, r, a), r.id)
         /\ Process(g, r, a).le = None /\ Handled(Process(g, r, a), r)
<1> DEFINE h == WithRecord(g, r)
           k == Processed(h, a)
           e == WithRecord(k, None)
<1>1. /\ Good(h) /\ Keeps(g, h, 0) /\ h.le = r /\ h.backend = g.backend
      /\ h.sock = g.sock /\ Framed(h) = Framed(g) /\ Somewhere(h) = Somewhere(g)
  BY WithRecordMoves
<1> HIDE DEF h
<1>2. Fresh(h, h.le.id)
  BY <1>1 DEF Fresh
<1>3. Good(k) /\ Moves(h, k, r.id) /\ Handled(k, r)
  BY <1>1, <1>2, ProcessedMoves
<1> HIDE DEF k
<1>4. /\ Good(e) /\ Keeps(k, e, 0) /\ e.le = None /\ e.backend = k.backend
      /\ e.sock = k.sock /\ Framed(e) = Framed(k) /\ Somewhere(e) = Somewhere(k)
      /\ e.dry = k.dry /\ e.phase = k.phase
  BY <1>3, WithRecordMoves
<1> HIDE DEF e
<1>5. Keeps(h, e, r.id)
  BY <1>3, <1>4, KeepsTransLeft DEF Moves
<1>6. Keeps(g, e, r.id)
  BY <1>1, <1>5, KeepsTrans
<1>7. Moves(g, e, r.id)
  BY <1>1, <1>3, <1>4, <1>6 DEF Moves, LeKept
<1>8. Handled(e, r)
  BY <1>3, <1>4 DEF Handled
<1>9. Process(g, r, a) = e
  BY ProcessIs DEF e, k, h
<1> QED
  BY <1>4, <1>7, <1>8, <1>9

LEMMA OwnRecord ==
  ASSUME NEW plain \in BOOLEAN
  PROVE  Own(plain) \in Record /\ Own(plain).id = 0
         /\ NoAnswer.n \in Nat /\ NoAnswer.error \in BOOLEAN
  BY DEF Own, Message, Record, NoAnswer

LEMMA CallMoves ==
  ASSUME NEW g, Good(g), g.le = None, NEW plain \in BOOLEAN
  PROVE  Good(Call(g, plain)) /\ Moves(g, Call(g, plain), 0) /\ Call(g, plain).le = None
<1>1. Fresh(g, Own(plain).id)
  BY OwnRecord DEF Fresh
<1> QED
  BY <1>1, OwnRecord, ProcessMoves DEF Call

\* A log call that is not for syslog, or has no frame to be had, leaves the queue and the
\* frame alone.
LEMMA CallNoFrame ==
  ASSUME NEW g, Good(g), g.le = None, NEW plain \in BOOLEAN,
         g.backend = "syslog" => g.frame = None /\ g.free = 0
  PROVE  /\ Call(g, plain).sent = g.sent /\ Call(g, plain).queue = g.queue
         /\ Call(g, plain).frame = g.frame
<1> DEFINE r == Own(plain)
           h == WithRecord(g, r)
           k == Processed(h, NoAnswer)
           e == WithRecord(k, None)
<1>1. Call(g, plain) = e /\ r \in Record /\ r.id = 0
  BY OwnRecord, ProcessIs DEF Call
<1> HIDE DEF r
<1>2. /\ Good(h) /\ h.le = r /\ h.backend = g.backend /\ h.frame = g.frame
      /\ h.sent = g.sent /\ h.queue = g.queue /\ h.free = g.free /\ h \in State
  BY <1>1, WithRecordMoves DEF Good
<1> HIDE DEF h
<1>3. \A x : Good(x) /\ x.le \in Record /\ x.le.id = 0 => Fresh(x, x.le.id)
  BY DEF Fresh
<1>4. h.backend \in {"file", "syslog", None} /\ None # "file" /\ None # "syslog"
  BY <1>2, StateTypes, NoneAssumption
<1>5. Good(k) /\ k.sent = h.sent /\ k.queue = h.queue /\ k.frame = h.frame
  <2>1. CASE h.backend = None
    <3>1. k = Emergency(h)
      BY <1>4, <2>1 DEF Processed
    <3>2. Good(k) /\ k = [h EXCEPT !.err = k.err]
      BY <3>1, <1>1, <1>2, <1>3, EmergencyMoves
    <3> HIDE DEF k
    <3> QED
      BY <3>2, <1>2 DEF State
  <2>2. CASE h.backend = "file"
    <3>1. k = FileProcess(h)
      BY <1>4, <2>2 DEF Processed
    <3>2. Good(k) /\ k = [h EXCEPT !.err = k.err, !.file = k.file]
      BY <3>1, <1>1, <1>2, <1>3, FileProcessMoves
    <3> HIDE DEF k
    <3> QED
      BY <3>2, <1>2 DEF State
  <2>3. CASE h.backend = "syslog"
    <3>0. h.frame = None /\ h.free = 0
      BY <2>3, <1>2
    <3> DEFINE d == Dry(h)
               n == Nested(d, TRUE)
    <3>1. Alloc(h) = n
      BY <3>0 DEF Alloc, Reentry!FrameAlloc, Dry
    <3>2. /\ Good(d) /\ d.dry /\ d.le = r /\ d.frame = None /\ d.sent = h.sent
          /\ d.queue = h.queue
      BY <1>2, <3>0, DryMoves
    <3> HIDE DEF d
    <3>3. Good(n) /\ n = [d EXCEPT !.le = n.le] /\ n.le \in Record /\ n.le.id = 0
      BY <1>1, <3>2, NestedMoves
    <3> HIDE DEF n
    <3>4. n.frame = None /\ n.sent = h.sent /\ n.queue = h.queue /\ n \in State
      BY <3>2, <3>3 DEF Good, State
    <3>5. k = Emergency(n)
      BY <1>4, <2>3, <3>1, <3>4
         DEF Processed, SyslogProcess, Replaced, Full, PutOrPrint
    <3>6. Good(k) /\ k = [n EXCEPT !.err = k.err]
      BY <3>3, <3>5, <1>3, EmergencyMoves
    <3> HIDE DEF k
    <3> QED
      BY <3>0, <3>4, <3>6 DEF State
  <2> QED
    BY <1>4, <2>1, <2>2, <2>3
<1> HIDE DEF k
<1>6. e.sent = k.sent /\ e.queue = k.queue /\ e.frame = k.frame
  BY <1>5, WithRecordMoves
<1> QED
  BY <1>1, <1>2, <1>5, <1>6

-----------------------------------------------------------------------------
\* Getting and sending frames outside of ft_logrecord_process, where a message of
\* libft's own is a whole log call, and may come into the frame.
Calm(g) == Good(g) /\ g.le = None
Still0(g, h) == Calm(h) /\ Moves(g, h, 0)

LEMMA CalmCall ==
  ASSUME NEW g, Calm(g), NEW plain \in BOOLEAN
  PROVE  Still0(g, Call(g, plain))
  BY CallMoves DEF Calm, Still0

LEMMA Still0Trans ==
  ASSUME NEW g, Calm(g), NEW h, NEW k, Moves(g, h, 0), Still0(h, k)
  PROVE  Still0(g, k)
<1>1. g \in State
  BY DEF Calm, Good
<1> QED
  BY <1>1, MovesTrans DEF Still0

LEMMA TopFrameAlloc ==
  ASSUME NEW g, Calm(g), g.frame = None, g.sock.up
  PROVE  /\ Still0(g, Top!FrameAlloc(g))
         /\ Top!FrameAlloc(g).frame \in {None, Empty}
         /\ Top!FrameAlloc(g).sent = g.sent /\ Top!FrameAlloc(g).queue = g.queue
<1> DEFINE h == Top!FrameAlloc(g)
<1>0. g \in State /\ g.free \in Nat /\ Good(g) /\ g.le = None
  BY StateTypes DEF Good, Calm
<1>1. CASE g.free > 0
  <2>1. h = Borrow(g)
    BY <1>1 DEF Top!FrameAlloc, Top!Borrowed, Top!FormatEmpty, FormatEmpty,
                Borrow, Empty
  <2>2. Good(h) /\ Moves(g, h, 0) /\ h.frame = Empty /\ h.sent = g.sent /\ h.queue = g.queue
    BY <2>1, <1>0, <1>1, BorrowMoves
  <2>3. h.le = None
    BY <1>0, <2>2 DEF Moves, LeKept
  <2> QED
    BY <2>2, <2>3 DEF Still0, Calm
<1>2. CASE ~(g.free > 0)
  <2> DEFINE d == Dry(g)
  <2>1. h = Call(d, TRUE)
    BY <1>2 DEF Top!FrameAlloc, Dry
  <2>2. /\ Good(d) /\ Moves(g, d, 0) /\ d.le = None /\ d.frame = None
        /\ d.sent = g.sent /\ d.queue = g.queue /\ d.free = 0
    BY <1>0, <1>2, DryMoves
  <2> HIDE DEF d, h
  <2>3. h.frame = d.frame /\ h.sent = d.sent /\ h.queue = d.queue
    <3>1. TRUE \in BOOLEAN /\ d.frame = None /\ d.free = 0
      BY <2>2
    <3>2. /\ Call(d, TRUE).frame = d.frame /\ Call(d, TRUE).sent = d.sent
          /\ Call(d, TRUE).queue = d.queue
      BY <3>1, <2>2, CallNoFrame
    <3> QED
      BY <3>2, <2>1
  <2>4. Still0(d, h)
    BY <2>1, <2>2, CalmCall DEF Calm
  <2>5. Still0(g, h)
    BY <2>2, <2>4, Still0Trans
  <2> QED
    BY <2>2, <2>3, <2>5 DEF h
<1> QED
  BY <1>1, <1>2

\* What the socket does to the frame of the log: nothing, unless it logs to it.
FrameLeft(g, h) == g.backend # "syslog" => h.frame = g.frame

LEMMA TopStuck ==
  ASSUME NEW g, Calm(g), NEW fails \in BOOLEAN
  PROVE  Still0(g, Top!Stuck(g, fails)) /\ FrameLeft(g, Top!Stuck(g, fails))
<1> DEFINE h == Top!Stuck(g, fails)
<1>0. Good(g) /\ g \in State /\ Moves(g, g, 0) /\ g.le = None
  BY FlagsMove DEF Good, LeKept, Calm
<1>1. CASE g.queue = <<>>
  BY <1>0, <1>1 DEF Top!Stuck, Still0, FrameLeft
<1>2. CASE g.queue # <<>> /\ ~fails
  <2>1. h = Waiting(g)
    BY <1>2 DEF Top!Stuck, Waiting
  <2> QED
    BY <2>1, <1>0, WatchMoves DEF Still0, Calm, FrameLeft
<1>3. CASE g.queue # <<>> /\ fails
  <2> DEFINE u == Unready(g)
             n == Call(u, FALSE)
  <2>1. h = Shut(n)
    BY <1>3 DEF Top!Stuck, Top!Failed, Shut, Unready
  <2>2. /\ Good(u) /\ Moves(g, u, 0) /\ u.le = None /\ u.frame = g.frame
        /\ u.backend = g.backend
    BY <1>0, WatchMoves
  <2> HIDE DEF u
  <2>3. Still0(u, n) /\ FrameLeft(u, n)
    BY <2>2, CalmCall, CallNoFrame DEF Calm, FrameLeft
  <2> HIDE DEF n
  <2>4. Good(h) /\ Moves(n, h, 0) /\ h.frame = n.frame /\ h.le = n.le
    BY <2>1, <2>3, WatchMoves DEF Still0, Calm
  <2> HIDE DEF h
  <2>5. Still0(n, h)
    BY <2>3, <2>4 DEF Still0, Calm
  <2>6. Still0(u, h)
    BY <2>2, <2>3, <2>5, Still0Trans DEF Still0, Calm
  <2>7. Still0(g, h)
    BY <2>2, <2>6, Still0Trans
  <2> QED
    BY <2>2, <2>3, <2>4, <2>7 DEF h, FrameLeft
<1> QED
  BY <1>1, <1>2, <1>3

LEMMA TopWriteReal ==
  ASSUME NEW g, Calm(g), NEW a, a.n \in Nat, a.error \in BOOLEAN
  PROVE  Still0(g, Top!WriteReal(g, a)) /\ FrameLeft(g, Top!WriteReal(g, a))
<1> DEFINE h == Top!WriteReal(g, a)
<1>0. g \in State /\ g.queue \in Seq(Cell) /\ Good(g) /\ g.le = None
  BY StateTypes DEF Good, Calm
<1>1. CASE g.sock.failed
  BY <1>1, TopStuck DEF Top!WriteReal
<1>2. CASE ~g.sock.failed
  <2> DEFINE m == Min({a.n, Len(g.queue)})
             t == Gone(g, m)
  <2>1. m \in 0 .. Len(g.queue)
    <3>1. Len(g.queue) \in Nat
      BY <1>0
    <3> QED
      BY <3>1, MinOfTwo
  <2> HIDE DEF m
  <2>2. h = Top!Stuck(t, a.error)
    <3>1. Top!Min({a.n, Len(g.queue)}) = m
      BY DEF Top!Min, Min, m
    <3>3. h = Top!Stuck(Gone(g, Top!Min({a.n, Len(g.queue)})), a.error)
      BY <1>2 DEF Top!WriteReal
    <3> QED
      BY <3>1, <3>3, Zenon
  <2>3. /\ Good(t) /\ Moves(g, t, 0) /\ t.frame = g.frame /\ t.le = None
        /\ t.backend = g.backend
    BY <2>1, <1>0, GoneMoves
  <2> HIDE DEF t
  <2>4. Still0(t, h) /\ FrameLeft(t, h)
    BY <2>2, <2>3, TopStuck DEF Calm
  <2> HIDE DEF h
  <2>5. Still0(g, h)
    BY <2>3, <2>4, Still0Trans
  <2> QED
    BY <2>3, <2>4, <2>5 DEF h, FrameLeft
<1> QED
  BY <1>1, <1>2

\* The frame that is sent takes its records along.
LEMMA TopSend ==
  ASSUME NEW g, Calm(g), g.frame # None, NEW new \in BOOLEAN, ~new => g.frame.ids # <<>>,
         NEW a, a.n \in Nat, a.error \in BOOLEAN
  PROVE  /\ Still0(g, Top!Send(g, new, a))
         /\ Range(Framed(Top!Send(g, new, a))) \subseteq {0}
<1> DEFINE h == Top!Send(g, new, a)
           ids == g.frame.ids
           d == Detached(g)
           w == IF new THEN Top!FrameAlloc(d) ELSE d
<1>0. g \in State /\ Good(g) /\ g.le = None
  BY DEF Good, Calm
<1>1. CASE ids = <<>>
  <2>1. h = [g EXCEPT !.frame = Empty]
    BY <1>1 DEF Top!Send, Top!Borrowed, Top!FormatEmpty, FormatEmpty, Empty
  <2>2. Good(h) /\ Moves(g, h, 0) /\ h.frame = Empty
    BY <2>1, <1>0, <1>1, ResetMoves
  <2>3. h.le = None /\ Framed(h) = <<>>
    BY <1>0, <2>2, EmptyType DEF Moves, LeKept, Framed, Empty
  <2> QED
    BY <2>2, <2>3, RangeOfOne DEF Still0, Calm
<1>2. CASE ids # <<>>
  <2>1. h = Top!Write(w, ids, a)
    BY <1>2 DEF Top!Send, Detached
  <2>2. /\ Good(d) /\ d.frame = None /\ d.le = None /\ d.sock.up
        /\ d.sent = g.sent /\ d.queue = g.queue
    <3>1. g.sock.up
      BY <1>0 DEF Good, Usable
    <3> QED
      BY <3>1, <1>0, DetachMoves
  <2> HIDE DEF d
  <2>3. /\ Calm(w) /\ Moves(d, w, 0) /\ w.frame \in {None, Empty}
        /\ w.sent = g.sent /\ w.queue = g.queue
    <3>1. CASE new
      BY <3>1, <2>2, TopFrameAlloc DEF Calm, Still0
    <3>2. CASE ~new
      <4>1. Moves(d, d, 0)
        BY <2>2, FlagsMove DEF Good, LeKept
      <4> QED
        BY <4>1, <3>2, <2>2 DEF Calm
    <3> QED
      BY <3>1, <3>2
  <2>4. Framed(w) = <<>> /\ Good(w)
    BY <2>3 DEF Framed, Empty, Calm
  <2> HIDE DEF w
  <2>a. Moves(Detached(g), w, 0)
    BY <2>3 DEF d
  <2>5. CASE ~w.sock.open
    <3> DEFINE s == Call(w, TRUE)
    <3>1. h = Returned(s)
      BY <2>1, <2>5 DEF Top!Write, Returned
    <3>2. Good(s) /\ Moves(w, s, 0) /\ s.le = None
      BY <2>3, CalmCall DEF Still0, Calm
    <3> HIDE DEF s, h
    <3>3. /\ Good(h) /\ Moves(g, h, 0) /\ h.le = s.le /\ Range(Framed(h)) \subseteq {0}
      BY <1>0, <2>4, <2>5, <2>a, <3>1, <3>2, RefuseMoves
    <3> QED
      BY <3>2, <3>3 DEF h, Still0, Calm
  <2>6. CASE w.sock.open
    <3> DEFINE k == Enqueued(w, ids)
    <3>1. /\ Good(k) /\ Moves(g, k, 0) /\ k.sock = w.sock
          /\ k.le = None /\ Framed(k) = <<>>
      BY <1>0, <1>2, <2>3, <2>4, <2>a, EnqueueMoves DEF Calm
    <3>2. h = IF k.sock.ready THEN Top!WriteReal(k, a) ELSE Watched(k)
      BY <2>1, <2>6, <3>1
         DEF Top!Write, Top!Vecs, Enqueued, VecsOf, Watched
    <3> HIDE DEF k, h
    <3>3. Still0(k, h)
      <4>1. CASE k.sock.ready
        BY <4>1, <3>1, <3>2, TopWriteReal DEF Calm
      <4>2. CASE ~k.sock.ready
        BY <4>2, <3>1, <3>2, WatchMoves DEF Still0, Calm
      <4> QED
        BY <4>1, <4>2
    <3>4. Still0(g, h)
      BY <3>1, <3>3, Still0Trans
    <3>5. Range(Framed(h)) \subseteq {0}
      BY <3>1, <3>3, RangeOfOne DEF Still0, Moves, Gains
    <3> QED
      BY <3>4, <3>5 DEF h
  <2> QED
    BY <2>5, <2>6
<1> QED
  BY <1>1, <1>2
-----------------------------------------------------------------------------
\* What the loop and the application do to the syslog backend.
LEMMA AnswerTypes ==
  ASSUME NEW a \in Answer
  PROVE  a.n \in Nat /\ a.error \in BOOLEAN /\ a = [n |-> a.n, error |-> a.error]
  BY DEF Answer

LEMMA Still0Refl ==
  ASSUME NEW g, Calm(g)
  PROVE  Still0(g, g)
<1>1. Good(g) /\ g \in State
  BY DEF Calm, Good
<1> QED
  BY <1>1, FlagsMove DEF Still0, LeKept

LEMMA Still0Still0 ==
  ASSUME NEW g, Calm(g), NEW h, NEW k, Still0(g, h), Still0(h, k)
  PROVE  Still0(g, k)
  BY Still0Trans DEF Still0

LEMMA PhaseMoves ==
  ASSUME NEW g, Calm(g), NEW p \in {"running", "crashed", "looping", "retrying"}
  PROVE  /\ Still0(g, [g EXCEPT !.phase = p]) /\ [g EXCEPT !.phase = p].frame = g.frame
         /\ [g EXCEPT !.phase = p].backend = g.backend
<1>1. [g EXCEPT !.phase = p] = InPhase(g, p)
  BY DEF InPhase
<1> QED
  BY <1>1, InPhaseMoves DEF Still0, Calm

LEMMA PrepareMoves ==
  ASSUME NEW g, Calm(g), g.backend = "syslog", NEW a \in Answer
  PROVE  Still0(g, SyslogPrepare(g, a))
<1> DEFINE k == IF g.frame = None THEN Top!FrameAlloc(g) ELSE g
           h == SendFrame(k, a)
<1>1. g.sock.up /\ a.n \in Nat /\ a.error \in BOOLEAN
  BY AnswerTypes DEF Calm, Good, Usable
<1>2. Still0(g, k)
  <2>1. CASE g.frame = None
    BY <2>1, <1>1, TopFrameAlloc
  <2>2. CASE g.frame # None
    BY <2>2, Still0Refl
  <2> QED
    BY <2>1, <2>2
<1> HIDE DEF k
<1>3. Still0(k, h)
  <2>1. Calm(k)
    BY <1>2 DEF Still0
  <2>2. CASE k.frame = None
    BY <2>1, <2>2, PhaseMoves DEF SendFrame
  <2>3. CASE k.frame # None /\ k.frame.ids = <<>>
    BY <2>1, <2>3, Still0Refl DEF SendFrame
  <2>4. CASE k.frame # None /\ k.frame.ids # <<>>
    <3>1. h = Top!Send(k, TRUE, a)
      BY <2>4 DEF SendFrame
    <3> HIDE DEF h
    <3> QED
      BY <3>1, <1>1, <2>1, <2>4, TopSend
  <2> QED
    BY <2>2, <2>3, <2>4
<1>4. SyslogPrepare(g, a) = h
  BY DEF SyslogPrepare, k
<1> HIDE DEF h
<1> QED
  BY <1>2, <1>3, <1>4, Still0Still0

LEMMA ReadyMoves ==
  ASSUME NEW g, Calm(g), NEW r \in BOOLEAN
  PROVE  /\ Still0(g, [g EXCEPT !.sock.ready = r])
         /\ [g EXCEPT !.sock.ready = r].frame = g.frame
         /\ [g EXCEPT !.sock.ready = r].backend = g.backend
<1> DEFINE s == [g.sock EXCEPT !.ready = r]
           h == [g EXCEPT !.sock = s]
<1>1. Good(g) /\ g \in State /\ g.le = None /\ g.sock \in Socket
  BY StateTypes DEF Calm, Good
<1>2. /\ s \in Socket /\ s.failed = g.sock.failed /\ s.up = g.sock.up
      /\ s.claimed = g.sock.claimed /\ s.open = g.sock.open
  BY <1>1 DEF Socket
<1>3. h = [g EXCEPT !.sock.ready = r]
  BY <1>1 DEF State
<1> HIDE DEF s
<1>4. Good(h) /\ Moves(g, h, 0) /\ h.le = g.le /\ h.frame = g.frame /\ h.backend = g.backend
  BY <1>1, <1>2, SockMoves
<1> HIDE DEF h
<1> QED
  BY <1>1, <1>3, <1>4 DEF Still0, Calm

LEMMA DgramFlushMoves ==
  ASSUME NEW g, Calm(g), NEW a \in Answer
  PROVE  Still0(g, DgramFlush(g, a)) /\ FrameLeft(g, DgramFlush(g, a))
<1> DEFINE k == [g EXCEPT !.sock.ready = TRUE]
           b == AllOf(k, a)
           w == Top!WriteReal(k, b)
           h == Flushed(w, g.sock.ready)
           b0 == AllOf(g, a)
<1>1. g \in State /\ g.sock.ready \in BOOLEAN /\ g.queue \in Seq(Cell)
  BY StateTypes DEF Calm, Good, Socket
<1>2. CASE g.queue = <<>> \/ g.phase = "crashed"
  BY <1>2, Still0Refl DEF DgramFlush, FrameLeft
<1>3. CASE ~(g.queue = <<>> \/ g.phase = "crashed")
  <2>1. Still0(g, k) /\ k.frame = g.frame /\ k.backend = g.backend
    BY ReadyMoves
  <2>2. b0.n \in Nat /\ b0.error \in BOOLEAN
    <3>1. Len(g.queue) \in Nat
      BY <1>1
    <3> QED
      BY <3>1, AnswerTypes DEF AllOf, Answer
  <2>3. DgramFlush(g, a) = Flushed(Top!WriteReal(k, b0), g.sock.ready)
    BY <1>3 DEF DgramFlush
  <2> DEFINE v == Top!WriteReal(k, b0)
             e == Flushed(v, g.sock.ready)
  <2> HIDE DEF k, b0
  <2>4. Still0(k, v) /\ FrameLeft(k, v) /\ Calm(k)
    BY <2>1, <2>2, TopWriteReal DEF Still0
  <2> HIDE DEF v
  <2>5. Still0(v, e) /\ e.frame = v.frame
    <3>1. Calm(v)
      BY <2>4 DEF Still0
    <3>2. CASE v.queue # <<>>
      BY <3>1, <3>2, PhaseMoves DEF Flushed
    <3>3. CASE v.queue = <<>>
      BY <3>1, <3>3, <1>1, ReadyMoves DEF Flushed
    <3> QED
      BY <3>2, <3>3
  <2> HIDE DEF e
  <2>6. Still0(k, e)
    BY <2>4, <2>5, Still0Still0
  <2>7. Still0(g, e)
    BY <2>1, <2>6, Still0Still0
  <2>8. FrameLeft(g, e)
    BY <2>1, <2>4, <2>5 DEF FrameLeft
  <2> QED
    BY <2>3, <2>7, <2>8 DEF e, v
<1> QED
  BY <1>2, <1>3

\* A frame that is given up holds records of libft's own only.
LEMMA GiveUpMoves ==
  ASSUME NEW g, Calm(g), Range(Framed(g)) \subseteq {0}
  PROVE  Still0(g, GiveUp(g)) /\ GiveUp(g).frame = None
<1>0. Good(g) /\ g \in State /\ g.le = None
  BY DEF Calm, Good
<1>1. CASE g.frame = None
  BY <1>1, PhaseMoves DEF GiveUp
<1>2. CASE g.frame # None
  <2> DEFINE d == Detached(g)
             h == Returned(d)
  <2>1. GiveUp(g) = h
    BY <1>0, <1>2 DEF GiveUp, Returned, Detached, State
  <2>2. /\ Good(d) /\ d.frame = None /\ d.sent = g.sent /\ d.queue = g.queue
        /\ d.sock = g.sock /\ d.backend = g.backend /\ d.le = None
        /\ d.dry = g.dry /\ d.err = g.err /\ d.file = g.file
        /\ Acct(g) = Acct(d) + 1
    BY <1>0, <1>2, DetachMoves
  <2> HIDE DEF d
  <2>3. d \in State /\ d.free \in Nat /\ d.free + 1 \in Nat /\ Lasts(d.queue) \in Nat
    BY <2>2, StateTypes, LastsFinite DEF Good
  <2>4. /\ h \in State /\ h.dry = d.dry /\ h.sent = d.sent /\ h.frame = None
        /\ h.queue = d.queue /\ h.file = d.file /\ h.err = d.err /\ h.sock = d.sock
        /\ h.free = d.free + 1 /\ h.backend = d.backend /\ h.le = d.le
    BY <2>2, <2>3 DEF State, Returned
  <2> HIDE DEF h
  <2>5. /\ ToSyslog(h) = ToSyslog(d) /\ ToFile(h) = ToFile(d) /\ Framed(h) = <<>>
        /\ Queued(h) = Queued(g) /\ ToFile(h) = ToFile(g)
    BY <2>2, <2>4 DEF ToSyslog, ToFile, Framed, Queued
  <2>6. Good(h)
    BY <2>2, <2>4, <2>5 DEF Good, Usable, FrameSound, InOrder
  <2>7. Range(ToSyslog(h)) \subseteq Range(ToSyslog(g))
        /\ Range(ToSyslog(g)) \subseteq Range(ToSyslog(h)) \cup {0}
    BY <1>0, <2>2, <2>4, <2>5, Sinks, RangeOfOne
  <2>8. Acct(h) = Acct(g)
    BY <2>2, <2>3, <2>4 DEF Acct
  <2>9. Keeps(g, h, 0)
    BY <2>2, <2>4, <2>5, <2>7, <2>8 DEF Keeps, Gains, Somewhere
  <2>10. Moves(g, h, 0)
    BY <1>0, <2>2, <2>4, <2>5, <2>9, RangeOfOne DEF Moves, LeKept, Gains
  <2> QED
    BY <2>1, <2>2, <2>4, <2>6, <2>10 DEF Still0, Calm
<1> QED
  BY <1>1, <1>2

LEMMA LoseFrameMoves ==
  ASSUME NEW g, Calm(g), Range(Framed(g)) \subseteq {0}
  PROVE  Still0(g, LoseFrame(g)) /\ LoseFrame(g).frame = None
<1> DEFINE k == IF g.frame.ids # <<>> THEN Call(g, TRUE) ELSE g
<1>1. CASE g.frame = None
  BY <1>1, Still0Refl DEF LoseFrame
<1>2. CASE g.frame # None
  <2>1. Still0(g, k)
    BY CalmCall, Still0Refl
  <2>2. LoseFrame(g) = GiveUp(k)
    BY <1>2 DEF LoseFrame
  <2> HIDE DEF k
  <2>3. Calm(k) /\ Range(Framed(k)) \subseteq {0}
    BY <2>1 DEF Still0, Moves, Gains
  <2>4. Still0(k, GiveUp(k)) /\ GiveUp(k).frame = None
    BY <2>3, GiveUpMoves
  <2> QED
    BY <2>1, <2>2, <2>4, Still0Still0
<1> QED
  BY <1>1, <1>2

LEMMA FlushFrameMoves ==
  ASSUME NEW g, Calm(g), NEW a \in Answer
  PROVE  Still0(g, FlushFrame(g, a)) /\ FlushFrame(g, a).frame = None
<1> DEFINE k == IF g.frame.ids # <<>> THEN Top!Send(g, FALSE, a) ELSE g
<1>1. CASE g.frame = None
  BY <1>1, Still0Refl DEF FlushFrame
<1>2. CASE g.frame # None
  <2>1. Still0(g, k) /\ Range(Framed(k)) \subseteq {0}
    <3>1. CASE g.frame.ids # <<>>
      BY <1>2, <3>1, AnswerTypes, TopSend
    <3>2. CASE g.frame.ids = <<>>
      BY <1>2, <3>2, Still0Refl, RangeOfOne DEF Framed
    <3> QED
      BY <3>1, <3>2
  <2>2. FlushFrame(g, a) = LoseFrame(k)
    BY <1>2 DEF FlushFrame
  <2> HIDE DEF k
  <2>3. Still0(k, LoseFrame(k)) /\ LoseFrame(k).frame = None
    BY <2>1, LoseFrameMoves DEF Still0
  <2> QED
    BY <2>1, <2>2, <2>3, Still0Still0
<1> QED
  BY <1>1, <1>2

LEMMA SyslogFlushMoves ==
  ASSUME NEW g, Calm(g), NEW a \in Answer
  PROVE  /\ Still0(g, SyslogFlush(g, a))
         /\ g.backend # "syslog" => SyslogFlush(g, a).frame = None
<1> DEFINE k == FlushFrame(g, a)
<1>1. Still0(g, k) /\ k.frame = None
  BY FlushFrameMoves
<1>2. SyslogFlush(g, a) = DgramFlush(k, a)
  BY DEF SyslogFlush
<1> HIDE DEF k
<1>3. Calm(k) /\ k.backend = g.backend
  BY <1>1 DEF Still0, Moves
<1>4. Still0(k, DgramFlush(k, a)) /\ FrameLeft(k, DgramFlush(k, a))
  BY <1>3, DgramFlushMoves
<1> QED
  BY <1>1, <1>2, <1>3, <1>4, Still0Still0 DEF FrameLeft

\* The socket is shut when the backend is no longer in use.
LEMMA SocketFiniMoves ==
  ASSUME NEW g, Calm(g), g.backend # "syslog", g.frame = None
  PROVE  Calm(SocketFini(g)) /\ Keeps(g, SocketFini(g), 0)
<1>0. Good(g) /\ g \in State /\ g.le = None /\ g.sock \in Socket
  BY StateTypes DEF Calm, Good
<1>1. CASE g.phase # "running"
  BY <1>1, Still0Refl DEF SocketFini, Still0, Moves
<1>2. CASE g.phase = "running"
  <2> DEFINE s == [g.sock EXCEPT !.up = FALSE, !.open = FALSE, !.ready = FALSE,
                                 !.watch = FALSE]
             h == [g EXCEPT !.sock = s]
  <2>1. SocketFini(g) = h
    BY <1>0, <1>2 DEF SocketFini, State
  <2>2. s \in Socket /\ s.failed = g.sock.failed /\ ~s.up
    BY <1>0 DEF Socket
  <2> HIDE DEF s
  <2>3. /\ h \in State /\ h.frame = g.frame /\ h.free = g.free /\ h.sent = g.sent
        /\ h.queue = g.queue /\ h.file = g.file /\ h.err = g.err /\ h.sock = s
        /\ h.dry = g.dry /\ h.backend = g.backend /\ h.le = g.le
    BY <1>0, <2>2 DEF State
  <2> HIDE DEF h
  <2>4. ToSyslog(h) = ToSyslog(g) /\ ToFile(h) = ToFile(g) /\ Acct(h) = Acct(g)
    BY <2>3, SinksDepend
  <2>5. Keeps(g, h, 0) /\ InOrder(h)
    BY <1>0, <2>2, <2>3, <2>4, Still DEF Good
  <2>6. Good(h)
    BY <2>2, <2>3, <2>5 DEF Good, Usable, FrameSound
  <2> QED
    BY <1>0, <2>1, <2>3, <2>5, <2>6 DEF Calm
<1> QED
  BY <1>1, <1>2

LEMMA SyslogFiniMoves ==
  ASSUME NEW g, Calm(g), g.backend # "syslog", NEW a \in Answer
  PROVE  Calm(SyslogFini(g, a)) /\ Keeps(g, SyslogFini(g, a), 0)
<1> DEFINE k == SyslogFlush(g, a)
<1>1. Still0(g, k) /\ k.frame = None
  BY SyslogFlushMoves
<1>2. SyslogFini(g, a) = SocketFini(k)
  BY DEF SyslogFini
<1> HIDE DEF k
<1>3. Calm(k) /\ k.backend = g.backend /\ Keeps(g, k, 0)
  BY <1>1 DEF Still0, Moves
<1> QED
  BY <1>1, <1>2, <1>3, SocketFiniMoves, KeepsTrans
-----------------------------------------------------------------------------
\* The file.
LEMMA FileMoves ==
  ASSUME NEW g, Calm(g), NEW f \in FileState,
         f.disk \o f.buffer = g.file.disk \o g.file.buffer
  PROVE  Still0(g, [g EXCEPT !.file = f]) /\ [g EXCEPT !.file = f].backend = g.backend
<1> DEFINE h == [g EXCEPT !.file = f]
<1>0. Good(g) /\ g \in State /\ g.le = None
  BY DEF Calm, Good
<1>1. /\ h \in State /\ h.frame = g.frame /\ h.free = g.free /\ h.sent = g.sent
      /\ h.queue = g.queue /\ h.file = f /\ h.err = g.err /\ h.sock = g.sock
      /\ h.dry = g.dry /\ h.backend = g.backend /\ h.le = g.le
  BY <1>0 DEF State
<1> HIDE DEF h
<1>2. /\ ToSyslog(h) = ToSyslog(g) /\ ToFile(h) = ToFile(g) /\ Acct(h) = Acct(g)
      /\ Framed(h) = Framed(g)
  BY <1>1 DEF ToSyslog, Queued, Framed, ToFile, Acct
<1>3. Keeps(g, h, 0) /\ InOrder(h)
  BY <1>0, <1>1, <1>2, Still DEF Good
<1>4. Good(h)
  BY <1>0, <1>1, <1>3 DEF Good, Usable, FrameSound
<1>5. Moves(g, h, 0)
  BY <1>1, <1>2, <1>3 DEF Moves, LeKept, Gains
<1> QED
  BY <1>0, <1>1, <1>4, <1>5 DEF Still0, Calm, h

LEMMA WrittenMoves ==
  ASSUME NEW g, Calm(g)
  PROVE  /\ Still0(g, Written(g)) /\ Written(g).backend = g.backend
         /\ Written(g) \in State /\ Written(g).file.buffer = <<>>
         /\ Written(g) = [g EXCEPT !.file = Written(g).file]
<1> DEFINE f == [g.file EXCEPT !.disk = g.file.disk \o g.file.buffer, !.buffer = <<>>]
<1>0. g \in State /\ g.file \in FileState /\ g.file.disk \in Seq(Nat) /\ g.file.buffer \in Seq(Nat)
  BY StateTypes DEF Calm, Good
<1>1. g.file.disk \o g.file.buffer \in Seq(Nat) /\ <<>> \in Seq(Nat)
  BY <1>0, ConcatType
<1>2. f \in FileState /\ f.disk = g.file.disk \o g.file.buffer /\ f.buffer = <<>>
  BY <1>0, <1>1 DEF FileState
<1>3. Written(g) = [g EXCEPT !.file = f]
  BY <1>0 DEF Written, State, FileState
<1> HIDE DEF f
<1>4. f.disk \o f.buffer = g.file.disk \o g.file.buffer
  BY <1>1, <1>2, ConcatEmpty
<1>5. /\ [g EXCEPT !.file = f] \in State /\ [g EXCEPT !.file = f].file = f
  BY <1>0, <1>2 DEF State
<1> QED
  BY <1>2, <1>3, <1>4, <1>5, FileMoves

LEMMA FileFlushMoves ==
  ASSUME NEW g, Calm(g), NEW forced \in BOOLEAN, NEW due \in BOOLEAN
  PROVE  Still0(g, FileFlush(g, forced, due))
<1> DEFINE w == Written(g)
           e == IF forced THEN "1e77" ELSE "past"
           f == [w.file EXCEPT !.counter = 0, !.last = e]
           h == [w EXCEPT !.file = f]
<1>1. /\ Still0(g, w) /\ w \in State
  BY WrittenMoves
<1>2. [Written(g) EXCEPT !.file.counter = 0, !.file.last = e] = h
  BY <1>1 DEF State
<1>3. FileFlush(g, forced, due) \in {g, h}
  BY <1>2 DEF FileFlush
<1> HIDE DEF w
<1>4. w.file \in FileState /\ e \in {"past", "1e77"} /\ Calm(w)
  BY <1>1, StateTypes DEF Still0
<1> HIDE DEF e
<1>5. f \in FileState /\ f.disk \o f.buffer = w.file.disk \o w.file.buffer
  BY <1>4 DEF FileState
<1> HIDE DEF f
<1>6. Still0(w, h)
  BY <1>4, <1>5, FileMoves
<1> HIDE DEF h
<1>7. Still0(g, h)
  BY <1>1, <1>6, Still0Still0
<1> QED
  BY <1>3, <1>7, Still0Refl

LEMMA FileFiniMoves ==
  ASSUME NEW g, Calm(g)
  PROVE  Still0(g, FileFini(g))
<1> DEFINE w == Written(g)
           f == [w.file EXCEPT !.open = FALSE, !.name = FALSE]
           h == [w EXCEPT !.file = f]
<1>1. Still0(g, w) /\ w \in State
  BY WrittenMoves
<1>2. FileFini(g) = h
  BY <1>1 DEF FileFini, State
<1> HIDE DEF w
<1>3. w.file \in FileState /\ Calm(w)
  BY <1>1, StateTypes DEF Still0
<1>4. f \in FileState /\ f.disk \o f.buffer = w.file.disk \o w.file.buffer
  BY <1>3 DEF FileState
<1> HIDE DEF f
<1>5. Still0(w, h)
  BY <1>3, <1>4, FileMoves
<1> HIDE DEF h
<1> QED
  BY <1>1, <1>2, <1>5, Still0Still0

LEMMA FileReopenMoves ==
  ASSUME NEW g, Calm(g), NEW opened \in BOOLEAN
  PROVE  Still0(g, FileReopen(g, opened))
<1>0. g \in State /\ g.file \in FileState
  BY StateTypes DEF Calm, Good
<1>1. g.file.name \in BOOLEAN /\ g.file.open \in BOOLEAN
  BY <1>0 DEF FileState
<1>2. CASE ~g.file.name /\ ~g.file.open
  BY <1>2, Still0Refl DEF FileReopen
<1>3. CASE ~g.file.name /\ g.file.open
  BY <1>3, CalmCall DEF FileReopen
<1>4. CASE g.file.name /\ ~opened
  BY <1>4, CalmCall DEF FileReopen
<1>5. CASE g.file.name /\ opened /\ g.file.open
  <2> DEFINE w == Written(g)
  <2>1. FileReopen(g, opened) = Call(w, TRUE)
    BY <1>5 DEF FileReopen
  <2>2. Still0(g, w)
    BY WrittenMoves
  <2> HIDE DEF w
  <2>3. Still0(w, Call(w, TRUE))
    BY <2>2, CalmCall DEF Still0
  <2> QED
    BY <2>1, <2>2, <2>3, Still0Still0
<1>6. CASE g.file.name /\ opened /\ ~g.file.open
  <2> DEFINE f == [g.file EXCEPT !.open = TRUE]
             h == [g EXCEPT !.file = f]
  <2>1. FileReopen(g, opened) = h
    BY <1>0, <1>6 DEF FileReopen, State
  <2>2. f \in FileState /\ f.disk \o f.buffer = g.file.disk \o g.file.buffer
    BY <1>0 DEF FileState
  <2> HIDE DEF f
  <2> QED
    BY <2>1, <2>2, FileMoves
<1> QED
  BY <1>1, <1>2, <1>3, <1>4, <1>5, <1>6
-----------------------------------------------------------------------------
\* The steps, and what they leave of the invariant.
LEMMA StateIs ==
  ASSUME NEW h \in State
  PROVE  h = [backend |-> h.backend, file |-> h.file, frame |-> h.frame,
              sock |-> h.sock, queue |-> h.queue, free |-> h.free, phase |-> h.phase,
              sent |-> h.sent, err |-> h.err, dry |-> h.dry, le |-> h.le]
  BY DEF State

LEMMA BecomeIs ==
  ASSUME NEW h, Calm(h), Become(h)
  PROVE  Log' = h /\ taken' = taken /\ sock' = h.sock /\ dry' = h.dry /\ phase' = h.phase
<1>1. h \in State /\ h.le = None
  BY DEF Calm, Good
<1>2. /\ backend' = h.backend /\ file' = h.file /\ frame' = h.frame
      /\ sock' = h.sock /\ queue' = h.queue /\ free' = h.free /\ phase' = h.phase
      /\ sent' = h.sent /\ err' = h.err /\ dry' = h.dry
      /\ taken' = taken
  BY DEF Become
<1>3. Log' = h
  BY <1>1, <1>2, StateIs DEF Log
<1> QED
  BY <1>2, <1>3

\* Record id is in a sink of h, or lost with cause.
Caused(h, logs, id) ==
  \/ id \in Somewhere(h) \/ h.sock.failed \/ (h.dry /\ logs[id])
  \/ h.phase = "retrying" /\ id = Len(logs)

LEMMA BecomeInv ==
  ASSUME Inv, Running, NEW h, Calm(h), Become(h), NEW x \in Nat, Keeps(Log, h, x),
         logged' \in Seq(BOOLEAN), Len(logged) <= Len(logged'), x <= Len(logged'),
         \A id \in 1 .. Len(logged) : logged'[id] = logged[id],
         \A id \in (Len(logged) + 1) .. Len(logged') : Caused(h, logged', id)
  PROVE  Inv'
<1>1. Log' = h /\ taken' = taken /\ sock' = h.sock /\ dry' = h.dry /\ phase' = h.phase
  BY BecomeIs
<1>2. /\ Good(Log) /\ taken \in Nat /\ Acct(Log) + taken = Frames
      /\ logged \in Seq(BOOLEAN) /\ Somewhere(Log) \subseteq 0 .. Len(logged)
      /\ Log.sock = sock /\ Log.dry = dry
  BY DEF Inv, Log
<1>3. Len(logged) \in Nat /\ Len(logged') \in Nat
      /\ DOMAIN logged = 1 .. Len(logged) /\ DOMAIN logged' = 1 .. Len(logged')
  BY <1>2
<1>4. Good(Log') /\ Acct(Log') + taken' = Frames
  BY <1>1, <1>2 DEF Calm, Keeps
<1>5. Somewhere(Log') \subseteq 0 .. Len(logged')
  <2>1. Somewhere(h) \subseteq Somewhere(Log) \cup {0, x}
    BY DEF Keeps, Gains, Somewhere
  <2> QED
    BY <2>1, <1>1, <1>2, <1>3
<1>6. ASSUME NEW id \in DOMAIN logged'
      PROVE  Caused(h, logged', id)
  <2>1. CASE id \in 1 .. Len(logged)
    <3>1. id \in Somewhere(Log) \/ sock.failed \/ (dry /\ logged[id])
      BY <2>1, <1>3 DEF Inv, LostOnlyWithCause, Running
    <3>2. id # 0
      BY <2>1, <1>3
    <3>3. /\ id \in Somewhere(Log) \ {0} => id \in Somewhere(h) \/ h.sock.failed
          /\ sock.failed => h.sock.failed
          /\ dry => h.dry
      BY <1>2 DEF Keeps
    <3> QED
      BY <2>1, <3>1, <3>2, <3>3 DEF Caused
  <2>2. CASE id \in (Len(logged) + 1) .. Len(logged')
    BY <2>2
  <2> QED
    BY <2>1, <2>2, <1>3
<1>7. LostOnlyWithCause'
  BY <1>1, <1>6 DEF LostOnlyWithCause, Caused
<1> QED
  BY <1>1, <1>2, <1>4, <1>5, <1>7 DEF Inv

\* A step that logs nothing for the application.
LEMMA QuietInv ==
  ASSUME Inv, Running, NEW h, Calm(h), Keeps(Log, h, 0), Become(h), logged' = logged
  PROVE  Inv'
<1>1. logged \in Seq(BOOLEAN) /\ Len(logged) \in Nat
  BY DEF Inv
<1> QED
  BY <1>1, BecomeInv

LEMMA LogCalm ==
  ASSUME Inv
  PROVE  Calm(Log) /\ Log \in State /\ Log.le = None /\ Log.backend = backend
         /\ Log.sock = sock /\ Log.frame = frame /\ Log.queue = queue /\ Log.file = file
  BY DEF Inv, Calm, Good, Log

LEMMA AppLogsInv ==
  ASSUME Inv, NEW n \in Sizes, NEW plain \in BOOLEAN, NEW hd \in Headers, NEW a \in Answer,
         AppLogs(n, plain, hd, a)
  PROVE  Inv'
<1> DEFINE x == Len(logged) + 1
           r == Message(x, n, plain, hd)
           h == Process(Log, r, a)
<1>1. logged \in Seq(BOOLEAN) /\ Len(logged) \in Nat /\ x \in Nat
      /\ Somewhere(Log) \subseteq 0 .. Len(logged)
  BY DEF Inv
<1>2. n \in Nat /\ hd \in Nat
  BY LogAssumption
<1>3. r \in Record /\ r.id = x /\ r.size = n /\ r.plain = plain
  BY <1>1, <1>2 DEF Message, Record
<1>5. Fresh(Log, r.id)
  BY <1>1, <1>3 DEF Fresh
<1>6. Running /\ Become(h) /\ logged' = Append(logged, plain)
  BY DEF AppLogs
<1> HIDE DEF r, h
<1>7. Calm(h) /\ Keeps(Log, h, x) /\ Handled(h, r)
  <2>1. Good(Log) /\ Log.le = None
    BY LogCalm DEF Calm
  <2>2. /\ Good(Process(Log, r, a)) /\ Moves(Log, Process(Log, r, a), r.id)
        /\ Process(Log, r, a).le = None /\ Handled(Process(Log, r, a), r)
    BY <2>1, <1>3, <1>5, AnswerTypes, ProcessMoves
  <2> QED
    BY <2>2, <1>3 DEF h, Calm, Moves
<1>8. /\ logged' \in Seq(BOOLEAN) /\ Len(logged') = x
      /\ \A id \in 1 .. Len(logged) : logged'[id] = logged[id]
      /\ logged'[x] = plain
  BY <1>1, <1>6
<1>9. \A id \in (Len(logged) + 1) .. Len(logged') : Caused(h, logged', id)
  <2>1. x # 0 /\ (x \in Somewhere(h) \/ h.sock.failed \/ (h.dry /\ plain)
                  \/ h.phase = "retrying")
    BY <1>1, <1>3, <1>7 DEF Handled
  <2>2. \A id \in (Len(logged) + 1) .. Len(logged') : id = x
    BY <1>1, <1>8
  <2> QED
    BY <2>1, <2>2, <1>8 DEF Caused
<1> QED
  BY <1>1, <1>6, <1>7, <1>8, <1>9, BecomeInv

LEMMA OnWriteInv ==
  ASSUME Inv, NEW a \in Answer, OnWrite(a)
  PROVE  Inv'
<1> DEFINE g == [Log EXCEPT !.sock.ready = TRUE, !.sock.watch = FALSE]
           s == [sock EXCEPT !.ready = TRUE, !.watch = FALSE]
           h == IF queue = <<>> THEN g ELSE Top!WriteReal(g, a)
<1>1. Calm(Log) /\ Good(Log) /\ Log \in State /\ Log.sock = sock /\ sock \in Socket
  BY LogCalm, StateTypes DEF Calm
<1>2. g = [Log EXCEPT !.sock = s]
  BY <1>1 DEF State
<1>3. s \in Socket /\ s.failed = sock.failed /\ s.up = sock.up /\ s.claimed = sock.claimed
      /\ s.open = sock.open
  BY <1>1 DEF Socket
<1>4. Running /\ Become(h) /\ logged' = logged
  BY DEF OnWrite, Step
<1> HIDE DEF g, s
<1>5. Good(g) /\ Moves(Log, g, 0) /\ g.le = Log.le
  BY <1>1, <1>2, <1>3, SockMoves
<1>6. Still0(Log, g) /\ Calm(g)
  BY <1>1, <1>5 DEF Still0, Calm
<1>7. Still0(g, h)
  BY <1>6, AnswerTypes, TopWriteReal, Still0Refl
<1> HIDE DEF h
<1>8. Still0(Log, h)
  BY <1>1, <1>6, <1>7, Still0Still0
<1> QED
  BY <1>4, <1>8, QuietInv DEF Still0, Moves

LEMMA FileInitInv ==
  ASSUME Inv, NEW named \in BOOLEAN, NEW opened \in BOOLEAN, FileInit(named, opened)
  PROVE  Inv'
<1> DEFINE g == FileFini(Log)
           f == [g.file EXCEPT !.name = named]
           k == [g EXCEPT !.file = f]
           h == FileReopen(k, opened)
<1>1. Calm(Log)
  BY LogCalm
<1>2. Still0(Log, g)
  BY <1>1, FileFiniMoves
<1>3. /\ Running /\ logged' = logged
      /\ Become(FileReopen([g EXCEPT !.file.name = named], opened))
  BY DEF FileInit, Change
<1> HIDE DEF g
<1>4. Calm(g) /\ g \in State /\ g.file \in FileState
  BY <1>2, StateTypes DEF Still0, Calm, Good
<1>5. k = [g EXCEPT !.file.name = named]
  BY <1>4 DEF State
<1>6. f \in FileState /\ f.disk \o f.buffer = g.file.disk \o g.file.buffer
  BY <1>4 DEF FileState
<1> HIDE DEF f
<1>7. Still0(g, k)
  BY <1>4, <1>6, FileMoves
<1> HIDE DEF k
<1>8. Still0(k, h)
  BY <1>7, FileReopenMoves DEF Still0
<1>9. Become(h)
  BY <1>3, <1>5
<1> HIDE DEF h
<1>10. Still0(Log, h)
  BY <1>1, <1>2, <1>4, <1>7, <1>8, Still0Still0
<1> QED
  BY <1>3, <1>9, <1>10, QuietInv DEF Still0, Moves

LEMMA SyslogInitInv ==
  ASSUME Inv, NEW connected \in BOOLEAN, SyslogInit(connected)
  PROVE  Inv'
<1>1. Calm(Log) /\ Good(Log) /\ Log \in State /\ Log.sock = sock /\ sock \in Socket
      /\ Log.le = None
  BY LogCalm, StateTypes DEF Calm
<1>2. Running /\ logged' = logged
  BY DEF SyslogInit, Change
<1>3. CASE sock.claimed
  <2>1. Become(Call(Log, TRUE))
    BY <1>3 DEF SyslogInit, Change
  <2> QED
    BY <2>1, <1>1, <1>2, CalmCall, QuietInv DEF Still0, Moves
<1>4. CASE ~sock.claimed
  <2> DEFINE s == [sock EXCEPT !.claimed = TRUE, !.up = connected, !.open = connected,
                               !.watch = connected]
             h == [Log EXCEPT !.sock = s]
  <2>1. Become(h)
    <3>1. h = [Log EXCEPT !.sock.claimed = TRUE, !.sock.up = connected,
                          !.sock.open = connected, !.sock.watch = connected]
      BY <1>1 DEF State
    <3> QED
      BY <3>1, <1>4 DEF SyslogInit, Change
  <2>2. /\ s \in Socket /\ s.claimed /\ s.up = connected /\ s.open = connected
        /\ s.failed = sock.failed
    BY <1>1 DEF Socket
  <2> HIDE DEF s
  <2>3. /\ h \in State /\ h.frame = Log.frame /\ h.free = Log.free /\ h.sent = Log.sent
        /\ h.queue = Log.queue /\ h.file = Log.file /\ h.err = Log.err /\ h.sock = s
        /\ h.dry = Log.dry /\ h.backend = Log.backend /\ h.le = None
    BY <1>1, <2>2 DEF State
  <2> HIDE DEF h
  <2>4. ToSyslog(h) = ToSyslog(Log) /\ ToFile(h) = ToFile(Log) /\ Acct(h) = Acct(Log)
    BY <2>3, SinksDepend
  <2>5. Keeps(Log, h, 0) /\ InOrder(h)
    BY <1>1, <2>2, <2>3, <2>4, Still DEF Good
  <2>6. Good(h)
    BY <1>1, <1>4, <2>2, <2>3, <2>5 DEF Good, Usable, FrameSound
  <2> QED
    BY <1>2, <2>1, <2>3, <2>5, <2>6, QuietInv DEF Calm
<1> QED
  BY <1>3, <1>4

LEMMA BackendMoves ==
  ASSUME NEW g, Calm(g), NEW b \in {"file", "syslog", None}, b = "syslog" => g.sock.up
  PROVE  Calm([g EXCEPT !.backend = b]) /\ Keeps(g, [g EXCEPT !.backend = b], 0)
         /\ [g EXCEPT !.backend = b].backend = b
<1> DEFINE h == [g EXCEPT !.backend = b]
<1>1. Good(g) /\ g \in State /\ g.le = None
  BY DEF Calm, Good
<1>2. /\ h \in State /\ h.frame = g.frame /\ h.free = g.free /\ h.sent = g.sent
      /\ h.queue = g.queue /\ h.file = g.file /\ h.err = g.err /\ h.sock = g.sock
      /\ h.dry = g.dry /\ h.backend = b /\ h.le = g.le
  BY <1>1 DEF State
<1> HIDE DEF h
<1>3. ToSyslog(h) = ToSyslog(g) /\ ToFile(h) = ToFile(g) /\ Acct(h) = Acct(g)
  BY <1>2, SinksDepend
<1>4. Keeps(g, h, 0) /\ InOrder(h)
  BY <1>1, <1>2, <1>3, Still DEF Good
<1>5. Good(h)
  BY <1>1, <1>2, <1>4 DEF Good, Usable, FrameSound
<1> QED
  BY <1>1, <1>2, <1>4, <1>5 DEF h, Calm

\* The backend that is left is finalised when the other one is in use.
LEMMA LeaveInv ==
  ASSUME Inv, NEW b \in {"file", "syslog", None},
         b = "syslog" => sock.up /\ backend # "syslog",
         NEW a \in Answer,
         Running, Become(FiniOf([Log EXCEPT !.backend = b], backend, a)), logged' = logged
  PROVE  Inv'
<1> DEFINE g == [Log EXCEPT !.backend = b]
           h == FiniOf(g, backend, a)
<1>1. Calm(Log) /\ Log.sock = sock
  BY LogCalm
<1>2. Calm(g) /\ Keeps(Log, g, 0) /\ g.backend = b
  BY <1>1, BackendMoves
<1> HIDE DEF g
<1>3. Calm(h) /\ Keeps(g, h, 0)
  <2>1. CASE backend = "file"
    BY <2>1, <1>2, FileFiniMoves DEF FiniOf, Still0, Moves
  <2>2. CASE backend = "syslog"
    BY <2>2, <1>2, SyslogFiniMoves DEF FiniOf
  <2>3. CASE backend # "file" /\ backend # "syslog"
    BY <2>3, <1>2, Still0Refl DEF FiniOf, Still0, Moves
  <2> QED
    BY <2>1, <2>2, <2>3
<1>4. Become(h)
  BY DEF g
<1> HIDE DEF h
<1>5. Keeps(Log, h, 0)
  BY <1>2, <1>3, KeepsTrans
<1> QED
  BY <1>3, <1>4, <1>5, QuietInv

LEMMA OthersInv ==
  ASSUME Inv, Others
  PROVE  Inv'
<1> DEFINE h == [Log EXCEPT !.free = free']
<1>1. /\ Good(Log) /\ Log \in State /\ Log.le = None /\ Log.free = free /\ free \in Nat
      /\ taken \in Nat /\ Acct(Log) + taken = Frames /\ Log.queue = queue
  BY LogCalm, StateTypes DEF Inv, Calm, Log
<1>2. /\ backend' = backend /\ file' = file /\ frame' = frame /\ sock' = sock
      /\ queue' = queue /\ phase' = phase /\ sent' = sent /\ err' = err
      /\ logged' = logged /\ dry' = dry
      /\ free' \in Nat /\ taken' \in Nat /\ free' + taken' = free + taken
  BY <1>1 DEF Others
<1>3. Log' = h
  BY <1>2 DEF Log
<1>4. /\ h \in State /\ h.frame = Log.frame /\ h.free = free' /\ h.sent = Log.sent
      /\ h.queue = Log.queue /\ h.file = Log.file /\ h.err = Log.err /\ h.sock = Log.sock
      /\ h.dry = Log.dry /\ h.backend = Log.backend
  BY <1>1, <1>2 DEF State
<1> HIDE DEF h
<1>5. ToSyslog(h) = ToSyslog(Log) /\ ToFile(h) = ToFile(Log)
  BY <1>4, SinksDepend
<1>6. Somewhere(h) = Somewhere(Log)
  BY <1>4, <1>5 DEF Somewhere
<1>7. Good(h)
  BY <1>1, <1>4, <1>5 DEF Good, Usable, FrameSound, InOrder
<1>8. Acct(h) + taken' = Frames
  <2> DEFINE n == IF frame = None THEN 0 ELSE 1
             l == Lasts(queue)
  <2>1. n \in Nat /\ l \in Nat
    BY <1>1, StateTypes, LastsFinite
  <2>2. Acct(Log) = free + n + l /\ Acct(h) = free' + n + l
    BY <1>4 DEF Acct, Log
  <2>3. /\ free \in Nat /\ taken \in Nat /\ free' \in Nat /\ taken' \in Nat
        /\ free' + taken' = free + taken /\ Acct(Log) + taken = Frames
    BY <1>1, <1>2
  <2> HIDE DEF n, l
  <2> DEFINE p == Acct(Log)
             q == Acct(h)
             f == free'
             t == taken'
  <2>4. p = free + n + l /\ q = f + n + l /\ f \in Nat /\ t \in Nat
        /\ f + t = free + taken /\ p + taken = Frames
    BY <2>2, <2>3
  <2> HIDE DEF p, q, f, t
  <2>5. q + t = Frames
    BY <2>1, <2>3, <2>4
  <2> QED
    BY <2>5 DEF q, t
<1>9. LostOnlyWithCause'
  BY <1>2, <1>3, <1>6 DEF Inv, LostOnlyWithCause
<1> QED
  BY <1>2, <1>3, <1>6, <1>7, <1>8, <1>9 DEF Inv

LEMMA StutterInv ==
  ASSUME Inv, UNCHANGED vars
  PROVE  Inv'
<1>1. Log' = Log /\ taken' = taken /\ logged' = logged /\ sock' = sock /\ dry' = dry
      /\ phase' = phase
  BY DEF vars, Log
<1> QED
  BY <1>1 DEF Inv, LostOnlyWithCause

LEMMA NextInv ==
  ASSUME Inv, [Next]_vars
  PROVE  Inv'
<1>1. Calm(Log) /\ Log.backend = backend
  BY LogCalm
<1>2. ASSUME NEW n \in Sizes, NEW plain \in BOOLEAN, NEW hd \in Headers, NEW a \in Answer,
             AppLogs(n, plain, hd, a)
      PROVE  Inv'
  BY <1>2, AppLogsInv
<1>3. ASSUME NEW due \in BOOLEAN, FilePrepare(due) PROVE Inv'
  <2>1. Running /\ Become(FileFlush(Log, FALSE, due)) /\ logged' = logged
    BY <1>3 DEF FilePrepare, Step
  <2>2. Still0(Log, FileFlush(Log, FALSE, due))
    BY <1>1, FileFlushMoves
  <2> QED
    BY <2>1, <2>2, QuietInv DEF Still0, Moves
<1>4. ASSUME NEW a \in Answer, Prepare(a) PROVE Inv'
  <2>1. Running /\ Become(SyslogPrepare(Log, a)) /\ logged' = logged /\ backend = "syslog"
    BY <1>4 DEF Prepare, Step
  <2>2. Still0(Log, SyslogPrepare(Log, a))
    BY <1>1, <2>1, PrepareMoves
  <2> QED
    BY <2>1, <2>2, QuietInv DEF Still0, Moves
<1>5. ASSUME NEW forced \in BOOLEAN, NEW due \in BOOLEAN, AppFlushesFile(forced, due)
      PROVE  Inv'
  <2>1. Running /\ Become(FileFlush(Log, forced, due)) /\ logged' = logged
    BY <1>5 DEF AppFlushesFile, Change
  <2>2. Still0(Log, FileFlush(Log, forced, due))
    BY <1>1, FileFlushMoves
  <2> QED
    BY <2>1, <2>2, QuietInv DEF Still0, Moves
<1>6. ASSUME NEW a \in Answer, AppFlushes(a) PROVE Inv'
  <2>1. Running /\ Become(SyslogFlush(Log, a)) /\ logged' = logged
    BY <1>6 DEF AppFlushes, Change
  <2>2. Still0(Log, SyslogFlush(Log, a))
    BY <1>1, SyslogFlushMoves
  <2> QED
    BY <2>1, <2>2, QuietInv DEF Still0, Moves
<1>7. ASSUME NEW a \in Answer, OnWrite(a) PROVE Inv'
  BY <1>7, OnWriteInv
<1>8. ASSUME NEW opened \in BOOLEAN, Sighup(opened) PROVE Inv'
  <2>1. Running /\ Become(FileReopen(Log, opened)) /\ logged' = logged
    BY <1>8 DEF Sighup, Change
  <2>2. Still0(Log, FileReopen(Log, opened))
    BY <1>1, FileReopenMoves
  <2> QED
    BY <2>1, <2>2, QuietInv DEF Still0, Moves
<1>9. ASSUME NEW named \in BOOLEAN, NEW opened \in BOOLEAN, FileInit(named, opened)
      PROVE  Inv'
  BY <1>9, FileInitInv
<1>10. ASSUME NEW connected \in BOOLEAN, SyslogInit(connected) PROVE Inv'
  BY <1>10, SyslogInitInv
<1>11. ASSUME NEW to \in {"file", "syslog", None}, NEW a \in Answer, Switch(to, a)
       PROVE  Inv'
  <2> DEFINE b == IF to = None THEN "file" ELSE to
  <2>1. /\ Become(FiniOf([Log EXCEPT !.backend = b], backend, a)) /\ logged' = logged
        /\ Running /\ to # backend /\ (to = "syslog" => sock.up)
    BY <1>11 DEF Switch, Change
  <2>2. b \in {"file", "syslog", None} /\ (b = "syslog" => sock.up /\ backend # "syslog")
    BY <2>1
  <2> HIDE DEF b
  <2> QED
    BY <2>1, <2>2, LeaveInv
<1>12. ASSUME NEW a \in Answer, Finalise(a) PROVE Inv'
  <2>1. Running /\ Become(FiniOf([Log EXCEPT !.backend = None], backend, a)) /\ logged' = logged
    BY <1>12 DEF Finalise, Change
  <2>2. None # "syslog"
    BY NoneAssumption
  <2> QED
    BY <2>1, <2>2, LeaveInv
<1>13. CASE Others
  BY <1>13, OthersInv
<1>14. CASE UNCHANGED vars
  BY <1>14, StutterInv
<1> QED
  BY <1>2, <1>3, <1>4, <1>5, <1>6, <1>7, <1>8, <1>9, <1>10, <1>11, <1>12, <1>13, <1>14
     DEF Next

LEMMA InitInv ==
  ASSUME Init
  PROVE  Inv
<1>1. Frames \in Nat
  BY LogAssumption
<1>2. /\ Log.file = [name |-> FALSE, open |-> FALSE, buffer |-> <<>>, disk |-> <<>>,
                     counter |-> 0, last |-> "past"]
      /\ Log.sock = [claimed |-> FALSE, up |-> FALSE, open |-> FALSE, ready |-> FALSE,
                     watch |-> FALSE, failed |-> FALSE]
      /\ Log.backend = "file" /\ Log.frame = None /\ Log.queue = <<>>
      /\ Log.free = Frames /\ Log.sent = <<>> /\ Log.err = <<>>
      /\ taken = 0 /\ logged = <<>>
  BY DEF Init, Log
<1>3. Log.file \in FileState /\ Log.sock \in Socket
  BY <1>2 DEF FileState, Socket
<1>4. Log \in State
  <2>1. file \in FileState /\ sock \in Socket
    BY <1>3 DEF Log
  <2>2. backend \in {"file", "syslog", None} /\ phase \in {"running", "crashed", "looping", "retrying"}
    BY DEF Init
  <2>3. frame \in {None} \cup LogFrame /\ free \in Nat
    BY <1>1 DEF Init
  <2>4. queue \in Seq(Cell) /\ sent \in Seq(Nat) /\ err \in Seq(Nat)
    BY DEF Init
  <2>5. dry \in BOOLEAN
    BY DEF Init
  <2> QED
    BY <2>1, <2>2, <2>3, <2>4, <2>5 DEF Log, State
<1>5. /\ ToSyslog(Log) = <<>> /\ ToFile(Log) = <<>> /\ Range(<<>>) = {}
  <2>1. Queued(Log) = <<>> /\ Framed(Log) = <<>>
    BY <1>2 DEF Queued, Framed
  <2> QED
    BY <1>2, <2>1, RangeOfOne DEF ToSyslog, ToFile
<1>6. Somewhere(Log) = {}
  BY <1>2, <1>5 DEF Somewhere
<1>7. InOrder(Log)
  BY <1>2, <1>5 DEF InOrder, Ascending, Apart
<1>8. Good(Log)
  BY <1>2, <1>4, <1>7, NoneAssumption DEF Good, Usable, FrameSound
<1>9. Acct(Log) + taken = Frames
  <2>1. Lasts(<<>>) = 0
    <3>1. {i \in DOMAIN <<>> : <<>>[i].last} = {}
      OBVIOUS
    <3> QED
      BY <3>1, FS_EmptySet DEF Lasts
  <2> QED
    BY <2>1, <1>1, <1>2 DEF Acct
<1>10. LostOnlyWithCause
  BY <1>2 DEF LostOnlyWithCause
<1> QED
  BY <1>2, <1>6, <1>8, <1>9, <1>10 DEF Inv

\* Whatever is logged, flushed, switched, reopened, refused or lost, the state of the
\* logging has its types, the frame being filled is well-formed, a socket is in use only
\* while it is initialised, and the records and the frames are where they should be.
THEOREM InvHolds == Spec => []Inv
<1>1. Init => Inv
  BY InitInv
<1>2. Inv /\ [Next]_vars => Inv'
  BY NextInv
<1> QED
  BY <1>1, <1>2, PTL DEF Spec

\* The records reach each sink in the order they were logged in, and none reaches two
\* (ft_log_syslog_backend_logrecord_process tries a record again in a new frame).
THEOREM RecordsInOrder == Spec => []OnceInOrder
<1>1. Inv => OnceInOrder
  BY DEF Inv, Good, OnceInOrder
<1> QED
  BY <1>1, InvHolds, PTL

\* No record is lost unless the socket has failed, or the warning of a dry pool has
\* overwritten the static record of _ft_log_v.
THEOREM LossesHaveCause == Spec => []LostOnlyWithCause
<1>1. Inv => LostOnlyWithCause
  BY DEF Inv
<1> QED
  BY <1>1, InvHolds, PTL

\* No frame of the pool leaks or is returned twice: ft_log_syslog_send replaces the frame
\* before it writes it, and a refused one is returned by the same call.
THEOREM FramesAreAccounted == Spec => []FramesAccounted
<1>1. ASSUME Inv PROVE FramesAccounted
  <2> DEFINE n == IF frame = None THEN 0 ELSE 1
             l == Cardinality({i \in DOMAIN queue : queue[i].last})
  <2>1. /\ Log \in State /\ Log.free = free /\ Log.queue = queue
        /\ taken \in Nat /\ Acct(Log) + taken = Frames
    BY <1>1 DEF Inv, Good, Log
  <2>2. n \in Nat /\ l \in Nat /\ free \in Nat
    BY <2>1, StateTypes, LastsFinite DEF Lasts
  <2>3. Acct(Log) = free + n + l
    BY DEF Acct, Lasts, Log
  <2>4. FramesAccounted <=> free + taken + n + l = Frames
    BY DEF FramesAccounted
  <2> HIDE DEF n, l
  <2> QED
    BY <2>1, <2>2, <2>3, <2>4
<1> QED
  BY <1>1, InvHolds, PTL
=============================================================================
