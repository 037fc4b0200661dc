--------------------------- MODULE FramePoolProofs ---------------------------
(***************************************************************************)
(* Proofs about the frame pool, for every set of zone addresses, every     *)
(* zone size and every timeout.                                            *)
(***************************************************************************)
EXTENDS FramePoolRefinement, FiniteSetTheorems, TLAPS

\* A chained zone fits the index range, an unchained one keeps nothing, and a
\* pool that is finalised has no zone.
Shape ==
  /\ \A z \in zones : size[z] \in 1 .. MaxFrames
  /\ \A z \in Zone \ zones : size[z] = 0
  /\ phase = "fini" => zones = {}

\* An idle zone with its timer armed has been idle for the part of the timeout
\* that has passed.
Timer ==
  \A z \in zones :
    used[z] = 0 /\ ~freeOnHb[z] =>
      /\ left[z] + idle[z] >= FreeTimeout
      /\ left[z] < 0 => idle[z] > FreeTimeout

IInv ==
  /\ TypeOK
  /\ IsFiniteSet(inUse)
  /\ OneHolder
  /\ Accounting
  /\ Shape
  /\ Timer

-----------------------------------------------------------------------------
\* MaxFrames bounds the size of every zone an allocator asks for.
LEMMA MaxFramesBound ==
  /\ MaxFrames \in Nat \ {0}
  /\ LowFrames <= MaxFrames /\ HighFrames <= MaxFrames
  /\ HugeFrames <= MaxFrames /\ CustomFrames <= MaxFrames
<1> DEFINE S == {LowFrames, HighFrames, HugeFrames, CustomFrames}
<1>1. LowFrames \in Nat \ {0} /\ HighFrames \in Nat \ {0}
      /\ HugeFrames \in Nat \ {0} /\ CustomFrames \in Nat \ {0}
  BY SizesAssumption
<1>2. \E n \in S : \A m \in S : m <= n
  BY <1>1
<1>3. MaxFrames \in S /\ \A m \in S : m <= MaxFrames
  BY <1>2 DEF MaxFrames
<1>4. QED
  BY <1>1, <1>3

\* An allocator only asks for zones of at least one and at most MaxFrames
\* frames.
LEMMA RequestSize ==
  ASSUME alloc \in {"default", "hugetlb", "custom"}
  PROVE  \A req \in Requests :
           /\ req.size \in 1 .. MaxFrames
           /\ req.freeable \in BOOLEAN /\ req.last \in BOOLEAN
<1> DEFINE R == [size : 1 .. MaxFrames, freeable : BOOLEAN, last : BOOLEAN]
<1>1. /\ LowFrames \in 1 .. MaxFrames /\ HighFrames \in 1 .. MaxFrames
      /\ HugeFrames \in 1 .. MaxFrames /\ CustomFrames \in 1 .. MaxFrames
  BY MaxFramesBound, SizesAssumption
<1>2. \A n \in 1 .. MaxFrames : \A b, c \in BOOLEAN :
        [size |-> n, freeable |-> b, last |-> c] \in R
  OBVIOUS
<1> HIDE DEF R
<1>3. DefaultRequests \subseteq R
  <2>1. CASE zones = {}
    BY <1>1, <1>2, <2>1, Zenon DEF DefaultRequests
  <2>2. CASE zones # {}
    BY <1>1, <1>2, <2>2, Zenon DEF DefaultRequests
  <2>3. QED
    BY <2>1, <2>2
<1>4. HugeRequests \subseteq R /\ CustomRequests \subseteq R
  BY <1>1, <1>2, Zenon DEF HugeRequests, CustomRequests
<1>5. Requests \subseteq R
  BY <1>3, <1>4, Zenon DEF Requests
<1>6. QED
  BY <1>5 DEF R

\* Popping a stack without repetitions takes away its head and nothing else.
LEMMA PopStack ==
  ASSUME NEW S, NEW s \in Seq(S), s # <<>>, NoRepeats(s)
  PROVE  /\ Head(s) \in S
         /\ Head(s) \in Elems(s)
         /\ Tail(s) \in Seq(S)
         /\ NoRepeats(Tail(s))
         /\ Elems(Tail(s)) = Elems(s) \ {Head(s)}
<1>1. Len(s) \in Nat \ {0} /\ DOMAIN s = 1 .. Len(s) /\ Head(s) = s[1]
  OBVIOUS
<1>2. /\ Tail(s) \in Seq(S) /\ Len(Tail(s)) = Len(s) - 1
      /\ DOMAIN Tail(s) = 1 .. (Len(s) - 1)
      /\ \A k \in 1 .. (Len(s) - 1) : Tail(s)[k] = s[k + 1]
  BY <1>1
<1>3. NoRepeats(Tail(s))
  BY <1>1, <1>2 DEF NoRepeats
<1>4. ASSUME NEW k \in DOMAIN Tail(s)
      PROVE  Tail(s)[k] \in {s[l] : l \in DOMAIN s} \ {Head(s)}
  BY <1>1, <1>2 DEF NoRepeats
<1>5. ASSUME NEW l \in DOMAIN s, s[l] # Head(s)
      PROVE  \E k \in DOMAIN Tail(s) : Tail(s)[k] = s[l]
  <2>1. l # 1 /\ l - 1 \in DOMAIN Tail(s)
    BY <1>1, <1>2, <1>5
  <2>2. Tail(s)[l - 1] = s[l]
    BY <1>1, <1>2, <2>1
  <2>3. QED
    BY <2>1, <2>2
<1>6. Head(s) \in Elems(s)
  BY <1>1 DEF Elems
<1>7. QED
  BY <1>1, <1>2, <1>3, <1>4, <1>5, <1>6 DEF Elems

\* Pushing an element a stack does not have adds that element.
LEMMA PushStack ==
  ASSUME NEW S, NEW s \in Seq(S), NoRepeats(s), NEW e \in S,
         e \notin Elems(s)
  PROVE  /\ <<e>> \o s \in Seq(S)
         /\ NoRepeats(<<e>> \o s)
         /\ Elems(<<e>> \o s) = Elems(s) \cup {e}
<1> DEFINE t == <<e>> \o s
<1> USE DEF Elems
<1>1. Len(s) \in Nat /\ DOMAIN s = 1 .. Len(s)
  OBVIOUS
<1>2. /\ t \in Seq(S) /\ DOMAIN t = 1 .. (Len(s) + 1)
      /\ t[1] = e /\ \A k \in 1 .. Len(s) : t[k + 1] = s[k]
  BY <1>1
<1>3. \A k \in DOMAIN t : k # 1 => k - 1 \in DOMAIN s /\ t[k] = s[k - 1]
  BY <1>1, <1>2
<1> HIDE DEF t
<1>4. NoRepeats(t)
  BY <1>1, <1>2, <1>3 DEF NoRepeats
<1>5. \A k \in DOMAIN t : t[k] \in {s[l] : l \in DOMAIN s} \cup {e}
  BY <1>1, <1>2, <1>3
<1>6. \A l \in DOMAIN s : \E k \in DOMAIN t : t[k] = s[l]
  BY <1>1, <1>2
<1>7. \E k \in DOMAIN t : t[k] = e
  BY <1>1, <1>2
<1>8. {t[k] : k \in DOMAIN t} = {s[k] : k \in DOMAIN s} \cup {e}
  BY <1>5, <1>6, <1>7
<1>9. QED
  BY <1>2, <1>4, <1>8 DEF t
-----------------------------------------------------------------------------
\* The initial state: no zone, no frame.
LEMMA InitInv == Init => IInv
<1> SUFFICES ASSUME Init PROVE IInv
  OBVIOUS
<1>1. TypeOK
  <2>1. avail \in [Zone -> Seq(1 .. MaxFrames)]
    BY DEF Init
  <2>2. left \in [Zone -> -1 .. FreeTimeout] /\ idle \in [Zone -> 0 .. FreeTimeout + 1]
    BY LimitsAssumption DEF Init
  <2>3. held \in [Frame -> Nat]
    BY DEF Init
  <2>4. /\ size \in [Zone -> Nat] /\ used \in [Zone -> Nat]
        /\ freeable \in [Zone -> BOOLEAN] /\ freeOnHb \in [Zone -> BOOLEAN]
    BY DEF Init
  <2>5. /\ zones \subseteq Zone /\ order \subseteq Zone \X Zone
        /\ inUse \subseteq Frame
    BY DEF Init
  <2>6. QED
    BY <2>1, <2>2, <2>3, <2>4, <2>5 DEF Init, TypeOK
<1>2. IsFiniteSet(inUse) /\ Cardinality(inUse) = 0
  BY FS_EmptySet DEF Init
<1>3. OneHolder
  BY DEF Init, OneHolder, InMappedZone
<1>4. \A z \in Zone : FramesOf(z) = {} /\ Stacked(z) = {} /\ NoRepeats(avail[z])
  BY DEF Init, FramesOf, Stacked, Elems, NoRepeats
<1>5. Accounting
  BY <1>2, <1>4, FS_EmptySet DEF Init, Accounting
<1>6. Shape /\ Timer
  BY DEF Init, Shape, Timer
<1>7. QED
  BY <1>1, <1>2, <1>3, <1>5, <1>6 DEF IInv

\* What the pool and the zone of frame f count when f goes on loan ...
LEMMA LoanCounts ==
  ASSUME TypeOK, IsFiniteSet(inUse), Accounting,
         NEW z \in Zone, NEW i \in 1 .. MaxFrames, <<z, i>> \notin inUse,
         inUse' = inUse \cup {<<z, i>>}
  PROVE  /\ IsFiniteSet(inUse')
         /\ Cardinality(inUse') = framesUsed + 1
         /\ Cardinality(FramesOf(z)') = used[z] + 1
         /\ \A y \in Zone \ {z} : FramesOf(y)' = FramesOf(y)
<1>1. /\ IsFiniteSet(inUse') /\ Cardinality(inUse') = framesUsed + 1
  BY FS_AddElement, Zenon DEF Accounting
<1>2. IsFiniteSet(FramesOf(z))
  BY FS_Subset DEF FramesOf
<1>3. FramesOf(z)' = FramesOf(z) \cup {<<z, i>>} /\ <<z, i>> \notin FramesOf(z)
  BY DEF FramesOf
<1>4. Cardinality(FramesOf(z)') = used[z] + 1
  BY <1>2, <1>3, FS_AddElement, Zenon DEF Accounting
<1>5. \A y \in Zone \ {z} : FramesOf(y)' = FramesOf(y)
  BY DEF FramesOf
<1>6. QED
  BY <1>1, <1>4, <1>5

\* ... and when it comes back.
LEMMA ReturnCounts ==
  ASSUME TypeOK, IsFiniteSet(inUse), Accounting,
         NEW f \in inUse, inUse' = inUse \ {f}
  PROVE  /\ IsFiniteSet(inUse')
         /\ framesUsed \in Nat \ {0} /\ Cardinality(inUse') = framesUsed - 1
         /\ used[f[1]] \in Nat \ {0}
         /\ Cardinality(FramesOf(f[1])') = used[f[1]] - 1
         /\ \A y \in Zone \ {f[1]} : FramesOf(y)' = FramesOf(y)
<1>0. f \in Frame /\ f[1] \in Zone
  BY DEF TypeOK, Frame
<1>1. /\ IsFiniteSet(inUse') /\ Cardinality(inUse') = framesUsed - 1
  BY FS_RemoveElement, Zenon DEF Accounting
<1>2. IsFiniteSet(FramesOf(f[1])) /\ f \in FramesOf(f[1])
  BY FS_Subset DEF FramesOf
<1>3. FramesOf(f[1])' = FramesOf(f[1]) \ {f}
  BY DEF FramesOf
<1>4. Cardinality(FramesOf(f[1])') = used[f[1]] - 1
  BY <1>0, <1>2, <1>3, FS_RemoveElement, Zenon DEF Accounting
<1>5. \A y \in Zone \ {f[1]} : FramesOf(y)' = FramesOf(y)
  BY DEF FramesOf
<1>6. framesUsed # 0 /\ used[f[1]] # 0
  BY <1>0, <1>2, FS_EmptySet DEF Accounting
<1>7. framesUsed \in Nat /\ used[f[1]] \in Nat
  BY <1>0 DEF TypeOK
<1>8. QED
  BY <1>1, <1>4, <1>5, <1>6, <1>7

\* A frame an available stack holds is one of its zone and is not on loan.
LEMMA StackedIsFree ==
  ASSUME TypeOK, Accounting, NEW z \in Zone, HasFrame(z)
  PROVE  /\ Head(avail[z]) \in 1 .. size[z]
         /\ Head(avail[z]) \in 1 .. MaxFrames
         /\ <<z, Head(avail[z])>> \notin inUse
<1>1. avail[z] \in Seq(1 .. MaxFrames) /\ avail[z] # <<>>
  BY DEF TypeOK, HasFrame
<1>2. NoRepeats(avail[z])
  BY DEF Accounting
<1>3. Head(avail[z]) \in Stacked(z) /\ Head(avail[z]) \in 1 .. MaxFrames
  BY <1>1, <1>2, PopStack DEF Stacked
<1>4. Stacked(z) = {i \in 1 .. size[z] : <<z, i>> \notin inUse}
  BY Zenon DEF Accounting
<1>5. QED
  BY <1>3, <1>4, Zenon

\* A call that touches neither frames nor zones keeps the invariant.
LEMMA QuietStep ==
  ASSUME IInv,
         UNCHANGED <<zones, order, size, used, freeable, freeOnHb, left, avail,
                     inUse, held, idle, lastZone, framesTotal, framesUsed>>,
         phase' \in {"live", "assert", "abort"},
         alloc' \in Allocators \cup {"default"}
  PROVE  IInv'
<1>1. TypeOK' /\ IsFiniteSet(inUse)' /\ OneHolder'
  BY DEF IInv, TypeOK, OneHolder, InMappedZone
<1>2. Accounting'
  BY DEF IInv, Accounting, FramesOf, Stacked, Elems, NoRepeats
<1>3. Shape' /\ Timer'
  BY DEF IInv, Shape, Timer
<1>4. QED
  BY <1>1, <1>2, <1>3 DEF IInv

\* ft_pool_init starts from a finalised pool, which has no zone left and hence
\* no frame on loan.
LEMMA PoolInitInv == IInv /\ PoolInit => IInv'
<1> SUFFICES ASSUME IInv, PoolInit PROVE IInv'
  OBVIOUS
<1>1. zones = {} /\ zones' = zones
  BY DEF IInv, Shape, PoolInit
<1>2. inUse = {}
  BY <1>1 DEF IInv, OneHolder, InMappedZone
<1>3. TypeOK'
  BY DEF IInv, TypeOK, PoolInit, zoneVars
<1>4. OneHolder' /\ IsFiniteSet(inUse)'
  BY <1>1 DEF IInv, OneHolder, InMappedZone, PoolInit, zoneVars
<1>5. Accounting'
  <2>1. Cardinality(inUse') = 0
    BY <1>2, FS_EmptySet DEF PoolInit
  <2>2. framesUsed' = 0
    BY DEF PoolInit
  <2>3. QED
    BY <2>1, <2>2 DEF IInv, Accounting, PoolInit, zoneVars, FramesOf, Stacked,
                      NoRepeats
<1>6. Shape' /\ Timer'
  BY <1>1 DEF IInv, Shape, Timer, PoolInit, zoneVars
<1>7. QED
  BY <1>3, <1>4, <1>5, <1>6 DEF IInv

\* Borrowing from a chained zone moves one frame from its stack to the loans.
LEMMA BorrowChainedInv ==
  ASSUME IInv, NEW z \in Zone, BorrowChained(z)
  PROVE  IInv'
<1> DEFINE i == Head(avail[z])
           f == <<z, i>>
<1> USE DEF IInv
<1>1. z \in zones /\ HasFrame(z)
  BY DEF BorrowChained, FirstWithFrame
<1>2. i \in 1 .. size[z] /\ i \in 1 .. MaxFrames /\ f \notin inUse /\ f \in Frame
  BY <1>1, StackedIsFree DEF Frame
<1>3. /\ inUse' = inUse \cup {f}
      /\ held' = [held EXCEPT ![f] = @ + 1]
      /\ idle' = [idle EXCEPT ![z] = 0]
      /\ framesUsed' = framesUsed + 1
      /\ avail' = [avail EXCEPT ![z] = Tail(@)]
      /\ used' = [used EXCEPT ![z] = @ + 1]
      /\ UNCHANGED <<phase, zones, order, alloc, lastZone, framesTotal, size,
                     freeable, freeOnHb, left>>
  BY DEF BorrowChained, Take, chainVars
<1> HIDE DEF f, i
<1>4. /\ Tail(avail[z]) \in Seq(1 .. MaxFrames)
      /\ NoRepeats(Tail(avail[z]))
      /\ Elems(Tail(avail[z])) = Stacked(z) \ {i}
  <2>1. avail[z] \in Seq(1 .. MaxFrames) /\ avail[z] # <<>>
    BY <1>1 DEF TypeOK, HasFrame
  <2>2. NoRepeats(avail[z])
    BY DEF Accounting
  <2>3. QED
    BY <2>1, <2>2, PopStack DEF Stacked, i
<1>5. TypeOK'
  <2>1. avail' \in [Zone -> Seq(1 .. MaxFrames)]
    BY <1>3, <1>4 DEF TypeOK
  <2>2. /\ held' \in [Frame -> Nat] /\ inUse' \subseteq Frame
        /\ used' \in [Zone -> Nat] /\ framesUsed' \in Nat
    BY <1>2, <1>3 DEF TypeOK
  <2>3. idle' \in [Zone -> 0 .. FreeTimeout + 1]
    BY <1>3, LimitsAssumption DEF TypeOK
  <2>4. QED
    BY <1>3, <2>1, <2>2, <2>3 DEF TypeOK
<1>6. OneHolder'
  BY <1>1, <1>2, <1>3 DEF OneHolder, InMappedZone, TypeOK, f
<1>7. /\ IsFiniteSet(inUse') /\ Cardinality(inUse') = framesUsed + 1
      /\ Cardinality(FramesOf(z)') = used[z] + 1
      /\ \A y \in Zone \ {z} : FramesOf(y)' = FramesOf(y)
  BY <1>2, <1>3, LoanCounts DEF f
<1>8. Accounting'
  <2>1. framesUsed' = Cardinality(inUse')
    BY <1>3, <1>7
  <2>2. ASSUME NEW y \in Zone
        PROVE  used'[y] = Cardinality(FramesOf(y)')
    BY <1>3, <1>7 DEF Accounting, TypeOK
  <2>3. ASSUME NEW y \in Zone
        PROVE  /\ Stacked(y)' = {k \in 1 .. size'[y] : <<y, k>> \notin inUse'}
               /\ NoRepeats(avail'[y])
    <3>1. CASE y = z
      <4>1. avail'[z] = Tail(avail[z])
        BY <1>3 DEF TypeOK
      <4>2. Stacked(z)' = Stacked(z) \ {i} /\ NoRepeats(avail'[z])
        BY <1>4, <4>1 DEF Stacked
      <4>3. Stacked(z) = {k \in 1 .. size[z] : <<z, k>> \notin inUse}
        BY Zenon DEF Accounting
      <4>4. QED
        BY <1>3, <3>1, <4>2, <4>3 DEF f
    <3>2. CASE y # z
      <4>1. avail'[y] = avail[y]
        BY <1>3, <3>2 DEF TypeOK
      <4>2. Stacked(y) = {k \in 1 .. size[y] : <<y, k>> \notin inUse}
            /\ NoRepeats(avail[y])
        BY Zenon DEF Accounting
      <4>3. \A k : <<y, k>> \in inUse' <=> <<y, k>> \in inUse
        BY <1>3, <3>2 DEF f
      <4>4. QED
        BY <1>3, <4>1, <4>2, <4>3 DEF Stacked
    <3>3. QED
      BY <3>1, <3>2
  <2>4. QED
    BY <2>1, <2>2, <2>3 DEF Accounting
<1>9. Shape'
  BY <1>3 DEF Shape
<1>10. Timer'
  BY <1>3 DEF Timer, TypeOK
<1>11. QED
  BY <1>5, <1>6, <1>7, <1>8, <1>9, <1>10

\* A fresh zone of n frames has frame 1 lent out and 2 .. n on its stack.
LEMMA FreshStack ==
  ASSUME NEW n \in 1 .. MaxFrames, NEW s, s = [k \in 1 .. n - 1 |-> k + 1]
  PROVE  /\ s \in Seq(1 .. MaxFrames)
         /\ NoRepeats(s)
         /\ Elems(s) = 2 .. n
<1>0. MaxFrames \in Nat /\ n \in Nat
  BY MaxFramesBound
<1>1. s \in [1 .. n - 1 -> 1 .. MaxFrames]
  BY <1>0
<1>2. s \in Seq(1 .. MaxFrames)
  BY <1>0, <1>1
<1>3. NoRepeats(s)
  BY <1>0 DEF NoRepeats
<1>4. ASSUME NEW k \in 2 .. n
      PROVE  k - 1 \in DOMAIN s /\ s[k - 1] = k
  BY <1>0, <1>4
<1>5. \A k \in DOMAIN s : s[k] \in 2 .. n
  BY <1>0
<1>6. QED
  BY <1>2, <1>3, <1>4, <1>5 DEF Elems

\* Chaining a new zone and borrowing its first frame.
LEMMA BorrowNewInv ==
  ASSUME IInv, NEW z \in Zone, NEW req, req \in Requests, BorrowNew(z, req)
  PROVE  IInv'
<1> DEFINE f == <<z, 1>>
<1> USE DEF IInv
<1>1. z \in Zone \ zones
  BY DEF BorrowNew
<1>2. req.size \in 1 .. MaxFrames /\ req.freeable \in BOOLEAN
      /\ req.last \in BOOLEAN
  BY RequestSize, AllocatorsAssumption DEF TypeOK
<1>3. 1 \in 1 .. MaxFrames /\ f \in Frame /\ MaxFrames \in Nat
  BY MaxFramesBound DEF Frame
<1>4. size[z] = 0 /\ f \notin inUse /\ FramesOf(z) = {} /\ used[z] = 0
  <2>1. size[z] = 0
    BY <1>1 DEF Shape
  <2>2. f \notin inUse /\ FramesOf(z) = {}
    BY <1>1 DEF OneHolder, InMappedZone, FramesOf
  <2>3. used[z] = 0
    BY <2>2, FS_EmptySet DEF Accounting
  <2>4. QED
    BY <2>1, <2>2, <2>3
<1>5. /\ inUse' = inUse \cup {f}
      /\ held' = [held EXCEPT ![f] = @ + 1]
      /\ idle' = [idle EXCEPT ![z] = 0]
      /\ framesUsed' = framesUsed + 1
      /\ framesTotal' = framesTotal + req.size
      /\ lastZone' = req.last
      /\ zones' = zones \cup {z}
      /\ order' = order \cup (zones \X {z})
      /\ size' = [size EXCEPT ![z] = req.size]
      /\ freeable' = [freeable EXCEPT ![z] = req.freeable]
      /\ freeOnHb' = [freeOnHb EXCEPT ![z] = FALSE]
      /\ left' = [left EXCEPT ![z] = -1]
      /\ avail' = [avail EXCEPT ![z] = [i \in 1 .. req.size - 1 |-> i + 1]]
      /\ used' = [used EXCEPT ![z] = 1]
      /\ UNCHANGED <<phase, alloc>>
      /\ phase = "live"
  BY DEF BorrowNew, NewZone, Take
<1> HIDE DEF f
<1>6. avail'[z] = [i \in 1 .. req.size - 1 |-> i + 1]
  BY <1>5 DEF TypeOK
<1>7. /\ avail'[z] \in Seq(1 .. MaxFrames)
      /\ NoRepeats(avail'[z])
      /\ Stacked(z)' = 2 .. req.size
  BY <1>2, <1>6, FreshStack DEF Stacked
<1>8. TypeOK'
  <2>1. avail' \in [Zone -> Seq(1 .. MaxFrames)]
    BY <1>5, <1>7 DEF TypeOK
  <2>2. /\ held' \in [Frame -> Nat] /\ inUse' \subseteq Frame
        /\ used' \in [Zone -> Nat] /\ framesUsed' \in Nat
        /\ framesTotal' \in Nat /\ size' \in [Zone -> Nat]
    <3>1. held' \in [Frame -> Nat]
      <4>1. held \in [Frame -> Nat] /\ held' = [held EXCEPT ![f] = @ + 1]
        BY <1>5 DEF TypeOK
      <4>2. QED
        BY <1>3, <4>1
    <3>2. inUse' \subseteq Frame
      BY <1>3, <1>5 DEF TypeOK
    <3>3. used' \in [Zone -> Nat] /\ framesUsed' \in Nat
      BY <1>5 DEF TypeOK
    <3>4. req.size \in Nat
      BY <1>2, <1>3
    <3>5. framesTotal' \in Nat /\ size' \in [Zone -> Nat]
      BY <1>5, <3>4 DEF TypeOK
    <3>6. QED
      BY <3>1, <3>2, <3>3, <3>5
  <2>3. idle' \in [Zone -> 0 .. FreeTimeout + 1] /\ left' \in [Zone -> -1 .. FreeTimeout]
    BY <1>5, LimitsAssumption DEF TypeOK
  <2>4. /\ zones' \subseteq Zone /\ order' \subseteq Zone \X Zone
        /\ freeable' \in [Zone -> BOOLEAN] /\ freeOnHb' \in [Zone -> BOOLEAN]
    BY <1>1, <1>2, <1>5 DEF TypeOK
  <2>5. QED
    BY <1>2, <1>5, <2>1, <2>2, <2>3, <2>4 DEF TypeOK
<1>9. OneHolder'
  <2>1. ASSUME NEW g \in Frame
        PROVE  held'[g] = IF g \in inUse' THEN 1 ELSE 0
    BY <1>3, <1>4, <1>5 DEF OneHolder, InMappedZone, TypeOK
  <2>2. size'[z] = req.size /\ \A y \in Zone \ {z} : size'[y] = size[y]
    BY <1>5 DEF TypeOK
  <2>3. ASSUME NEW g \in inUse'
        PROVE  g[1] \in zones' /\ g[2] \in 1 .. size'[g[1]]
    <3>1. CASE g = f
      BY <1>2, <1>5, <2>2, <3>1 DEF f
    <3>2. CASE g \in inUse
      BY <1>1, <1>5, <2>2, <3>2 DEF OneHolder, InMappedZone, TypeOK
    <3>3. QED
      BY <1>5, <2>3, <3>1, <3>2
  <2>4. QED
    BY <2>1, <2>3 DEF OneHolder, InMappedZone
<1>10. /\ IsFiniteSet(inUse') /\ Cardinality(inUse') = framesUsed + 1
       /\ Cardinality(FramesOf(z)') = 1
       /\ \A y \in Zone \ {z} : FramesOf(y)' = FramesOf(y)
  <2>1. inUse' = inUse \cup {<<z, 1>>} /\ <<z, 1>> \notin inUse
    BY <1>4, <1>5 DEF f
  <2>2. /\ IsFiniteSet(inUse') /\ Cardinality(inUse') = framesUsed + 1
        /\ Cardinality(FramesOf(z)') = used[z] + 1
        /\ \A y \in Zone \ {z} : FramesOf(y)' = FramesOf(y)
    BY <1>3, <2>1, LoanCounts
  <2>3. QED
    BY <1>4, <2>2
<1>11. Accounting'
  <2>1. framesUsed' = Cardinality(inUse')
    BY <1>5, <1>10
  <2>2. ASSUME NEW y \in Zone
        PROVE  used'[y] = Cardinality(FramesOf(y)')
    BY <1>5, <1>10 DEF Accounting, TypeOK
  <2>3. ASSUME NEW y \in Zone
        PROVE  /\ Stacked(y)' = {k \in 1 .. size'[y] : <<y, k>> \notin inUse'}
               /\ NoRepeats(avail'[y])
    <3>1. CASE y = z
      <4>1. size'[z] = req.size
        BY <1>5 DEF TypeOK
      <4>2. \A k : <<z, k>> \in inUse' <=> k = 1
        BY <1>4, <1>5 DEF FramesOf, f
      <4>3. QED
        BY <1>2, <1>7, <3>1, <4>1, <4>2
    <3>2. CASE y # z
      <4>1. avail'[y] = avail[y] /\ size'[y] = size[y]
        BY <1>5, <3>2 DEF TypeOK
      <4>2. Stacked(y) = {k \in 1 .. size[y] : <<y, k>> \notin inUse}
            /\ NoRepeats(avail[y])
        BY Zenon DEF Accounting
      <4>3. \A k : <<y, k>> \in inUse' <=> <<y, k>> \in inUse
        BY <1>5, <3>2 DEF f
      <4>4. QED
        BY <4>1, <4>2, <4>3 DEF Stacked
    <3>3. QED
      BY <3>1, <3>2
  <2>4. QED
    BY <2>1, <2>2, <2>3 DEF Accounting
<1>12. Shape'
  <2>1. size'[z] = req.size /\ \A y \in Zone \ {z} : size'[y] = size[y]
    BY <1>5 DEF TypeOK
  <2>2. \A y \in zones' : size'[y] \in 1 .. MaxFrames
    BY <1>1, <1>2, <1>5, <2>1 DEF Shape, TypeOK
  <2>3. \A y \in Zone \ zones' : size'[y] = 0
    BY <1>1, <1>5, <2>1 DEF Shape
  <2>4. QED
    BY <1>5, <2>2, <2>3 DEF Shape
<1>13. Timer'
  BY <1>1, <1>5 DEF Timer, TypeOK
<1>14. QED
  BY <1>8, <1>9, <1>10, <1>11, <1>12, <1>13

\* Returning a frame moves it from the loans to the stack of its zone.
LEMMA ReturnInv ==
  ASSUME IInv, NEW f \in Frame, Return(f)
  PROVE  IInv'
<1> DEFINE z == f[1]
           i == f[2]
<1> USE DEF IInv
<1>1. f \in inUse /\ z \in zones /\ z \in Zone /\ f = <<z, i>>
      /\ i \in 1 .. size[z] /\ i \in 1 .. MaxFrames
  BY DEF Return, OneHolder, Frame, InMappedZone
<1>2. /\ inUse' = inUse \ {f}
      /\ avail' = [avail EXCEPT ![z] = <<i>> \o @]
      /\ used' = [used EXCEPT ![z] = @ - 1]
      /\ freeOnHb' = [freeOnHb EXCEPT ![z] = used'[z] = 0]
      /\ framesUsed' = framesUsed - 1
      /\ held' = [held EXCEPT ![f] = @ - 1]
      /\ idle' = [idle EXCEPT ![z] = 0]
      /\ UNCHANGED <<phase, zones, order, alloc, lastZone, framesTotal, size,
                     freeable, left>>
  BY DEF Return, GiveBack, chainVars
<1>3. /\ IsFiniteSet(inUse')
      /\ framesUsed \in Nat \ {0} /\ Cardinality(inUse') = framesUsed - 1
      /\ used[z] \in Nat \ {0}
      /\ Cardinality(FramesOf(z)') = used[z] - 1
      /\ \A y \in Zone \ {z} : FramesOf(y)' = FramesOf(y)
  BY <1>1, <1>2, ReturnCounts
<1> HIDE DEF z, i
<1>4. /\ <<i>> \o avail[z] \in Seq(1 .. MaxFrames)
      /\ NoRepeats(<<i>> \o avail[z])
      /\ Elems(<<i>> \o avail[z]) = Stacked(z) \cup {i}
  <2>1. avail[z] \in Seq(1 .. MaxFrames)
    BY <1>1 DEF TypeOK
  <2>2. NoRepeats(avail[z]) /\ i \notin Elems(avail[z])
    BY <1>1 DEF Accounting, Stacked
  <2>3. i \in 1 .. MaxFrames
    BY <1>1
  <2> HIDE DEF IInv
  <2>4. /\ <<i>> \o avail[z] \in Seq(1 .. MaxFrames)
        /\ NoRepeats(<<i>> \o avail[z])
        /\ Elems(<<i>> \o avail[z]) = Elems(avail[z]) \cup {i}
    BY <2>1, <2>2, <2>3, PushStack
  <2>5. QED
    BY <2>4 DEF Stacked
<1>5. TypeOK'
  <2>1. avail' \in [Zone -> Seq(1 .. MaxFrames)]
    BY <1>1, <1>2, <1>4 DEF TypeOK
  <2>2. held[f] = 1
    BY <1>1 DEF OneHolder, InMappedZone
  <2>3. held' \in [Frame -> Nat]
    BY <1>2, <2>2 DEF TypeOK
  <2>4. used' \in [Zone -> Nat] /\ framesUsed' \in Nat
    BY <1>1, <1>2, <1>3 DEF TypeOK
  <2>5. freeOnHb' \in [Zone -> BOOLEAN]
    <3>1. (used'[z] = 0) \in BOOLEAN
      OBVIOUS
    <3>2. QED
      BY <1>2, <3>1, Zenon DEF TypeOK
  <2>6. idle' \in [Zone -> 0 .. FreeTimeout + 1]
    <3>1. 0 \in 0 .. FreeTimeout + 1
      BY LimitsAssumption
    <3>2. QED
      BY <1>2, <3>1, Zenon DEF TypeOK
  <2>7. inUse' \subseteq Frame
    BY <1>2 DEF TypeOK
  <2>8. QED
    BY <1>2, <2>1, <2>3, <2>4, <2>5, <2>6, <2>7 DEF TypeOK
<1>6. OneHolder'
  <2>1. ASSUME NEW g \in Frame
        PROVE  held'[g] = IF g \in inUse' THEN 1 ELSE 0
    BY <1>1, <1>2 DEF OneHolder, InMappedZone, TypeOK
  <2>2. QED
    BY <1>2, <2>1 DEF OneHolder, InMappedZone
<1>7. Accounting'
  <2>1. framesUsed' = Cardinality(inUse')
    BY <1>2, <1>3
  <2>2. ASSUME NEW y \in Zone
        PROVE  used'[y] = Cardinality(FramesOf(y)')
    BY <1>2, <1>3 DEF Accounting, TypeOK
  <2>3. ASSUME NEW y \in Zone
        PROVE  /\ Stacked(y)' = {k \in 1 .. size'[y] : <<y, k>> \notin inUse'}
               /\ NoRepeats(avail'[y])
    <3>0. Stacked(y) = {k \in 1 .. size[y] : <<y, k>> \notin inUse}
          /\ NoRepeats(avail[y])
      BY Zenon DEF Accounting
    <3>1. CASE y = z
      <4>1. avail'[z] = <<i>> \o avail[z]
        BY <1>1, <1>2 DEF TypeOK
      <4>2. Stacked(z)' = Stacked(z) \cup {i} /\ NoRepeats(avail'[z])
        BY <1>4, <4>1 DEF Stacked
      <4>3. \A k : <<z, k>> \in inUse' <=> <<z, k>> \in inUse /\ k # i
        BY <1>1, <1>2
      <4>4. QED
        BY <1>1, <1>2, <3>0, <3>1, <4>2, <4>3
    <3>2. CASE y # z
      <4>1. avail'[y] = avail[y]
        BY <1>2, <3>2 DEF TypeOK
      <4>2. \A k : <<y, k>> \in inUse' <=> <<y, k>> \in inUse
        BY <1>1, <1>2, <3>2
      <4>3. QED
        BY <1>2, <3>0, <4>1, <4>2 DEF Stacked
    <3>3. QED
      BY <3>1, <3>2
  <2>4. QED
    BY <2>1, <2>2, <2>3 DEF Accounting
<1>8. Shape'
  BY <1>2 DEF Shape
<1>9. Timer'
  <2>1. used'[z] = 0 => freeOnHb'[z]
    BY <1>1, <1>2 DEF TypeOK
  <2>2. \A y \in zones \ {z} : /\ used'[y] = used[y] /\ freeOnHb'[y] = freeOnHb[y]
                               /\ idle'[y] = idle[y] /\ left'[y] = left[y]
    BY <1>2 DEF TypeOK
  <2>3. QED
    BY <1>2, <2>1, <2>2 DEF Timer
<1>10. QED
  BY <1>3, <1>5, <1>6, <1>7, <1>8, <1>9

\* The clock brings the idle spell of a zone and its timer on together.
LEMMA TickInv == IInv /\ Tick => IInv'
<1> SUFFICES ASSUME IInv, Tick PROVE IInv'
  OBVIOUS
<1> USE DEF IInv
<1>1. /\ left' = [z \in Zone |-> IF left[z] < 0 THEN -1 ELSE left[z] - 1]
      /\ idle' = [z \in Zone |->
                    IF z \in zones /\ used[z] = 0 /\ idle[z] <= FreeTimeout
                    THEN idle[z] + 1 ELSE idle[z]]
      /\ UNCHANGED <<phase, zones, order, alloc, lastZone, framesTotal,
                     framesUsed, size, freeable, freeOnHb, used, avail, inUse,
                     held>>
  BY DEF Tick, chainVars, poolVars
<1>2. TypeOK'
  <2>1. left' \in [Zone -> -1 .. FreeTimeout] /\ idle' \in [Zone -> 0 .. FreeTimeout + 1]
    BY <1>1, LimitsAssumption DEF TypeOK
  <2>2. QED
    BY <1>1, <2>1 DEF TypeOK
<1>3. OneHolder' /\ Shape' /\ IsFiniteSet(inUse')
  BY <1>1 DEF OneHolder, InMappedZone, Shape
<1>4. Accounting'
  BY <1>1 DEF Accounting, FramesOf, Stacked, Elems, NoRepeats
<1>5. Timer'
  <2>1. ASSUME NEW z \in zones, used[z] = 0, ~freeOnHb[z]
        PROVE  /\ left'[z] + idle'[z] >= FreeTimeout
               /\ left'[z] < 0 => idle'[z] > FreeTimeout
    <3>1. left[z] \in -1 .. FreeTimeout /\ idle[z] \in 0 .. FreeTimeout + 1
          /\ z \in Zone
      BY DEF TypeOK
    <3>2. /\ left[z] + idle[z] >= FreeTimeout
          /\ left[z] < 0 => idle[z] > FreeTimeout
      BY <2>1 DEF Timer
    <3>3. /\ left'[z] = IF left[z] < 0 THEN -1 ELSE left[z] - 1
          /\ idle'[z] = IF idle[z] <= FreeTimeout THEN idle[z] + 1 ELSE idle[z]
      BY <1>1, <2>1, <3>1
    <3>4. QED
      BY <3>1, <3>2, <3>3, LimitsAssumption
  <2>2. QED
    BY <1>1, <2>1 DEF Timer
<1>6. QED
  BY <1>2, <1>3, <1>4, <1>5

\* Unmapping zones with no frame on loan touches nobody's frame.
LEMMA UnmapIdle ==
  ASSUME IInv, NEW Z, Z \subseteq zones, \A z \in Z : used[z] <= 0,
         Unmap(Z), zones' = zones \ Z, UNCHANGED <<framesUsed, held>>
  PROVE  /\ inUse' = inUse /\ used' = used
         /\ size' \in [Zone -> Nat] /\ freeable' \in [Zone -> BOOLEAN]
         /\ avail' \in [Zone -> Seq(1 .. MaxFrames)]
         /\ idle' \in [Zone -> 0 .. FreeTimeout + 1]
         /\ OneHolder' /\ Accounting'
         /\ \A z \in zones' : size'[z] \in 1 .. MaxFrames
         /\ \A z \in Zone \ zones' : size'[z] = 0
<1> USE DEF IInv
<1>1. Z \subseteq Zone /\ \A z \in Z : used[z] = 0
  BY DEF TypeOK
<1>2. \A z \in Z : FramesOf(z) = {}
  <2>1. \A z \in Z : IsFiniteSet(FramesOf(z))
    BY FS_Subset DEF FramesOf
  <2>2. \A z \in Z : Cardinality(FramesOf(z)) = 0
    BY <1>1 DEF Accounting
  <2>3. QED
    BY <2>1, <2>2, FS_EmptySet
<1>3. inUse' = inUse
  BY <1>2 DEF Unmap, FramesOf
<1>4. used' = used
  BY <1>1 DEF Unmap, TypeOK
<1>5. /\ \A z \in Z : size'[z] = 0 /\ avail'[z] = <<>>
      /\ \A z \in Zone \ Z : size'[z] = size[z] /\ avail'[z] = avail[z]
  BY <1>1 DEF Unmap
<1>6. /\ size' \in [Zone -> Nat] /\ freeable' \in [Zone -> BOOLEAN]
      /\ idle' \in [Zone -> 0 .. FreeTimeout + 1]
  BY LimitsAssumption DEF Unmap, TypeOK
<1>7. avail' \in [Zone -> Seq(1 .. MaxFrames)]
  <2>1. avail' = [z \in Zone |-> IF z \in Z THEN <<>> ELSE avail[z]]
    BY DEF Unmap
  <2>2. <<>> \in Seq(1 .. MaxFrames)
    OBVIOUS
  <2>3. QED
    BY <2>1, <2>2 DEF TypeOK
<1>8. OneHolder'
  <2>1. \A f \in inUse : f[1] \in zones /\ f[1] \notin Z
    BY <1>2 DEF OneHolder, InMappedZone, FramesOf
  <2>2. \A f \in inUse : f[1] \in zones' /\ size'[f[1]] = size[f[1]]
    BY <1>5, <2>1 DEF TypeOK
  <2>3. QED
    BY <1>3, <2>2 DEF OneHolder, InMappedZone
<1>9. Accounting'
  <2>1. framesUsed' = Cardinality(inUse')
    BY <1>3 DEF Accounting
  <2>2. \A y \in Zone : used'[y] = Cardinality(FramesOf(y)')
    BY <1>3, <1>4 DEF Accounting, FramesOf
  <2>3. ASSUME NEW y \in Zone
        PROVE  /\ Stacked(y)' = {k \in 1 .. size'[y] : <<y, k>> \notin inUse'}
               /\ NoRepeats(avail'[y])
    <3>1. CASE y \in Z
      BY <1>5, <3>1 DEF Stacked, Elems, NoRepeats
    <3>2. CASE y \notin Z
      <4>1. /\ Stacked(y) = {k \in 1 .. size[y] : <<y, k>> \notin inUse}
            /\ NoRepeats(avail[y])
        BY Zenon DEF Accounting
      <4>2. QED
        BY <1>3, <1>5, <3>2, <4>1 DEF Stacked
    <3>3. QED
      BY <3>1, <3>2
  <2>4. QED
    BY <2>1, <2>2, <2>3 DEF Accounting
<1>10. \A z \in zones' : size'[z] \in 1 .. MaxFrames
  BY <1>5 DEF Shape, TypeOK
<1>11. \A z \in Zone \ zones' : size'[z] = 0
  BY <1>5 DEF Shape
<1>12. QED
  BY <1>3, <1>4, <1>6, <1>7, <1>8, <1>9, <1>10, <1>11

\* The heartbeat arms timers and unmaps zones, all of them idle.
LEMMA HeartbeatInv == IInv /\ Heartbeat => IInv'
<1> SUFFICES ASSUME IInv, Heartbeat PROVE IInv'
  OBVIOUS
<1> USE DEF IInv
<1>1. /\ zones' = zones \ ToDelete
      /\ order' \subseteq order
      /\ Unmap(ToDelete)
      /\ left' = [z \in Zone |-> IF z \in ToArm THEN FreeTimeout
                                 ELSE IF z \in ToDelete THEN -1 ELSE left[z]]
      /\ freeOnHb' = [z \in Zone |-> freeOnHb[z] /\ z \notin ToArm]
      /\ UNCHANGED <<phase, alloc, lastZone, framesTotal, framesUsed, held>>
  BY DEF Heartbeat, poolVars
<1>2. ToDelete \subseteq zones /\ \A z \in ToDelete : used[z] <= 0
  BY DEF ToDelete, Idle
<1>3. /\ inUse' = inUse /\ used' = used
      /\ size' \in [Zone -> Nat] /\ freeable' \in [Zone -> BOOLEAN]
      /\ avail' \in [Zone -> Seq(1 .. MaxFrames)]
      /\ idle' \in [Zone -> 0 .. FreeTimeout + 1]
      /\ OneHolder' /\ Accounting'
      /\ \A z \in zones' : size'[z] \in 1 .. MaxFrames
      /\ \A z \in Zone \ zones' : size'[z] = 0
  BY <1>1, <1>2, UnmapIdle
<1>4. TypeOK'
  <2>1. left' \in [Zone -> -1 .. FreeTimeout]
    BY <1>1, LimitsAssumption DEF TypeOK
  <2>2. freeOnHb' \in [Zone -> BOOLEAN]
    BY <1>1, Zenon
  <2>3. QED
    BY <1>1, <1>3, <2>1, <2>2 DEF TypeOK
<1>5. Shape'
  BY <1>1, <1>3 DEF Shape
<1>6. Timer'
  <2>1. ASSUME NEW z \in zones', used'[z] = 0, ~freeOnHb'[z]
        PROVE  /\ left'[z] + idle'[z] >= FreeTimeout
               /\ left'[z] < 0 => idle'[z] > FreeTimeout
    <3>1. z \in zones /\ z \in Zone /\ z \notin ToDelete
      BY <1>1 DEF TypeOK
    <3>2. idle'[z] = idle[z] /\ idle[z] \in 0 .. FreeTimeout + 1
      BY <1>1, <3>1 DEF Unmap, TypeOK
    <3>3. CASE z \in ToArm
      BY <1>1, <3>1, <3>2, <3>3, LimitsAssumption
    <3>4. CASE z \notin ToArm
      <4>1. left'[z] = left[z]
        BY <1>1, <3>1, <3>4
      <4>2. ~freeOnHb[z]
        BY <1>1, <2>1, <3>1, <3>4, Zenon
      <4>3. used[z] = 0
        BY <1>3, <2>1
      <4>4. QED
        BY <3>1, <3>2, <4>1, <4>2, <4>3 DEF Timer
    <3>5. QED
      BY <3>3, <3>4
  <2>2. QED
    BY <2>1 DEF Timer
<1>7. QED
  BY <1>3, <1>4, <1>5, <1>6

\* ft_pool_fini gets through only when no zone has a frame on loan.
LEMMA PoolFiniInv == IInv /\ PoolFini => IInv'
<1> SUFFICES ASSUME IInv, PoolFini PROVE IInv'
  OBVIOUS
<1> USE DEF IInv
<1>1. /\ zones' = {} /\ order' = {} /\ phase' = "fini"
      /\ Unmap(zones) /\ \A z \in zones : used[z] <= 0
      /\ left' = [z \in Zone |-> -1]
      /\ freeOnHb' = [z \in Zone |-> FALSE]
      /\ UNCHANGED <<alloc, lastZone, framesTotal, framesUsed, held>>
  BY DEF PoolFini, poolVars
<1>2. /\ inUse' = inUse /\ used' = used
      /\ size' \in [Zone -> Nat] /\ freeable' \in [Zone -> BOOLEAN]
      /\ avail' \in [Zone -> Seq(1 .. MaxFrames)]
      /\ idle' \in [Zone -> 0 .. FreeTimeout + 1]
      /\ OneHolder' /\ Accounting'
      /\ \A z \in Zone \ zones' : size'[z] = 0
  <2>1. zones' = zones \ zones
    BY <1>1
  <2>2. QED
    BY <1>1, <2>1, UnmapIdle
<1>3. TypeOK'
  <2>1. /\ left' \in [Zone -> -1 .. FreeTimeout]
        /\ freeOnHb' \in [Zone -> BOOLEAN]
    BY <1>1, LimitsAssumption
  <2>2. QED
    BY <1>1, <1>2, <2>1 DEF TypeOK
<1>4. Shape' /\ Timer'
  BY <1>1, <1>2 DEF Shape, Timer
<1>5. QED
  BY <1>2, <1>3, <1>4

\* Every step of the pool keeps the invariant: one case per public function.
LEMMA NextInv == IInv /\ [Next]_vars => IInv'
<1> SUFFICES ASSUME IInv, [Next]_vars PROVE IInv'
  OBVIOUS
<1>1. CASE PoolInit
  BY <1>1, PoolInitInv
<1>2. CASE PoolFini
  BY <1>2, PoolFiniInv
<1>3. CASE PoolFiniAborts
  BY <1>3, QuietStep
     DEF PoolFiniAborts, chainVars, poolVars, zoneVars, IInv, TypeOK
<1>4. ASSUME NEW a \in Allocators, SetAlloc(a) PROVE IInv'
  BY <1>4, QuietStep DEF SetAlloc, chainVars, zoneVars
<1>5. ASSUME NEW z \in Zone, BorrowChained(z) PROVE IInv'
  BY <1>5, BorrowChainedInv
<1>6. ASSUME NEW z \in Zone, NEW req \in Requests, BorrowNew(z, req) PROVE IInv'
  BY <1>6, BorrowNewInv
<1>7. CASE BorrowFails
  BY <1>7, QuietStep
     DEF BorrowFails, chainVars, poolVars, zoneVars, IInv, TypeOK
<1>8. ASSUME NEW f \in Frame, Return(f) PROVE IInv'
  BY <1>8, ReturnInv
<1>9. ASSUME NEW f \in Frame, ReturnTwice(f) PROVE IInv'
  BY <1>9, QuietStep
     DEF ReturnTwice, chainVars, poolVars, zoneVars, IInv, TypeOK
<1>10. CASE Heartbeat
  BY <1>10, HeartbeatInv
<1>11. CASE Tick
  BY <1>11, TickInv
<1>12. CASE UNCHANGED vars
  <2>1. UNCHANGED <<zones, order, size, used, freeable, freeOnHb, left, avail,
                    inUse, held, idle, lastZone, framesTotal, framesUsed,
                    phase, alloc>>
    BY <1>12 DEF vars, chainVars, poolVars, zoneVars
  <2>2. TypeOK' /\ IsFiniteSet(inUse)' /\ OneHolder'
    BY <2>1 DEF IInv, TypeOK, OneHolder, InMappedZone
  <2>3. Accounting'
    BY <2>1 DEF IInv, Accounting, FramesOf, Stacked, Elems, NoRepeats
  <2>4. Shape' /\ Timer'
    BY <2>1 DEF IInv, Shape, Timer
  <2>5. QED
    BY <2>2, <2>3, <2>4 DEF IInv
<1>13. QED
  BY <1>1, <1>2, <1>3, <1>4, <1>5, <1>6, <1>7, <1>8, <1>9, <1>10, <1>11, <1>12
     DEF Next, Borrow

\* The inductive invariant holds in every state the pool reaches.
THEOREM PoolInvariant == Spec => []IInv
<1>1. QED
  BY InitInv, NextInv, PTL DEF Spec

\* The variables keep their types: in particular the counters frames_used of
\* pool and zones never go below zero.
THEOREM PoolTypeCorrect == Spec => []TypeOK
<1>1. IInv => TypeOK
  BY DEF IInv
<1>2. QED
  BY <1>1, PoolInvariant, PTL

\* No frame has two holders, none on loan lies in unmapped memory, and no frame
\* is lost: for any number of zones of any size.
THEOREM PoolSafe == Spec => [](OneHolder /\ Accounting)
<1>1. IInv => OneHolder /\ Accounting
  BY DEF IInv
<1>2. QED
  BY <1>1, PoolInvariant, PTL

\* The heartbeat never unmaps a zone that has not been idle for the whole
\* timeout.
THEOREM UnmapIsLate == Spec => UnmapOnlyAfterTimeout
<1> DEFINE A == phase' = "live" =>
                  \A z \in zones \ zones' : idle[z] > FreeTimeout
<1>1. IInv /\ [Next]_vars => [A]_vars
  <2> SUFFICES ASSUME IInv, Next PROVE A
    BY DEF vars
  <2>1. CASE Heartbeat
    <3> SUFFICES ASSUME NEW z \in zones \ zones' PROVE idle[z] > FreeTimeout
      OBVIOUS
    <3>1. z \in ToDelete
      BY <2>1 DEF Heartbeat
    <3>2. z \in zones /\ ~freeOnHb[z] /\ left[z] < 0 /\ used[z] = 0
      BY <3>1 DEF ToDelete, Idle, IInv, TypeOK
    <3>3. QED
      BY <3>2 DEF IInv, Timer
  <2>2. CASE PoolInit
    BY <2>2 DEF PoolInit, IInv, Shape
  <2>3. CASE PoolFini \/ PoolFiniAborts
    BY <2>3 DEF PoolFini, PoolFiniAborts
  <2>4. ASSUME ~Heartbeat, ~PoolInit, ~PoolFini, ~PoolFiniAborts
        PROVE  zones \subseteq zones'
    BY <2>4 DEF Next, Borrow, SetAlloc, BorrowChained, BorrowNew, BorrowFails,
                Return, GiveBack, ReturnTwice, Tick, chainVars
  <2>5. QED
    BY <2>1, <2>2, <2>3, <2>4
<1>2. QED
  BY <1>1, PoolInvariant, PTL DEF Spec, UnmapOnlyAfterTimeout

\* ft_pool_fini unmaps all memory only when no frame is held, and aborts only
\* when one is.
THEOREM FiniIsSafe == Spec => FiniOnlyWithoutHolders
<1> DEFINE A == /\ phase = "live" /\ phase' = "fini" =>
                     \A f \in Frame : held[f] = 0
                /\ phase' = "abort" => \E f \in Frame : held[f] > 0
<1>1. IInv /\ [Next]_vars => [A]_vars
  <2> SUFFICES ASSUME IInv, Next PROVE A \/ UNCHANGED vars
    OBVIOUS
  <2>1. CASE PoolFini
    <3>1. \A z \in zones : used[z] = 0
      BY <2>1 DEF PoolFini, IInv, TypeOK
    <3>2. \A z \in zones : FramesOf(z) = {}
      <4>1. \A z \in zones : IsFiniteSet(FramesOf(z))
        BY FS_Subset DEF IInv, FramesOf
      <4>2. \A z \in zones : Cardinality(FramesOf(z)) = 0
        BY <3>1 DEF IInv, Accounting, TypeOK
      <4>3. QED
        BY <4>1, <4>2, FS_EmptySet
    <3>3. inUse = {}
      BY <3>2 DEF IInv, OneHolder, InMappedZone, FramesOf
    <3>4. \A f \in Frame : held[f] = 0
      BY <3>3 DEF IInv, OneHolder, InMappedZone
    <3>5. QED
      BY <2>1, <3>4 DEF PoolFini
  <2>2. CASE PoolFiniAborts
    <3>1. PICK z \in zones : used[z] > 0
      BY <2>2 DEF PoolFiniAborts
    <3>2. FramesOf(z) # {}
      <4>1. Cardinality(FramesOf(z)) > 0
        BY <3>1 DEF IInv, Accounting, TypeOK
      <4>2. Cardinality({}) = 0
        BY FS_EmptySet
      <4>3. QED
        BY <4>1, <4>2
    <3>3. PICK f \in inUse : f[1] = z
      BY <3>2 DEF FramesOf
    <3>4. f \in Frame /\ held[f] = 1
      BY DEF IInv, OneHolder, InMappedZone, TypeOK
    <3>5. QED
      BY <2>2, <3>4 DEF PoolFiniAborts
  <2>3. ASSUME ~PoolFini, ~PoolFiniAborts, phase # "abort"
        PROVE  (phase = "live" => phase' # "fini") /\ phase' # "abort"
    BY <2>3 DEF Next, Borrow, PoolInit, SetAlloc, BorrowChained, BorrowNew,
                BorrowFails, Return, GiveBack, ReturnTwice, Heartbeat, Tick
  <2>4. phase # "abort"
    BY DEF Next, Borrow, PoolInit, PoolFini, PoolFiniAborts, SetAlloc,
           BorrowChained, BorrowNew, BorrowFails, Return, GiveBack, ReturnTwice,
           Heartbeat, Tick
  <2>5. QED
    BY <2>1, <2>2, <2>3, <2>4
<1>2. QED
  BY <1>1, PoolInvariant, PTL DEF Spec, FiniOnlyWithoutHolders
-----------------------------------------------------------------------------
\* The memory of the chained zones, and the frames on loan.
LEMMA HeldInUse == ASSUME IInv PROVE Held = inUse /\ inUse \subseteq Stock
BY DEF IInv, TypeOK, OneHolder, InMappedZone, Held, Stock

\* An exhausted pool has all its frames on loan.
LEMMA ExhaustedMeansAllHeld ==
  ASSUME IInv, Exhausted
  PROVE  Stock \subseteq inUse
<1> SUFFICES ASSUME NEW f \in Stock, f \notin inUse PROVE FALSE
  OBVIOUS
<1>1. f[1] \in zones /\ f[1] \in Zone /\ f[2] \in 1 .. size[f[1]]
      /\ f = <<f[1], f[2]>>
  BY DEF Stock, Frame, IInv, TypeOK
<1>2. f[2] \in Stacked(f[1])
  <2>1. Stacked(f[1]) = {i \in 1 .. size[f[1]] : <<f[1], i>> \notin inUse}
    BY <1>1, Zenon DEF IInv, Accounting
  <2>2. QED
    BY <1>1, <2>1
<1>3. avail[f[1]] = <<>>
  BY <1>1 DEF Exhausted, HasFrame
<1>4. QED
  BY <1>2, <1>3 DEF Stacked, Elems

\* The frame pool implements the frame store.
THEOREM PoolImplementsStore == Spec => StoreSpec
<1>1. Init => Store!Init
  BY DEF Init, Store!Init, Stock, Held
<1>2. IInv /\ IInv' /\ [Next]_vars => [Store!Next]_(Store!vars)
  <2> SUFFICES ASSUME IInv, IInv', [Next]_vars
               PROVE  Store!Next \/ UNCHANGED <<Stock, Held>>
    BY DEF Store!vars
  <2>0. /\ Held = inUse /\ inUse \subseteq Stock
        /\ Held' = inUse' /\ inUse' \subseteq Stock'
        /\ inUse \subseteq Frame /\ inUse' \subseteq Frame
    <3>1. Held = inUse /\ inUse \subseteq Stock
      BY HeldInUse
    <3>2. Held' = inUse' /\ inUse' \subseteq Stock'
      BY DEF IInv, TypeOK, OneHolder, InMappedZone, Held, Stock
    <3>3. QED
      BY <3>1, <3>2 DEF IInv, TypeOK
  <2>1. ASSUME NEW z \in Zone, BorrowChained(z) PROVE Store!Next
    <3> DEFINE f == <<z, Head(avail[z])>>
    <3>1. f \in Frame /\ f \notin inUse /\ f \in Stock
      <4>1. z \in zones /\ HasFrame(z)
        BY <2>1 DEF BorrowChained, FirstWithFrame
      <4>2. QED
        BY <4>1, StackedIsFree DEF IInv, Frame, Stock
    <3>2. inUse' = inUse \cup {f} /\ Stock' = Stock
      BY <2>1 DEF BorrowChained, Take, chainVars, Stock
    <3> HIDE DEF f
    <3>3. Store!Lend(f)
      BY <2>0, <3>1, <3>2 DEF Store!Lend
    <3>4. QED
      BY <3>1, <3>3 DEF Store!Next
  <2>2. ASSUME NEW z \in Zone, NEW req \in Requests, BorrowNew(z, req)
        PROVE  Store!Next
    <3> DEFINE f == <<z, 1>>
               S == Stock' \ Stock
    <3>1. zones' = zones \cup {z} /\ z \notin zones /\ inUse' = inUse \cup {f}
          /\ size' = [size EXCEPT ![z] = req.size]
      BY <2>2 DEF BorrowNew, NewZone, Take
    <3>2. Stock \subseteq Stock'
      BY <3>1 DEF Stock, IInv, TypeOK
    <3>3. f \in S
      <4>1. f \in Stock'
        BY <2>0, <3>1
      <4>2. f \notin Stock
        BY <3>1 DEF Stock
      <4>3. QED
        BY <4>1, <4>2
    <3>4. Held = Stock
      BY <2>0, <2>2, ExhaustedMeansAllHeld DEF BorrowNew
    <3>5. S \subseteq Frame
      BY DEF Stock
    <3> HIDE DEF f, S
    <3>6. Store!Grow(S, f)
      <4>1. S \cap Stock = {} /\ Stock' = Stock \cup S
        BY <3>2 DEF S
      <4>2. QED
        BY <2>0, <3>1, <3>3, <3>4, <4>1 DEF Store!Grow
    <3>7. QED
      BY <3>3, <3>5, <3>6 DEF Store!Next
  <2>3. ASSUME NEW f \in Frame, Return(f) PROVE Store!Next
    <3>1. f \in inUse /\ inUse' = inUse \ {f} /\ Stock' = Stock
      BY <2>3 DEF Return, GiveBack, chainVars, Stock
    <3>2. Store!TakeBack(f)
      BY <2>0, <3>1 DEF Store!TakeBack
    <3>3. QED
      BY <3>2 DEF Store!Next
  <2>4. ASSUME Heartbeat \/ PoolFini PROVE Store!Next
    <3> DEFINE S == Stock \ Stock'
    <3>1. Stock' \subseteq Stock
      <4>1. zones' \subseteq zones /\ \A z \in zones' : size'[z] = size[z]
        BY <2>4 DEF Heartbeat, PoolFini, Unmap, IInv, TypeOK
      <4>2. QED
        BY <4>1 DEF Stock
    <3>2. inUse' = inUse
      <4>1. held' = held
        BY <2>4 DEF Heartbeat, PoolFini
      <4>2. Held' = Held
        BY <4>1 DEF Held
      <4>3. QED
        BY <2>0, <4>2
    <3>3. S \subseteq Frame /\ Stock' = Stock \ S /\ S \subseteq Stock \ inUse
      BY <2>0, <3>1, <3>2 DEF Stock
    <3> HIDE DEF S
    <3>4. Store!Shrink(S)
      BY <2>0, <3>2, <3>3 DEF Store!Shrink
    <3>5. QED
      BY <3>3, <3>4 DEF Store!Next
  <2>5. ASSUME \/ PoolInit \/ PoolFiniAborts \/ BorrowFails \/ Tick
               \/ (\E a \in Allocators : SetAlloc(a))
               \/ (\E f \in Frame : ReturnTwice(f))
               \/ UNCHANGED vars
        PROVE  UNCHANGED <<Stock, Held>>
    <3>1. UNCHANGED <<zones, size, held>>
      BY <2>5 DEF PoolInit, PoolFiniAborts, BorrowFails, Tick, SetAlloc,
                  ReturnTwice, chainVars, zoneVars, vars, IInv, Shape
    <3>2. QED
      BY <3>1 DEF Stock, Held
  <2>6. QED
    BY <2>1, <2>2, <2>3, <2>4, <2>5 DEF Next, Borrow
<1>3. QED
  BY <1>1, <1>2, PoolInvariant, PTL DEF Spec, StoreSpec, Store!Spec
-----------------------------------------------------------------------------
\* No memory is mapped that frames_total does not count; what has been unmapped it
\* may count still.
Counted == IsFiniteSet(Stock) /\ Cardinality(Stock) <= framesTotal

LowInv == IInv /\ Counted /\ LowmemNeverUnderstates

LEMMA StockIsMapped == Available = Cardinality(Stock) - Cardinality(inUse)
BY DEF Available, Stock, InMappedZone

\* What stays mapped stays counted.
LEMMA StockShrinks ==
  ASSUME IInv, Counted, zones' \subseteq zones, framesTotal' = framesTotal,
         \A z \in zones' : size'[z] = size[z], framesTotal \in Nat
  PROVE  Counted'
<1>1. Stock' \subseteq Stock  BY DEF Stock
<1>2. IsFiniteSet(Stock') /\ Cardinality(Stock') <= Cardinality(Stock)
  BY <1>1, FS_Subset DEF Counted
<1>3. Cardinality(Stock) \in Nat /\ Cardinality(Stock') \in Nat
  BY <1>2, FS_CardinalityType DEF Counted
<1> QED  BY <1>2, <1>3 DEF Counted

LEMMA StockGrows ==
  ASSUME IInv, Counted, NEW z \in Zone, NEW req \in Requests, BorrowNew(z, req)
  PROVE  Counted'
<1>1. /\ z \notin zones /\ zones' = zones \cup {z} /\ framesTotal' = framesTotal + req.size
      /\ size' = [size EXCEPT ![z] = req.size]
  BY DEF BorrowNew, NewZone
<1>2. size \in [Zone -> Nat] /\ zones \subseteq Zone /\ framesTotal \in Nat
  BY DEF IInv, TypeOK
<1>3. req.size \in 1 .. MaxFrames /\ MaxFrames \in Nat
  <2>1. alloc \in {"default", "hugetlb", "custom"}
    BY AllocatorsAssumption DEF IInv, TypeOK
  <2> QED  BY <2>1, RequestSize, MaxFramesBound
<1> DEFINE I == 1 .. req.size
           N == {z} \X I
<1>4. IsFiniteSet(I) /\ Cardinality(I) = req.size
  BY <1>3, FS_Interval
<1>5. IsFiniteSet(N) /\ Cardinality(N) = req.size
  <2>1. IsFiniteSet({z}) /\ Cardinality({z}) = 1  BY FS_Singleton
  <2> HIDE DEF I
  <2>2. IsFiniteSet(N) /\ Cardinality(N) = 1 * req.size  BY <1>4, <2>1, FS_Product
  <2> QED  BY <1>3, <2>2
<1>6. Stock' \subseteq Stock \cup N
  <2> SUFFICES ASSUME NEW f \in Stock' PROVE f \in Stock \cup N  OBVIOUS
  <2>1. f \in Frame /\ f[1] \in zones \cup {z} /\ f[2] \in 1 .. size'[f[1]]
    BY <1>1 DEF Stock
  <2>2. CASE f[1] = z
    <3>1. size'[z] = req.size  BY <1>1, <1>2
    <3> QED  BY <2>1, <2>2, <3>1 DEF Frame
  <2>3. CASE f[1] # z
    <3>1. size'[f[1]] = size[f[1]]  BY <1>1, <1>2, <2>1, <2>3
    <3> QED  BY <2>1, <2>3, <3>1 DEF Stock
  <2> QED  BY <2>2, <2>3
<1> HIDE DEF N, I
<1>7. /\ IsFiniteSet(Stock \cup N)
      /\ Cardinality(Stock \cup N) = Cardinality(Stock) + Cardinality(N) - Cardinality(Stock \cap N)
  BY <1>5, FS_Union DEF Counted
<1>8. /\ Cardinality(Stock) \in Nat /\ Cardinality(Stock \cap N) \in Nat
      /\ Cardinality(Stock \cup N) \in Nat
  BY <1>5, <1>7, FS_CardinalityType, FS_Subset DEF Counted
<1>9. IsFiniteSet(Stock') /\ Cardinality(Stock') <= Cardinality(Stock \cup N)
  BY <1>6, <1>7, FS_Subset
<1>10. Cardinality(Stock') \in Nat /\ req.size \in Nat /\ Cardinality(Stock) <= framesTotal
  BY <1>3, <1>9, FS_CardinalityType DEF Counted
<1>11. Cardinality(Stock') <= framesTotal + req.size
  BY <1>2, <1>5, <1>7, <1>8, <1>9, <1>10
<1> QED  BY <1>1, <1>9, <1>11 DEF Counted

LEMMA CountedStep ==
  ASSUME IInv, Counted, [Next]_vars
  PROVE  Counted'
<1>1. framesTotal \in Nat  BY DEF IInv, TypeOK
<1>2. CASE PoolInit
  <2>1. Stock' = {} /\ framesTotal' = 0  BY <1>2 DEF PoolInit, Stock
  <2> QED  BY <2>1, FS_EmptySet DEF Counted
<1>3. CASE PoolFini
  <2>1. zones' = {} /\ framesTotal' = framesTotal  BY <1>3 DEF PoolFini, poolVars
  <2> QED  BY <1>1, <2>1, StockShrinks
<1>4. CASE Heartbeat
  <2>1. zones' \subseteq zones /\ framesTotal' = framesTotal
    BY <1>4 DEF Heartbeat, poolVars
  <2>2. \A z \in zones' : size'[z] = size[z]
    BY <1>4 DEF Heartbeat, Unmap, IInv, TypeOK
  <2> QED  BY <1>1, <2>1, <2>2, StockShrinks
<1>5. ASSUME NEW z \in Zone, NEW req \in Requests, BorrowNew(z, req)  PROVE Counted'
  BY <1>5, StockGrows
<1>6. ASSUME UNCHANGED <<zones, size, framesTotal>>  PROVE Counted'
  BY <1>1, <1>6, StockShrinks
<1> QED
  BY <1>2, <1>3, <1>4, <1>5, <1>6
     DEF Next, Borrow, BorrowChained, BorrowFails, SetAlloc, PoolFiniAborts, Return,
        GiveBack,
         ReturnTwice, Tick, vars, chainVars, poolVars, zoneVars

LEMMA LowmemStep ==
  ASSUME LowInv, [Next]_vars, IInv', Counted'
  PROVE  LowmemNeverUnderstates'
<1>1. framesTotal' \in Nat /\ framesUsed' \in Nat /\ framesUsed' = Cardinality(inUse')
  BY DEF IInv, TypeOK, Accounting
<1>2. Cardinality(Stock') \in Nat /\ Cardinality(Stock') <= framesTotal'
  BY FS_CardinalityType DEF Counted
<1>3. Available' = Cardinality(Stock') - Cardinality(inUse')
  BY DEF Available, Stock, InMappedZone
<1>4. framesTotal' - framesUsed' >= Available'  BY <1>1, <1>2, <1>3
<1>5. ASSUME NEW last, NEW inc, lowmem' = Lowmem(framesTotal', framesUsed', last, inc)
      PROVE  LowmemNeverUnderstates'
  <2>1. lowmem' # NoMsg => lowmem'.frames = framesTotal' - framesUsed'
    BY <1>5 DEF Lowmem
  <2> QED  BY <1>4, <2>1 DEF LowmemNeverUnderstates
<1>6. CASE lowmem' = NoMsg \/ phase' # "live"  BY <1>6 DEF LowmemNeverUnderstates
<1>7. ASSUME UNCHANGED <<phase, lowmem, zones, size, inUse>>  PROVE LowmemNeverUnderstates'
  BY <1>7 DEF LowInv, LowmemNeverUnderstates, Available, InMappedZone
<1>8. ASSUME NEW z \in Zone, BorrowChained(z)  PROVE LowmemNeverUnderstates'
  BY <1>5, <1>8 DEF BorrowChained
<1>9. ASSUME NEW z \in Zone, NEW req \in Requests, BorrowNew(z, req)
      PROVE  LowmemNeverUnderstates'
  BY <1>5, <1>9 DEF BorrowNew
<1>10. ASSUME NEW f \in Frame, Return(f)  PROVE LowmemNeverUnderstates'
  <2>1. lowmem' = Lowmem(framesTotal', framesUsed', lastZone, TRUE)
    BY <1>10 DEF Return, GiveBack, poolVars
  <2> QED  BY <1>5, <2>1
<1>11. CASE PoolInit \/ PoolFini \/ PoolFiniAborts \/ BorrowFails \/ Heartbeat
            \/ (\E a \in Allocators : SetAlloc(a)) \/ \E f \in Frame : ReturnTwice(f)
  BY <1>6, <1>11 DEF PoolInit, PoolFini, PoolFiniAborts, BorrowFails, Heartbeat,
     SetAlloc, ReturnTwice
<1>12. CASE Tick \/ UNCHANGED vars
  BY <1>7, <1>12 DEF Tick, vars, chainVars, poolVars, zoneVars
<1> QED  BY <1>8, <1>9, <1>10, <1>11, <1>12 DEF Next, Borrow

\* A low-memory message never names fewer frames than could still be borrowed
\* (ft_pool_lowmem_pubsub_msg_): the counters it is made of count every mapped
\* frame and exactly the frames on loan.
THEOREM LowmemIsNeverTooLow == Spec => []LowmemNeverUnderstates
<1>1. Init => Counted /\ LowmemNeverUnderstates
  <2> SUFFICES ASSUME Init PROVE Counted /\ LowmemNeverUnderstates  OBVIOUS
  <2>1. Stock = {} /\ framesTotal = 0 /\ lowmem = NoMsg  BY DEF Init, Stock
  <2> QED  BY <2>1, FS_EmptySet DEF Counted, LowmemNeverUnderstates
<1>2. LowInv /\ [Next]_vars => LowInv'
  <2> SUFFICES ASSUME LowInv, [Next]_vars PROVE LowInv'  OBVIOUS
  <2>1. IInv'  BY NextInv DEF LowInv
  <2>2. Counted'  BY CountedStep DEF LowInv
  <2> QED  BY <2>1, <2>2, LowmemStep DEF LowInv
<1>3. Init => LowInv  BY <1>1, InitInv DEF LowInv
<1>4. LowInv => LowmemNeverUnderstates  BY DEF LowInv
<1> QED  BY <1>2, <1>3, <1>4, PTL DEF Spec
=============================================================================
