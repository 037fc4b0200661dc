------------------------------ MODULE FramePool ------------------------------
(***************************************************************************)
(* The frame pool of libft: a chain of memory zones, each carved into      *)
(* equally sized frames.  Frames are borrowed by the sockets and by the    *)
(* application and returned one by one; zones are mapped on demand by an   *)
(* allocator function and unmapped again by the heartbeat once they have   *)
(* been idle for long enough (src/mempool/pool.c, src/mempool/zone.c and   *)
(* the inline ft_frame_return of include/ft/mempool/pool.h).               *)
(*                                                                         *)
(* The program is single threaded, so every public function is one action. *)
(* A frame is the pair <<zone address, index>>: addresses are reused after *)
(* munmap, which is what makes a dangling frame dangerous.  What a frame   *)
(* carries is not modelled.                                                *)
(*                                                                         *)
(* An operator that is not reached from Next (GiveBackUncounted and the     *)
(* like) is the next definition with a bug in it; the properties below are *)
(* known to catch it.                                                      *)
(***************************************************************************)
EXTENDS Integers, Sequences, FiniteSets

CONSTANTS
  Zone,          \* the addresses a zone may be mapped at
  Allocators,    \* the allocator functions ft_pool_set_alloc may install
  LowFrames,     \* frames of the first, low-memory zone (16 in the code)
  HighFrames,    \* frames of the second, high-memory zone (2045)
  HugeFrames,    \* frames of a huge page zone
  CustomFrames,  \* frames of a zone of an application's own allocator
  LowmemLimit,   \* FT_POOL_LOWMEM_LIMIT (100)
  FreeTimeout,   \* ft_config.fpool_zone_free_timeout, in clock ticks
  MaxTotal       \* bound of the model: frames_total only ever grows

ASSUME AllocatorsAssumption ==
  Allocators \subseteq {"default", "hugetlb", "custom"}
ASSUME SizesAssumption ==
  /\ LowFrames \in Nat \ {0} /\ HighFrames \in Nat \ {0}
  /\ HugeFrames \in Nat \ {0} /\ CustomFrames \in Nat \ {0}
ASSUME LimitsAssumption ==
  LowmemLimit \in Nat /\ FreeTimeout \in Nat /\ MaxTotal \in Nat

VARIABLES
  phase,        \* "fini", "live" or why the process has died
  zones,        \* the zones chained in pool->zones
  order,        \* <<y, z>>: zone y comes before zone z in the chain
  alloc,        \* pool->alloc_fnct
  lastZone,     \* pool->flags.last_zone
  framesTotal,  \* pool->frames_total
  framesUsed,   \* pool->frames_used
  size,         \* zone->frames_total
  used,         \* zone->frames_used
  freeable,     \* zone->flags.freeable
  freeOnHb,     \* zone->flags.free_on_hb
  left,         \* zone->free_at - now, not below -1
  avail,        \* zone->available_frames, a stack of frame indices
  inUse,        \* the frames whose type is not FT_FRAME_TYPE_FREE
  lowmem,       \* the lowmem message the last call has published
  held,         \* history: how many holders the callers think a frame has
  idle          \* history: for how long a zone had all its frames returned

chainVars == <<zones, order>>
poolVars  == <<alloc, lastZone, framesTotal, framesUsed>>
zoneVars  == <<size, freeable, freeOnHb, left, used, avail>>
vars == <<phase, chainVars, poolVars, zoneVars, inUse, lowmem, held, idle>>

MaxFrames ==
  CHOOSE n \in {LowFrames, HighFrames, HugeFrames, CustomFrames} :
    \A m \in {LowFrames, HighFrames, HugeFrames, CustomFrames} : m <= n
Frame == Zone \X (1 .. MaxFrames)
NoMsg == [frames |-> -1, inc |-> FALSE]

-----------------------------------------------------------------------------
\* ft_pool_init
PoolInit ==
  /\ phase = "fini"
  /\ phase' = "live"
  /\ alloc' = "default"
  /\ lastZone' = FALSE /\ framesTotal' = 0 /\ framesUsed' = 0
  /\ zones' = {} /\ order' = {}
  /\ lowmem' = NoMsg
  /\ UNCHANGED <<zoneVars, inUse, held, idle>>

\* ft_pool_set_alloc; NULL selects the default allocator again.
SetAlloc(a) ==
  /\ phase = "live"
  /\ alloc' = a
  /\ lowmem' = NoMsg
  /\ UNCHANGED <<phase, chainVars, lastZone, framesTotal, framesUsed, zoneVars,
                 inUse, held, idle>>

\* What ft_pool_lowmem_pubsub_msg_ publishes, once the counters are updated.
Lowmem(total, inUseNow, last, inc) ==
  IF last /\ total - inUseNow < LowmemLimit
  THEN [frames |-> total - inUseNow, inc |-> inc]
  ELSE NoMsg

\* _ft_poolzone_borrow succeeds on a zone with an available frame ...
HasFrame(z) == avail[z] # <<>>
\* ... and the loop of ft_pool_borrow_real_ takes the first such zone.
FirstWithFrame(z) ==
  /\ z \in zones /\ HasFrame(z)
  /\ \A y \in zones : HasFrame(y) => y = z \/ <<z, y>> \in order
ExhaustedSome == zones # {} => \E z \in zones : ~HasFrame(z)
Exhausted == \A z \in zones : ~HasFrame(z)

\* The caller gets the frame with index i of zone z.
Take(z, i) ==
  /\ inUse' = inUse \cup {<<z, i>>}
  /\ held' = [held EXCEPT ![<<z, i>>] = @ + 1]
  /\ idle' = [idle EXCEPT ![z] = 0]
  /\ framesUsed' = framesUsed + 1

\* ft_pool_borrow_real_, a chained zone has a frame.
BorrowChained(z) ==
  /\ phase = "live"
  /\ FirstWithFrame(z)
  /\ Take(z, Head(avail[z]))
  /\ avail' = [avail EXCEPT ![z] = Tail(@)]
  /\ used' = [used EXCEPT ![z] = @ + 1]
  /\ lowmem' = Lowmem(framesTotal, framesUsed', lastZone, FALSE)
  /\ UNCHANGED <<phase, chainVars, alloc, lastZone, framesTotal,
                 size, freeable, freeOnHb, left>>

\* What the installed allocator function asks ft_poolzone_new_mmap for, given
\* the chain: nothing when it knows of no further zone.  The huge page
\* allocator falls back to the default one when huge pages are not to be had.
DefaultRequests ==
  IF zones = {}
  THEN {[size |-> LowFrames, freeable |-> FALSE, last |-> FALSE]}
  ELSE IF \A y, z \in zones : y = z
       THEN {[size |-> HighFrames, freeable |-> TRUE, last |-> TRUE]}
       ELSE {}
HugeRequests ==
  IF zones = {}
  THEN {[size |-> HugeFrames, freeable |-> FALSE, last |-> FALSE]}
  ELSE {}
CustomRequests == {[size |-> CustomFrames, freeable |-> TRUE, last |-> FALSE]}
Requests ==
  CASE alloc = "default" -> DefaultRequests
    [] alloc = "hugetlb" -> DefaultRequests \cup HugeRequests
    [] alloc = "custom"  -> CustomRequests

\* ft_poolzone_init of a zone mapped at z, with its first frame, which the
\* caller is about to get, already off the stack.  Fresh memory reads as zero,
\* so free_at is long past.
NewZone(z, req) ==
  /\ size' = [size EXCEPT ![z] = req.size]
  /\ freeable' = [freeable EXCEPT ![z] = req.freeable]
  /\ freeOnHb' = [freeOnHb EXCEPT ![z] = FALSE]
  /\ left' = [left EXCEPT ![z] = -1]
  /\ avail' = [avail EXCEPT ![z] = [i \in 1 .. req.size - 1 |-> i + 1]]
  /\ used' = [used EXCEPT ![z] = 1]
  /\ framesTotal' = framesTotal + req.size

\* ft_pool_borrow_real_, every chained zone is exhausted: the allocator maps a
\* zone at z, it is chained at the tail and its first frame is borrowed.
BorrowNew(z, req) ==
  /\ phase = "live"
  /\ Exhausted /\ ~lastZone
  /\ z \notin zones /\ req \in Requests
  /\ framesTotal + req.size <= MaxTotal
  /\ NewZone(z, req)
  /\ zones' = zones \cup {z}
  /\ order' = order \cup (zones \X {z})
  /\ Take(z, 1)
  /\ lastZone' = req.last
  /\ lowmem' = Lowmem(framesTotal', framesUsed', lastZone', FALSE)
  /\ UNCHANGED <<phase, alloc>>

\* ft_pool_borrow_real_ returns NULL: the last zone has been allocated, the
\* allocator has no zone to offer, or mmap has failed.
BorrowFails ==
  /\ phase = "live"
  /\ Exhausted
  /\ lowmem' = NoMsg
  /\ UNCHANGED <<phase, chainVars, poolVars, zoneVars, inUse, held, idle>>

\* The rest of ft_frame_return, once the type of the frame has been looked at.
GiveBackUncounted(f) ==
  LET z == f[1] IN
  /\ inUse' = inUse \ {f}
  /\ avail' = [avail EXCEPT ![z] = <<f[2]>> \o @]
  /\ used' = [used EXCEPT ![z] = @ - 1]
  /\ freeOnHb' = [freeOnHb EXCEPT ![z] = used'[z] = 0]
  /\ lowmem' = Lowmem(framesTotal, framesUsed, lastZone, TRUE)
  /\ held' = [held EXCEPT ![f] = @ - 1]
  /\ idle' = [idle EXCEPT ![z] = 0]
  /\ UNCHANGED <<phase, chainVars, poolVars, size, freeable, left>>

GiveBack(f) ==
  LET z == f[1] IN
  /\ inUse' = inUse \ {f}
  /\ avail' = [avail EXCEPT ![z] = <<f[2]>> \o @]
  /\ used' = [used EXCEPT ![z] = @ - 1]
  /\ freeOnHb' = [freeOnHb EXCEPT ![z] = used'[z] = 0]
  /\ framesUsed' = framesUsed - 1
  /\ lowmem' = Lowmem(framesTotal, framesUsed', lastZone, TRUE)
  /\ held' = [held EXCEPT ![f] = @ - 1]
  /\ idle' = [idle EXCEPT ![z] = 0]
  /\ UNCHANGED <<phase, chainVars, alloc, lastZone, framesTotal,
                 size, freeable, left>>

\* ft_frame_return.  The assertion on the type stops the process at a frame of
\* a mapped zone that has been returned already.
InMappedZone(f) == f[1] \in zones /\ f[2] \in 1 .. size[f[1]]
ReturnTwice(f) ==
  /\ phase = "live" /\ InMappedZone(f)
  /\ f \notin inUse
  /\ phase' = "assert"
  /\ UNCHANGED <<chainVars, poolVars, zoneVars, inUse, lowmem, held, idle>>

Return(f) == phase = "live" /\ f \in inUse /\ GiveBack(f)
-----------------------------------------------------------------------------
\* The clock moves on by one tick.  Only free_at is ever compared with it, so
\* what is left until free_at is kept instead of the time.
Tick ==
  /\ phase = "live"
  /\ left' = [z \in Zone |-> IF left[z] < 0 THEN -1 ELSE left[z] - 1]
  /\ idle' = [z \in Zone |->
                IF z \in zones /\ used[z] = 0 /\ idle[z] <= FreeTimeout
                THEN idle[z] + 1 ELSE idle[z]]
  /\ UNCHANGED <<phase, chainVars, poolVars, size, freeable, freeOnHb, used,
                 avail, inUse, lowmem, held>>

\* ft_pool_on_heartbeat looks at the idle zones it may free: the timer of one
\* that became idle since the last heartbeat is armed, one whose timer has run
\* out is unchained and unmapped.
Idle(z)  == z \in zones /\ freeable[z] /\ used[z] <= 0
ToArmAlways == {z \in zones : Idle(z)}
ToArm    == {z \in zones : Idle(z) /\ freeOnHb[z]}
ToDeleteInUse == {z \in zones : freeable[z] /\ ~freeOnHb[z] /\ left[z] < 0}
ToDeleteStaleTimer == {z \in zones : Idle(z) /\ left[z] < 0}
ToDelete == {z \in zones : Idle(z) /\ ~freeOnHb[z] /\ left[z] < 0}

\* munmap; the contents of unmapped memory are not kept.
Unmap(Z) ==
  /\ size' = [z \in Zone |-> IF z \in Z THEN 0 ELSE size[z]]
  /\ freeable' = [z \in Zone |-> freeable[z] /\ z \notin Z]
  /\ avail' = [z \in Zone |-> IF z \in Z THEN <<>> ELSE avail[z]]
  /\ used' = [z \in Zone |-> IF z \in Z THEN 0 ELSE used[z]]
  /\ inUse' = {f \in inUse : f[1] \notin Z}
  /\ idle' = [z \in Zone |-> IF z \in Z THEN 0 ELSE idle[z]]

\* _ft_poolzone_del leaves pool->frames_total alone.
Heartbeat ==
  /\ phase = "live"
  /\ zones' = zones \ ToDelete
  /\ order' = {p \in order : p[1] \notin ToDelete /\ p[2] \notin ToDelete}
  /\ Unmap(ToDelete)
  /\ left' = [z \in Zone |-> IF z \in ToArm THEN FreeTimeout
                             ELSE IF z \in ToDelete THEN -1 ELSE left[z]]
  /\ freeOnHb' = [z \in Zone |-> freeOnHb[z] /\ z \notin ToArm]
  /\ lowmem' = NoMsg
  /\ UNCHANGED <<phase, poolVars, held>>

\* ft_pool_fini unmaps every zone, and aborts at one with frames still out.
PoolFini ==
  /\ phase = "live"
  /\ \A z \in zones : used[z] <= 0
  /\ phase' = "fini"
  /\ zones' = {} /\ order' = {}
  /\ Unmap(zones)
  /\ left' = [z \in Zone |-> -1]
  /\ freeOnHb' = [z \in Zone |-> FALSE]
  /\ lowmem' = NoMsg
  /\ UNCHANGED <<poolVars, held>>

PoolFiniAborts ==
  /\ phase = "live"
  /\ \E z \in zones : used[z] > 0
  /\ phase' = "abort"
  /\ UNCHANGED <<chainVars, poolVars, zoneVars, inUse, lowmem, held, idle>>
-----------------------------------------------------------------------------
Init ==
  /\ phase = "fini"
  /\ zones = {} /\ order = {}
  /\ alloc = "default" /\ lastZone = FALSE
  /\ framesTotal = 0 /\ framesUsed = 0
  /\ size = [z \in Zone |-> 0] /\ used = [z \in Zone |-> 0]
  /\ freeable = [z \in Zone |-> FALSE] /\ freeOnHb = [z \in Zone |-> FALSE]
  /\ left = [z \in Zone |-> -1] /\ avail = [z \in Zone |-> <<>>]
  /\ inUse = {} /\ lowmem = NoMsg
  /\ held = [f \in Frame |-> 0] /\ idle = [z \in Zone |-> 0]

Borrow ==
  \/ \E z \in Zone : BorrowChained(z)
  \/ \E z \in Zone : \E req \in Requests : BorrowNew(z, req)
  \/ BorrowFails

Next ==
  \/ PoolInit \/ PoolFini \/ PoolFiniAborts
  \/ \E a \in Allocators : SetAlloc(a)
  \/ Borrow
  \/ \E f \in Frame : Return(f) \/ ReturnTwice(f)
  \/ Heartbeat
  \/ Tick

Spec == Init /\ [][Next]_vars

\* The heartbeat is a repeating timer of the event loop and time passes.
FairSpec == Spec /\ WF_vars(Heartbeat) /\ WF_vars(Tick)
-----------------------------------------------------------------------------
FramesOf(z)  == {f \in inUse : f[1] = z}
Elems(s)     == {s[k] : k \in DOMAIN s}
Stacked(z)   == Elems(avail[z])
NoRepeats(s) == \A k, l \in DOMAIN s : s[k] = s[l] => k = l

TypeOK ==
  /\ phase \in {"fini", "live", "assert", "abort"}
  /\ zones \subseteq Zone /\ order \subseteq Zone \X Zone
  /\ alloc \in Allocators \cup {"default"} /\ lastZone \in BOOLEAN
  /\ framesTotal \in Nat /\ framesUsed \in Nat
  /\ size \in [Zone -> Nat] /\ used \in [Zone -> Nat]
  /\ freeable \in [Zone -> BOOLEAN] /\ freeOnHb \in [Zone -> BOOLEAN]
  /\ left \in [Zone -> -1 .. FreeTimeout]
  /\ avail \in [Zone -> Seq(1 .. MaxFrames)]
  /\ inUse \subseteq Frame
  /\ held \in [Frame -> Nat] /\ idle \in [Zone -> 0 .. FreeTimeout + 1]

\* A frame never has two holders, the frames out on loan are those the pool
\* believes to be, and all of them lie in mapped zones: the assertion in
\* ft_frame_return stops a double return and nothing else, and no heartbeat
\* unmaps a zone under a frame still held.
OneHolder ==
  /\ \A f \in Frame : held[f] = IF f \in inUse THEN 1 ELSE 0
  /\ \A f \in inUse : InMappedZone(f)

\* frames_used of the pool and of each zone, kept up to date in three different
\* functions, count the frames on loan, and the stack of a zone holds exactly
\* its other frames, each once: no frame is ever lost to the pool.
Accounting ==
  /\ framesUsed = Cardinality(inUse)
  /\ \A z \in Zone : used[z] = Cardinality(FramesOf(z))
  /\ \A z \in Zone :
       /\ Stacked(z) = {i \in 1 .. size[z] : <<z, i>> \notin inUse}
       /\ NoRepeats(avail[z])

\* The heartbeat unmaps a zone only after all its frames have stayed returned
\* for longer than the timeout: a timer armed for an earlier idle spell never
\* counts for a later one (free_on_hb is raised again by ft_frame_return).
UnmapOnlyAfterTimeout ==
  [][phase' = "live" => \A z \in zones \ zones' : idle[z] > FreeTimeout]_vars

\* ft_pool_fini unmaps everything only when nobody holds a frame any more, and
\* the abort in _ft_poolzone_del means that somebody does.
FiniOnlyWithoutHolders ==
  [][/\ phase = "live" /\ phase' = "fini" => \A f \in Frame : held[f] = 0
     /\ phase' = "abort" => \E f \in Frame : held[f] > 0]_vars

\* A freeable zone whose frames have all come back is unmapped in the end,
\* unless one of its frames is borrowed again: what the loop at the end of
\* fpool_alloc_custom_advice_utest waits for.
IdleZoneIsUnmapped ==
  \A z \in Zone :
    (phase = "live" /\ Idle(z)) ~> (phase # "live" \/ ~Idle(z))

\* The number of available frames in a low-memory message is never below what
\* could still be borrowed: the alarm may come late (zones that have been
\* unmapped stay in frames_total), the all-clear never does.
Available ==
  Cardinality({f \in Frame : InMappedZone(f)}) - Cardinality(inUse)
LowmemNeverUnderstates ==
  lowmem # NoMsg /\ phase = "live" => lowmem.frames >= Available
=============================================================================
