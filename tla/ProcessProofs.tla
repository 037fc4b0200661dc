----------------------------- MODULE ProcessProofs -----------------------------
(***************************************************************************)
(* Proofs about a process as a whole.  First what happens in its context,  *)
(* for any number of listeners and connections and however often signals,  *)
(* timers and applications ask the loop to stop.  Then how it became a     *)
(* daemon, for any number of launches of a server and any number of        *)
(* processes killed and PIDs used again.  The two have no state in common. *)
(***************************************************************************)
EXTENDS Listener, Daemon, FiniteSetTheorems, TLAPS

\* A running callback: which, and the connection it is about.
Callback == ({"accept", "stream"} \X Conn) \cup ({"exit", "told"} \X {None})
Message == {"exit", "told"}

TypeOK ==
  /\ active \subseteq Watcher \cup Internal /\ activecnt \in Int
  /\ pending \subseteq active
  /\ running \in BOOLEAN /\ exits \in Nat
  /\ stack \in Seq(Callback) /\ list \subseteq Lst

\* The exit message is published once: it is on its way at most once, and until it
\* has been the shutdown timer is not started.
Exiting == \E i \in DOMAIN stack : stack[i][1] \in Message
ExitOnce ==
  /\ running \/ Exiting => "shutdown" \notin active
  /\ running => ~Exiting /\ exits = 0
  /\ \A i, j \in DOMAIN stack :
       stack[i][1] \in Message /\ stack[j][1] \in Message => i = j

\* Only listeners of the list are started, none once the message has been handled.
Silenced ==
  /\ active \cap Lst \subseteq list
  /\ Told => active \cap Lst = {}

Inv == TypeOK /\ ExitOnce /\ LoopCountsApplication /\ Silenced
-----------------------------------------------------------------------------
\* The counting of libev: a watcher of the application that starts or stops counts.
LEMMA Disjoint ==
  /\ Lst \subseteq Watcher /\ Conn \subseteq Watcher /\ Lst \cap Conn = {}
  /\ Watcher \cap Internal = {} /\ IsFiniteSet(Watcher)
BY WatcherAssumption, ListenerAssumption

LEMMA DisjointUnion ==
  ASSUME NEW A, NEW B, IsFiniteSet(A), IsFiniteSet(B), A \cap B = {}
  PROVE  /\ Cardinality(A) \in Nat /\ Cardinality(B) \in Nat
         /\ Cardinality(A \cup B) = Cardinality(A) + Cardinality(B)
<1>1. Cardinality(A \cup B) = Cardinality(A) + Cardinality(B) - Cardinality(A \cap B)
  BY FS_Union
<1>2. Cardinality(A \cap B) = 0  BY FS_EmptySet
<1> QED  BY <1>1, <1>2, FS_CardinalityType

LEMMA StartCounts ==
  ASSUME TypeOK, LoopCountsApplication, NEW ws \in SUBSET Watcher, EvStart(ws)
  PROVE  activecnt' \in Int /\ LoopCountsApplication'
<1>1. IsFiniteSet(active \cap Watcher) /\ IsFiniteSet(ws \ active)
  BY Disjoint, FS_Subset
<1>2. (active \cap Watcher) \cap (ws \ active) = {}  OBVIOUS
<1>3. active' \cap Watcher = (active \cap Watcher) \cup (ws \ active)  BY DEF EvStart
<1>4. /\ Cardinality(active \cap Watcher) \in Nat /\ Cardinality(ws \ active) \in Nat
      /\ Cardinality(active' \cap Watcher)
           = Cardinality(active \cap Watcher) + Cardinality(ws \ active)
  BY <1>1, <1>2, <1>3, FS_CardinalityType, DisjointUnion
<1>5. activecnt' = activecnt + Cardinality(ws \ active)  BY DEF EvStart
<1> QED  BY <1>4, <1>5 DEF LoopCountsApplication

LEMMA StopCounts ==
  ASSUME TypeOK, LoopCountsApplication, NEW ws \in SUBSET Watcher, NEW due, EvStop(ws, due)
  PROVE  activecnt' \in Int /\ LoopCountsApplication'
<1>1. IsFiniteSet(active' \cap Watcher) /\ IsFiniteSet(ws \cap active)
  BY Disjoint, FS_Subset
<1>2. (active' \cap Watcher) \cap (ws \cap active) = {}  BY DEF EvStop
<1>3. active \cap Watcher = (active' \cap Watcher) \cup (ws \cap active)  BY DEF EvStop
<1>4. /\ Cardinality(active' \cap Watcher) \in Nat /\ Cardinality(ws \cap active) \in Nat
      /\ Cardinality(active \cap Watcher)
           = Cardinality(active' \cap Watcher) + Cardinality(ws \cap active)
  BY <1>1, <1>2, <1>3, FS_CardinalityType, DisjointUnion
<1>5. activecnt' = activecnt - Cardinality(ws \cap active)  BY DEF EvStop
<1> QED  BY <1>4, <1>5 DEF LoopCountsApplication

\* Those of the context never do.
LEMMA ShutdownCounts ==
  ASSUME TypeOK, LoopCountsApplication, "shutdown" \notin active, ExitPublished
  PROVE  activecnt' \in Int /\ LoopCountsApplication'
<1>1. active' \cap Watcher = active \cap Watcher  BY Disjoint DEF ExitPublished, Internal
<1>2. {"shutdown"} \ active = {"shutdown"}  OBVIOUS
<1>3. Cardinality({"shutdown"} \ active) = 1  BY <1>2, FS_Singleton
<1>4. activecnt' = activecnt + 1 - 1  BY <1>3 DEF ExitPublished
<1>5. activecnt' = activecnt  BY <1>4 DEF TypeOK
<1> QED  BY <1>1, <1>5 DEF LoopCountsApplication, TypeOK

LEMMA TimerCounts ==
  ASSUME TypeOK, LoopCountsApplication, ShutdownTimer
  PROVE  activecnt' \in Int /\ LoopCountsApplication'
<1>1. active' \cap Watcher = active \cap Watcher
  BY Disjoint DEF ShutdownTimer, Internal, Installed
<1>2. Sigs \cap active = active \cap Sigs /\ IsFiniteSet(Sigs)
  <2>1. Sigs = {"sigint"} \cup {"sigterm"} \cup {"sighup"}  BY DEF Sigs
  <2> QED  BY <2>1, FS_Singleton, FS_Union
<1>3. Cardinality(active \cap Sigs) \in Nat  BY <1>2, FS_Subset, FS_CardinalityType
<1>4. activecnt' = activecnt + Cardinality(active \cap Sigs) - Cardinality(active \cap Sigs)
  BY <1>2 DEF ShutdownTimer
<1>5. activecnt' = activecnt  BY <1>3, <1>4 DEF TypeOK
<1> QED  BY <1>1, <1>5 DEF LoopCountsApplication, TypeOK

LEMMA FiniCounts ==
  ASSUME ContextFini
  PROVE  activecnt' \in Int /\ LoopCountsApplication'
<1>1. active' \cap Watcher = {} /\ activecnt' = 0  BY DEF ContextFini
<1> QED  BY <1>1, FS_EmptySet DEF LoopCountsApplication

-----------------------------------------------------------------------------
\* The stack of callbacks.
LEMMA Pushed ==
  ASSUME TypeOK, NEW cb \in Callback, stack' = <<cb>> \o stack
  PROVE  /\ stack' \in Seq(Callback) /\ DOMAIN stack' = 1 .. Len(stack) + 1
         /\ DOMAIN stack = 1 .. Len(stack) /\ Len(stack) \in Nat
         /\ stack'[1] = cb /\ \A i \in DOMAIN stack : stack'[i + 1] = stack[i]
BY DEF TypeOK

LEMMA Popped ==
  ASSUME TypeOK, stack # <<>>, stack' = Tail(stack)
  PROVE  /\ stack' \in Seq(Callback) /\ DOMAIN stack' = 1 .. Len(stack) - 1
         /\ DOMAIN stack = 1 .. Len(stack) /\ Len(stack) \in Nat \ {0}
         /\ \A i \in DOMAIN stack' : stack'[i] = stack[i + 1]
BY DEF TypeOK

LEMMA Replaced ==
  ASSUME TypeOK, stack # <<>>, NEW cb \in Callback, stack' = <<cb>> \o Tail(stack)
  PROVE  /\ stack' \in Seq(Callback) /\ DOMAIN stack' = DOMAIN stack /\ 1 \in DOMAIN stack
         /\ stack'[1] = cb /\ \A i \in DOMAIN stack : i # 1 => stack'[i] = stack[i]
<1>1. stack \in Seq(Callback) /\ Len(stack) \in Nat \ {0}  BY DEF TypeOK
<1>2. /\ Tail(stack) \in Seq(Callback) /\ Len(Tail(stack)) = Len(stack) - 1
      /\ \A i \in 1 .. Len(stack) - 1 : Tail(stack)[i] = stack[i + 1]
  BY <1>1
<1>3. /\ Len(stack') = Len(stack) /\ stack' \in Seq(Callback) /\ stack'[1] = cb
      /\ \A i \in 2 .. Len(stack) : stack'[i] = Tail(stack)[i - 1]
  BY <1>1, <1>2
<1>4. \A i \in 2 .. Len(stack) : i - 1 \in 1 .. Len(stack) - 1 /\ (i - 1) + 1 = i
  BY <1>1
<1>5. \A i \in 2 .. Len(stack) : stack'[i] = stack[i]  BY <1>2, <1>3, <1>4
<1>6. DOMAIN stack = 1 .. Len(stack) /\ DOMAIN stack' = 1 .. Len(stack)  BY <1>1, <1>3
<1>7. \A i \in 1 .. Len(stack) : i # 1 => i \in 2 .. Len(stack)  BY <1>1
<1> QED  BY <1>1, <1>3, <1>5, <1>6, <1>7

\* What a step can do to the stack and to the messages under way.
Same == stack' = stack /\ UNCHANGED <<running, exits>>
Calls == /\ \E cb \in {"accept", "stream"} \X Conn : stack' = <<cb>> \o stack
         /\ UNCHANGED <<running, exits>>
Stops == /\ running /\ running' = FALSE /\ exits' = exits + 1
         /\ stack' = <<<<"exit", None>>>> \o stack
Tells == /\ Top = "exit" /\ stack' = <<<<"told", None>>>> \o Tail(stack)
         /\ active' = active \ list /\ list' = list /\ UNCHANGED <<running, exits>>
Returned(of) == Top = of /\ stack' = Tail(stack) /\ UNCHANGED <<running, exits>>

LEMMA TopIs ==
  ASSUME TypeOK, NEW f \in {"accept", "stream", "exit", "told"}, Top = f
  PROVE  stack # <<>> /\ 1 \in DOMAIN stack /\ stack[1] \in Callback /\ stack[1][1] = f
<1>1. stack \in Seq(Callback)  BY DEF TypeOK
<1>2. stack # <<>> /\ stack[1][1] = f  BY DEF Top
<1> QED  BY <1>1, <1>2

LEMMA StackEffect ==
  ASSUME TypeOK, [Next]_vars
  PROVE  \/ /\ Same \/ Calls \/ Stops \/ Tells \/ Returned("accept") \/ Returned("stream")
            /\ "shutdown" \in active' => "shutdown" \in active
         \/ Returned("told")
<1> USE Disjoint DEF Same, Calls, Stops, Tells, Returned, EvStart, EvStop, Internal
<1>1. CASE UNCHANGED vars  BY <1>1 DEF vars, contextVars
<1>2. CASE Handler
  BY <1>2 DEF Handler, ContextHandler, SigHup, ShutdownTimer, Heartbeat, SigExit,
     ContextStop, AcceptFails, Accept, StreamEvent, Call
<1>3. CASE Returns
  <2>1. CASE AcceptReturns
    <3>1. stack[1][2] # "shutdown"  BY <2>1, TopIs DEF AcceptReturns, Callback
    <3> QED  BY <2>1, <3>1 DEF AcceptReturns, Return
  <2>2. CASE StreamReturns  BY <2>2 DEF StreamReturns, Close, Return
  <2>3. CASE OnExit  BY <2>3 DEF OnExit, ListStop
  <2>4. CASE ExitPublished  BY <2>4 DEF ExitPublished, Return
  <2> QED  BY <1>3, <2>1, <2>2, <2>3, <2>4 DEF Returns
<1>4. CASE LoopStep \/ PollDescriptors
  BY <1>4 DEF LoopStep, Run, IterationEnds, PollDescriptors, Poll
<1>5. CASE Application
  <2>1. CASE ListExtend \/ AppStopsContext \/ Fini
    BY <2>1 DEF ListExtend, AppStopsContext, ContextStop, Call, Fini, ContextFini,
       contextVars
  <2>2. CASE ListStart
    <3>1. PICK failed \in SUBSET (list \ listening) : EvStart(list \ failed)
      BY <2>2 DEF ListStart
    <3>2. "shutdown" \notin list  BY DEF TypeOK
    <3> QED  BY <2>2, <3>1, <3>2 DEF ListStart
  <2>3. CASE AppStopsListening  BY <2>3 DEF AppStopsListening, ListStop
  <2>4. ASSUME NEW l \in Lst, ListRemove(l)
        PROVE  Same /\ ("shutdown" \in active' => "shutdown" \in active)
    BY <2>4 DEF ListRemove
  <2>5. ASSUME NEW c \in Conn, StreamFini(c)
        PROVE  Same /\ ("shutdown" \in active' => "shutdown" \in active)
    BY <2>5 DEF StreamFini, Close
  <2> QED  BY <1>5, <2>1, <2>2, <2>3, <2>4, <2>5 DEF Application
<1>6. CASE Outside
  BY <1>6 DEF Outside, Signal, Connect, PeerGivesUp, PeerCloses, contextVars
<1> QED  BY <1>1, <1>2, <1>3, <1>4, <1>5, <1>6 DEF Next

\* What a step can do to the watchers.
LEMMA WatcherEffect ==
  ASSUME TypeOK, [Next]_vars
  PROVE  active' \subseteq Watcher \cup Internal /\ pending' \subseteq active'
<1> USE Disjoint DEF TypeOK, EvStart, EvStop, Internal, Installed, Sigs
<1>1. CASE UNCHANGED vars  BY <1>1 DEF vars, contextVars
<1>2. CASE Handler
  <2>1. CASE ShutdownTimer  BY <2>1 DEF ShutdownTimer
  <2>2. CASE SigHup \/ Heartbeat \/ \E s \in Sigs : SigExit(s)
    BY <2>2 DEF SigHup, Heartbeat, SigExit
  <2>3. CASE \E l \in Lst : AcceptFails(l) \/ \E c \in Conn : Accept(l, c)
    BY <2>3 DEF AcceptFails, Accept
  <2>4. CASE \E c \in Conn : StreamEvent(c)  BY <2>4 DEF StreamEvent
  <2> QED  BY <1>2, <2>1, <2>2, <2>3, <2>4 DEF Handler, ContextHandler
<1>3. CASE Returns
  <2>1. CASE AcceptReturns
    <3>1. stack[1][2] \in Conn  BY <2>1, TopIs DEF AcceptReturns, Callback
    <3> QED  BY <2>1, <3>1 DEF AcceptReturns
  <2>2. CASE StreamReturns  BY <2>2 DEF StreamReturns, Close
  <2>3. CASE OnExit  BY <2>3 DEF OnExit, ListStop
  <2>4. CASE ExitPublished  BY <2>4 DEF ExitPublished
  <2> QED  BY <1>3, <2>1, <2>2, <2>3, <2>4 DEF Returns
<1>4. CASE LoopStep \/ PollDescriptors
  BY <1>4 DEF LoopStep, Run, IterationEnds, PollDescriptors, Poll
<1>5. CASE Application
  <2>1. CASE ListExtend \/ AppStopsContext \/ Fini
    BY <2>1 DEF ListExtend, AppStopsContext, Fini, ContextFini, contextVars
  <2>2. CASE ListStart  BY <2>2 DEF ListStart
  <2>3. CASE AppStopsListening  BY <2>3 DEF AppStopsListening, ListStop
  <2>4. ASSUME NEW l \in Lst, ListRemove(l)
        PROVE  active' \subseteq Watcher \cup Internal /\ pending' \subseteq active'
    BY <2>4 DEF ListRemove
  <2>5. ASSUME NEW c \in Conn, StreamFini(c)
        PROVE  active' \subseteq Watcher \cup Internal /\ pending' \subseteq active'
    BY <2>5 DEF StreamFini, Close
  <2> QED  BY <1>5, <2>1, <2>2, <2>3, <2>4, <2>5 DEF Application
<1>6. CASE Outside
  BY <1>6 DEF Outside, Signal, Connect, PeerGivesUp, PeerCloses, contextVars
<1> QED  BY <1>1, <1>2, <1>3, <1>4, <1>5, <1>6 DEF Next

LEMMA CountStep ==
  ASSUME TypeOK, ExitOnce, LoopCountsApplication, [Next]_vars
  PROVE  activecnt' \in Int /\ LoopCountsApplication'
<1>1. ASSUME UNCHANGED <<active, activecnt>>
      PROVE  activecnt' \in Int /\ LoopCountsApplication'
  BY <1>1 DEF TypeOK, LoopCountsApplication
<1>2. CASE Handler
  <2>1. CASE ShutdownTimer  BY <2>1, TimerCounts
  <2> QED  BY <1>1, <1>2, <2>1 DEF Handler, ContextHandler, SigHup, Heartbeat, SigExit,
                                   AcceptFails, Accept, StreamEvent
<1>3. CASE Returns
  <2>1. CASE AcceptReturns
    <3>1. {stack[1][2]} \in SUBSET Watcher
      BY <2>1, TopIs, Disjoint DEF AcceptReturns, Callback
    <3> QED  BY <1>1, <2>1, <3>1, StartCounts DEF AcceptReturns
  <2>2. CASE StreamReturns
    <3>1. {stack[1][2]} \in SUBSET Watcher
      BY <2>2, TopIs, Disjoint DEF StreamReturns, Callback
    <3> QED  BY <1>1, <2>2, <3>1, StopCounts DEF StreamReturns, Close
  <2>3. CASE OnExit  BY <2>3, StopCounts, Disjoint DEF OnExit, ListStop, TypeOK
  <2>4. CASE ExitPublished
    <3>1. "shutdown" \notin active
      BY <2>4, TopIs DEF ExitPublished, ExitOnce, Exiting, Message
    <3> QED  BY <2>4, <3>1, ShutdownCounts
  <2> QED  BY <1>3, <2>1, <2>2, <2>3, <2>4 DEF Returns
<1>4. CASE LoopStep \/ PollDescriptors
  BY <1>1, <1>4 DEF LoopStep, Run, IterationEnds, PollDescriptors, Poll
<1>5. CASE Application
  <2>1. CASE ListStart
    <3>1. PICK failed \in SUBSET (list \ listening) : EvStart(list \ failed)
      BY <2>1 DEF ListStart
    <3>2. list \ failed \in SUBSET Watcher  BY Disjoint DEF TypeOK
    <3> QED  BY <3>1, <3>2, StartCounts
  <2>2. CASE AppStopsListening  BY <2>2, StopCounts, Disjoint DEF AppStopsListening, ListStop, TypeOK
  <2>3. ASSUME NEW l \in Lst, ListRemove(l)  PROVE activecnt' \in Int /\ LoopCountsApplication'
    BY <2>3, StopCounts, Disjoint DEF ListRemove
  <2>4. ASSUME NEW c \in Conn, StreamFini(c)  PROVE activecnt' \in Int /\ LoopCountsApplication'
    BY <2>4, StopCounts, Disjoint DEF StreamFini, Close
  <2>5. CASE Fini  BY <2>5, FiniCounts DEF Fini
  <2>6. CASE ListExtend \/ AppStopsContext
    BY <1>1, <2>6 DEF ListExtend, AppStopsContext, contextVars
  <2> QED  BY <1>5, <2>1, <2>2, <2>3, <2>4, <2>5, <2>6 DEF Application
<1>6. CASE Outside
  BY <1>1, <1>6 DEF Outside, Signal, Connect, PeerGivesUp, PeerCloses, contextVars
<1>7. CASE UNCHANGED vars  BY <1>1, <1>7 DEF vars, contextVars
<1> QED  BY <1>2, <1>3, <1>4, <1>5, <1>6, <1>7 DEF Next

LEMMA ExitStep ==
  ASSUME TypeOK, ExitOnce, [Next]_vars
  PROVE  /\ running' \in BOOLEAN /\ exits' \in Nat /\ stack' \in Seq(Callback)
         /\ ExitOnce'
<1> DEFINE Mess(i) == stack[i][1] \in Message
           Mess2(i) == stack'[i][1] \in Message
<1> DEFINE Quiet == "shutdown" \in active' => "shutdown" \in active
<1>2. CASE Same /\ Quiet
  BY <1>2 DEF Same, TypeOK, ExitOnce, Exiting
<1>3. CASE Calls /\ Quiet
  <2>1. PICK cb \in {"accept", "stream"} \X Conn : stack' = <<cb>> \o stack
    BY <1>3 DEF Calls
  <2>2. cb \in Callback /\ cb[1] \notin Message  BY DEF Callback, Message
  <2>3. /\ stack' \in Seq(Callback) /\ DOMAIN stack' = 1 .. Len(stack) + 1
        /\ DOMAIN stack = 1 .. Len(stack) /\ Len(stack) \in Nat
        /\ stack'[1] = cb /\ \A i \in DOMAIN stack : stack'[i + 1] = stack[i]
    BY <2>1, <2>2, Pushed
  <2>4. \A i \in DOMAIN stack' : i # 1 => i - 1 \in DOMAIN stack /\ stack'[i] = stack[i - 1]
    BY <2>3
  <2>5. \A i \in DOMAIN stack' : Mess2(i) => i - 1 \in DOMAIN stack /\ Mess(i - 1)
    BY <2>2, <2>3, <2>4
  <2>6. \A i, j \in DOMAIN stack' : i - 1 = j - 1 => i = j  BY <2>3
  <2>7. Exiting' => Exiting  BY <2>5 DEF Exiting
  <2>8. \A i, j \in DOMAIN stack' : Mess2(i) /\ Mess2(j) => i = j
    BY <2>5, <2>6 DEF ExitOnce
  <2>9. ExitOnce'  BY <1>3, <2>7, <2>8 DEF Calls, ExitOnce
  <2> QED  BY <1>3, <2>3, <2>9 DEF Calls, TypeOK
<1>4. CASE Stops /\ Quiet
  <2>1. <<"exit", None>> \in Callback  BY DEF Callback
  <2>2. /\ stack' \in Seq(Callback) /\ DOMAIN stack' = 1 .. Len(stack) + 1
        /\ DOMAIN stack = 1 .. Len(stack) /\ Len(stack) \in Nat
        /\ \A i \in DOMAIN stack : stack'[i + 1] = stack[i]
    BY <1>4, <2>1, Pushed DEF Stops
  <2>3. \A i \in DOMAIN stack' : i # 1 => i - 1 \in DOMAIN stack /\ stack'[i] = stack[i - 1]
    BY <2>2
  <2>4. \A i \in DOMAIN stack' : Mess2(i) => i = 1
    BY <1>4, <2>3 DEF Stops, ExitOnce, Exiting
  <2>6. "shutdown" \notin active'  BY <1>4 DEF Stops, ExitOnce
  <2>7. exits' \in Nat  BY <1>4 DEF Stops, TypeOK
  <2>8. ExitOnce'
    <3>1. ~running'  BY <1>4 DEF Stops
    <3>2. \A i, j \in DOMAIN stack' : Mess2(i) /\ Mess2(j) => i = j  BY <2>4
    <3> QED  BY <2>6, <3>1, <3>2 DEF ExitOnce
  <2> QED  BY <1>4, <2>2, <2>7, <2>8 DEF Stops
<1>5. CASE Tells
  <2>1. <<"told", None>> \in Callback  BY DEF Callback
  <2>2. stack # <<>> /\ 1 \in DOMAIN stack /\ Mess(1)
    BY <1>5, TopIs DEF Tells, Message
  <2>3. /\ stack' \in Seq(Callback) /\ DOMAIN stack' = DOMAIN stack
        /\ \A i \in DOMAIN stack : i # 1 => stack'[i] = stack[i]
    BY <1>5, <2>1, <2>2, Replaced DEF Tells
  <2>4. \A i \in DOMAIN stack : Mess(i) => i = 1  BY <2>2 DEF ExitOnce
  <2>5. \A i \in DOMAIN stack' : Mess2(i) => i = 1  BY <2>3, <2>4
  <2>6. "shutdown" \notin active /\ ~running  BY <2>2 DEF ExitOnce, Exiting
  <2> QED  BY <1>5, <2>3, <2>5, <2>6 DEF Tells, TypeOK, ExitOnce
<1>6. ASSUME NEW f \in {"accept", "stream", "told"}, Returned(f), f # "told" => Quiet
      PROVE  /\ running' \in BOOLEAN /\ exits' \in Nat /\ stack' \in Seq(Callback)
             /\ ExitOnce'
  <2>1. stack # <<>> /\ stack[1][1] = f /\ 1 \in DOMAIN stack  BY <1>6, TopIs DEF Returned
  <2>2. /\ stack' \in Seq(Callback) /\ DOMAIN stack' = 1 .. Len(stack) - 1
        /\ DOMAIN stack = 1 .. Len(stack) /\ Len(stack) \in Nat \ {0}
        /\ \A i \in DOMAIN stack' : stack'[i] = stack[i + 1]
    BY <1>6, <2>1, Popped DEF Returned
  <2>3. \A i \in DOMAIN stack' : i + 1 \in DOMAIN stack /\ i + 1 # 1  BY <2>2
  <2>4. \A i \in DOMAIN stack' : Mess2(i) => i + 1 \in DOMAIN stack /\ Mess(i + 1)
    BY <2>2, <2>3
  <2>5. \A i, j \in DOMAIN stack' : i + 1 = j + 1 => i = j  BY <2>2
  <2>6. \A i, j \in DOMAIN stack' : Mess2(i) /\ Mess2(j) => i = j
    BY <2>4, <2>5 DEF ExitOnce
  <2>7. Exiting' => Exiting  BY <2>4 DEF Exiting
  <2>8. CASE f = "told"
    <3>1. Exiting /\ ~running  BY <2>1, <2>8 DEF Exiting, ExitOnce, Message
    <3>2. ~Exiting'  BY <2>1, <2>3, <2>4, <2>8 DEF Exiting, ExitOnce, Message
    <3> QED  BY <1>6, <2>2, <2>6, <3>1, <3>2 DEF Returned, TypeOK, ExitOnce
  <2>9. CASE f # "told"
    BY <1>6, <2>2, <2>6, <2>7, <2>9 DEF Returned, TypeOK, ExitOnce
  <2> QED  BY <2>8, <2>9
<1> QED  BY <1>2, <1>3, <1>4, <1>5, <1>6, StackEffect

\* Listeners are started while the application has not been told to exit.
LEMMA ListStep ==
  ASSUME TypeOK, [Next]_vars
  PROVE  /\ list' \subseteq Lst
         /\ active' \cap Lst \subseteq active \cap Lst \/ running
         /\ active \cap Lst \subseteq list => active' \cap Lst \subseteq list'
<1> DEFINE Goal == /\ list' \subseteq Lst
                   /\ active' \cap Lst \subseteq active \cap Lst \/ running
                   /\ active \cap Lst \subseteq list => active' \cap Lst \subseteq list'
<1> USE Disjoint DEF TypeOK, EvStart, EvStop, Internal, listVars
<1>1. CASE UNCHANGED vars  BY <1>1 DEF vars, contextVars
<1>2. CASE Handler
  BY <1>2 DEF Handler, ContextHandler, SigHup, ShutdownTimer, Heartbeat, SigExit,
              AcceptFails, Accept, StreamEvent
<1>3. CASE Returns
  <2>1. CASE AcceptReturns
    <3>1. stack[1][2] \in Conn  BY <2>1, TopIs DEF AcceptReturns, Callback
    <3> QED  BY <2>1, <3>1 DEF AcceptReturns
  <2>2. CASE StreamReturns  BY <2>2 DEF StreamReturns, Close
  <2>3. CASE OnExit  BY <2>3 DEF OnExit, ListStop
  <2>4. CASE ExitPublished /\ UNCHANGED listVars  BY <2>4 DEF ExitPublished
  <2> QED  BY <1>3, <2>1, <2>2, <2>3, <2>4 DEF Returns
<1>4. CASE LoopStep \/ PollDescriptors
  BY <1>4 DEF LoopStep, Run, IterationEnds, PollDescriptors, Poll
<1>5. CASE Application
  <2>1. CASE AppStopsContext \/ Fini
    BY <2>1 DEF AppStopsContext, Fini, ContextFini, contextVars
  <2>2. CASE ListExtend
    <3>1. PICK new \in SUBSET (Lst \ list) : list' = list \cup new
      BY <2>2 DEF ListExtend, Initialised
    <3> QED  BY <2>2, <3>1 DEF ListExtend, contextVars
  <2>3. CASE ListStart  BY <2>3 DEF ListStart
  <2>4. CASE AppStopsListening  BY <2>4 DEF AppStopsListening, ListStop
  <2>5. ASSUME NEW l \in Lst, ListRemove(l)  PROVE Goal
    BY <2>5 DEF ListRemove
  <2>6. ASSUME NEW c \in Conn, StreamFini(c)  PROVE Goal
    BY <2>6 DEF StreamFini, Close
  <2> QED  BY <1>5, <2>1, <2>2, <2>3, <2>4, <2>5, <2>6 DEF Application
<1>6. CASE Outside
  BY <1>6 DEF Outside, Signal, Connect, PeerGivesUp, PeerCloses, contextVars
<1> QED  BY <1>1, <1>2, <1>3, <1>4, <1>5, <1>6 DEF Next

\* The message has been handled after a step only if it was before, or by it.
LEMMA ToldStep ==
  ASSUME TypeOK, ExitOnce, [Next]_vars, Told'
  PROVE  Told \/ (Tells /\ ~running)
<1> DEFINE Exits(i) == stack[i][1] = "exit"
<1>1. Told' <=> exits' > 0 /\ \A i \in DOMAIN stack' : stack'[i][1] # "exit"  BY DEF Told
<1>2. CASE Same  BY <1>1, <1>2 DEF Same, Told
<1>3. CASE Calls
  <2>1. PICK cb \in {"accept", "stream"} \X Conn : stack' = <<cb>> \o stack
    BY <1>3 DEF Calls
  <2>2. /\ DOMAIN stack' = 1 .. Len(stack) + 1
        /\ DOMAIN stack = 1 .. Len(stack) /\ Len(stack) \in Nat
        /\ \A i \in DOMAIN stack : stack'[i + 1] = stack[i]
    BY <2>1, Pushed DEF Callback
  <2>3. \A i \in DOMAIN stack : i + 1 \in DOMAIN stack'  BY <2>2
  <2> QED  BY <1>1, <1>3, <2>2, <2>3 DEF Calls, Told
<1>4. CASE Stops
  <2>1. <<"exit", None>> \in Callback  BY DEF Callback
  <2>2. stack'[1] = <<"exit", None>> /\ 1 \in DOMAIN stack'
    BY <1>4, <2>1, Pushed DEF Stops
  <2> QED  BY <1>1, <2>2
<1>5. CASE Tells
  <2>1. stack # <<>> /\ 1 \in DOMAIN stack /\ stack[1][1] \in Message
    BY <1>5, TopIs DEF Tells, Message
  <2>2. ~running  BY <2>1 DEF ExitOnce, Exiting
  <2> QED  BY <1>5, <2>2
<1>6. ASSUME NEW f \in {"accept", "stream", "told"}, Returned(f)  PROVE Told
  <2>1. stack # <<>> /\ stack[1][1] = f /\ 1 \in DOMAIN stack  BY <1>6, TopIs DEF Returned
  <2>2. /\ DOMAIN stack' = 1 .. Len(stack) - 1
        /\ DOMAIN stack = 1 .. Len(stack) /\ Len(stack) \in Nat \ {0}
        /\ \A i \in DOMAIN stack' : stack'[i] = stack[i + 1]
    BY <1>6, <2>1, Popped DEF Returned
  <2>3. \A i \in DOMAIN stack : i # 1 => i - 1 \in DOMAIN stack' /\ stack'[i - 1] = stack[i]
    BY <2>2
  <2>4. \A i \in DOMAIN stack : ~Exits(i)  BY <1>1, <2>1, <2>3
  <2> QED  BY <1>1, <1>6, <2>4 DEF Returned, Told
<1> QED  BY <1>2, <1>3, <1>4, <1>5, <1>6, StackEffect

LEMMA SilencedStep ==
  ASSUME TypeOK, ExitOnce, Silenced, [Next]_vars
  PROVE  Silenced'
<1>1. active' \cap Lst \subseteq list'  BY ListStep DEF Silenced
<1>2. ASSUME Told'  PROVE active' \cap Lst = {}
  <2>1. CASE Told
    <3>1. ~running
      <4>1. exits > 0  BY <2>1 DEF Told
      <4>2. exits # 0  BY <4>1 DEF TypeOK
      <4> QED  BY <4>2 DEF ExitOnce
    <3> QED  BY <2>1, <3>1, ListStep DEF Silenced
  <2>2. CASE Tells  BY <2>2 DEF Tells, Silenced
  <2> QED  BY <1>2, <2>1, <2>2, ToldStep
<1> QED  BY <1>1, <1>2 DEF Silenced

-----------------------------------------------------------------------------
LEMMA InvInit == Init => Inv
<1> SUFFICES ASSUME Init PROVE Inv  OBVIOUS
<1>1. /\ active = Installed /\ activecnt = 0 /\ pending = {} /\ running = TRUE /\ exits = 0
      /\ stack = <<>> /\ list = {}
  BY DEF Init, ContextInit
<1>2. stack \in Seq(Callback) /\ DOMAIN stack = {}  BY <1>1
<1>3. TypeOK  BY <1>1, <1>2 DEF TypeOK, Internal
<1>4. "shutdown" \notin active  BY <1>1 DEF Installed, Sigs
<1>5. ExitOnce  BY <1>1, <1>2, <1>4 DEF ExitOnce, Exiting
<1>6. active \cap Watcher = {}  BY <1>1, Disjoint DEF Internal
<1>7. LoopCountsApplication  BY <1>1, <1>6, FS_EmptySet DEF LoopCountsApplication
<1>8. active \cap Lst = {}  BY <1>6, Disjoint
<1> QED  BY <1>3, <1>5, <1>7, <1>8 DEF Inv, Silenced

LEMMA InvStep == Inv /\ [Next]_vars => Inv'
<1> SUFFICES ASSUME Inv, [Next]_vars PROVE Inv'  OBVIOUS
<1>1. TypeOK /\ ExitOnce /\ LoopCountsApplication /\ Silenced  BY DEF Inv
<1>2. active' \subseteq Watcher \cup Internal /\ pending' \subseteq active'
  BY <1>1, WatcherEffect
<1>3. activecnt' \in Int /\ LoopCountsApplication'  BY <1>1, CountStep
<1>4. running' \in BOOLEAN /\ exits' \in Nat /\ stack' \in Seq(Callback) /\ ExitOnce'
  BY <1>1, ExitStep
<1>5. list' \subseteq Lst  BY <1>1, ListStep
<1>6. Silenced'  BY <1>1, SilencedStep
<1> QED  BY <1>2, <1>3, <1>4, <1>5, <1>6 DEF Inv, TypeOK

LEMMA InvHolds == Spec => []Inv
BY InvInit, InvStep, PTL DEF Spec

\* The watchers of the context never hold the loop, and those of the application do
\* (the ev_ref and ev_unref of context.c).
THEOREM LoopIsHeldByApplication == Spec => []LoopCountsApplication
<1>1. Inv => LoopCountsApplication  BY DEF Inv
<1> QED  BY <1>1, InvHolds, PTL

\* Nothing is accepted behind the exit message, whatever has been reported before
\* (ft_context_stop, ft_listener_list_cntl).
THEOREM NothingAcceptedAfterExit == Spec => NoAcceptAfterExit
<1> DEFINE Quiet == Told => \A l \in Lst : queue'[l] = queue[l] \/ ~Invoked(l)
<1>1. Inv => Quiet
  <2> SUFFICES ASSUME Inv, Told, NEW l \in Lst PROVE ~Invoked(l)  OBVIOUS
  <2>1. l \notin active  BY DEF Inv, Silenced
  <2> QED  BY <2>1 DEF Invoked, Inv, TypeOK
<1>2. Inv /\ [Next]_vars => [Quiet]_vars  BY <1>1
<1> QED  BY <1>2, InvHolds, PTL DEF Spec, NoAcceptAfterExit
-----------------------------------------------------------------------------
FatherPlaces == {"none", "open", "lock", "verify", "unlink", "dead", "alive", "daemonise",
                 "wait", "read", "returned", "end"}
ChildPlaces == {"none", "setup", "forked", "gone"}
DaemonPlaces == {"none", "setup", "told", "open", "lock", "write", "unlock", "run", "gone"}

LaunchTypes ==
  /\ father \in [Launch -> FatherPlaces] /\ child \in [Launch -> ChildPlaces]
  /\ daemon \in [Launch -> DaemonPlaces]
  /\ pipe \in [Launch -> Seq({"failed", "pid"})] /\ result \in [Launch -> {Nil, "refused", "failed", "pid"}]
  /\ writers \in [Launch -> SUBSET {"father", "child", "daemon"}]
  /\ path \in File \cup {Nil} /\ content \in [File -> File \cup {Nil, "empty", "corrupt"}]
  /\ fd \in [Launch -> File \cup {Nil}] /\ overlap \in BOOLEAN
  /\ misled \in BOOLEAN

\* How far the three processes of a launch are tells about each other: before the
\* fork there is only the father, and a daemon comes of a child.
Checking == {"none", "open", "lock", "verify", "unlink", "dead", "alive", "daemonise"}
Forked(l) ==
  /\ father[l] \in Checking => child[l] = "none" /\ pipe[l] = <<>> /\ result[l] = Nil
  /\ child[l] \in {"none", "setup"} => daemon[l] = "none"
  /\ daemon[l] = "none" /\ child[l] # "gone" => pipe[l] = <<>>

\* What is in the pipe, and that those who may still write into it keep it open.
HasTold(l) == daemon[l] \in {"told", "open", "lock", "write", "unlock", "run"}
Talk(l) ==
  /\ child[l] \in {"setup", "forked"} => "child" \in writers[l]
  /\ daemon[l] \in {"setup", "told"} => "daemon" \in writers[l]
  /\ daemon[l] = "setup" => pipe[l] = <<>>
  /\ HasTold(l) => pipe[l] # <<>> /\ Head(pipe[l]) = "pid"
  /\ pipe[l] # <<>> /\ Head(pipe[l]) = "failed" => daemon[l] \in {"none", "gone"}
  /\ pipe[l] # <<>> /\ Head(pipe[l]) = "pid" => daemon[l] \notin {"none", "setup"}

Truth(l) ==
  /\ result[l] = "failed" => daemon[l] \in {"none", "gone"} /\ child[l] \in {"none", "gone"}
  /\ result[l] = "pid" => daemon[l] \notin {"none", "setup"}
  /\ father[l] \in {"read", "returned"} => child[l] = "gone"
  /\ father[l] = "wait" => child[l] # "none"

Handshake(l) == Forked(l) /\ Talk(l) /\ Truth(l)
-----------------------------------------------------------------------------
\* A launch that has looked for a running server and found none.
Passed(l) == ~Settled(l) /\ father[l] \notin {"open", "lock", "verify", "alive"}

\* What launches that do not overlap know of the PID file and of each other.
Alone ==
  /\ \A k, l \in Launch : ~Settled(k) /\ ~Settled(l) => k = l
  /\ \A k, l \in Launch : Passed(l) /\ daemon[k] = "run" => k = l
Named ==
  /\ \A k, l \in Launch : father[l] \in {"lock", "verify"} /\ daemon[k] = "run" => fd[l] = path
  /\ \A l \in Launch : daemon[l] \in {"lock", "write", "unlock"} => path = fd[l] /\ path # Nil
  /\ \A l \in Launch : daemon[l] = "unlock" => content[fd[l]] = l

Server == OneServer /\ (Excused \/ (Alone /\ Named))

LaunchInv == LaunchTypes /\ (\A l \in Launch : Handshake(l)) /\ Server
-----------------------------------------------------------------------------
\* The kinds of process whose end of a launch Kill brings about.
KillChild(l) == Kill(l, "child")
KillDaemon(l) == Kill(l, "daemon")
KillFather(l) == Kill(l, "father")

StepOf(l) == Begin(l) \/ Father(l) \/ CheckFails(l) \/ Child(l) \/ Second(l) \/ Stop(l) \/ Reuse(l)
           \/ KillChild(l) \/ KillDaemon(l) \/ KillFather(l)

LEMMA NextIsStep == DaemonNext <=> \E l \in Launch : StepOf(l)
BY DEF DaemonNext, StepOf, KillChild, KillDaemon, KillFather

\* A step of a launch leaves the processes and the talk of every other alone.
Elsewhere(l) ==
  \A k \in Launch \ {l} :
    /\ father'[k] = father[k] /\ child'[k] = child[k] /\ daemon'[k] = daemon[k]
    /\ pipe'[k] = pipe[k] /\ writers'[k] = writers[k] /\ result'[k] = result[k]
    /\ fd'[k] = fd[k]

LEMMA StepIsLocal ==
  ASSUME LaunchTypes, NEW l \in Launch, StepOf(l)
  PROVE  Elsewhere(l)
<1> USE DEF Elsewhere, LaunchTypes, At, procs, talk, files, bounds
<1>1. CASE Begin(l)  BY <1>1 DEF Begin
<1>2. CASE Father(l)
  BY <1>2 DEF Father, CheckOpens, CheckLocks, CheckVerifies, CheckUnlinks,
     CheckEnds, UnlockAndClose, ForkFails, Fork, FatherWaits, FatherReads,
     FatherEnds
<1>3. CASE Child(l)
  BY <1>3 DEF Child, ChildFails, ChildForks, ChildExits, Hear, Drops
<1>4. CASE Second(l)
  BY <1>4 DEF Second, DaemonFails, DaemonTells, DaemonCloses, CreateOpens,
     CreateLocks, CreateWrites, CreateEnds, CreateFails, UnlockAndClose, Hear, Drops
<1>5. CASE Stop(l)  BY <1>5 DEF Stop
<1>6. CASE Reuse(l)  BY <1>6 DEF Reuse
<1>7. CASE KillChild(l) \/ KillDaemon(l) \/ KillFather(l)
  BY <1>7 DEF KillChild, KillDaemon, KillFather, Kill, Drops, UnlockAndClose
<1>8. CASE CheckFails(l)  BY <1>8 DEF CheckFails
<1> QED
  BY <1>1, <1>2, <1>3, <1>4, <1>5, <1>6, <1>7, <1>8 DEF StepOf

LEMMA TypeInit == DaemonInit => LaunchTypes
<1> SUFFICES ASSUME DaemonInit PROVE LaunchTypes  OBVIOUS
<1>1. father \in [Launch -> FatherPlaces] /\ child \in [Launch -> ChildPlaces]
      /\ daemon \in [Launch -> DaemonPlaces]
  BY DEF DaemonInit, FatherPlaces, ChildPlaces, DaemonPlaces
<1>2. pipe \in [Launch -> Seq({"failed", "pid"})]
  <2>1. <<>> \in Seq({"failed", "pid"})  OBVIOUS
  <2> QED  BY <2>1 DEF DaemonInit
<1>3. /\ result \in [Launch -> {Nil, "refused", "failed", "pid"}]
      /\ writers \in [Launch -> SUBSET {"father", "child", "daemon"}]
      /\ fd \in [Launch -> File \cup {Nil}] /\ overlap \in BOOLEAN /\ misled \in BOOLEAN
  BY DEF DaemonInit
<1>4. path \in File \cup {Nil} /\ content \in [File -> File \cup {Nil, "empty", "corrupt"}]
  BY DEF DaemonInit, File
<1> QED  BY <1>1, <1>2, <1>3, <1>4 DEF LaunchTypes

LEMMA HearType ==
  ASSUME NEW l \in Launch, NEW x \in {"failed", "pid"}, Hear(l, x),
         pipe \in [Launch -> Seq({"failed", "pid"})]
  PROVE  pipe' \in [Launch -> Seq({"failed", "pid"})]
BY DEF Hear

LEMMA TypeStep ==
  ASSUME LaunchTypes, NEW l \in Launch, StepOf(l)
  PROVE  LaunchTypes'
<1> USE DEF LaunchTypes, At, procs, talk, files, bounds, FatherPlaces, ChildPlaces, DaemonPlaces, File
<1>1. CASE Begin(l)  BY <1>1 DEF Begin
<1>2. CASE Father(l)
  <2>1. CASE CheckOpens(l)  BY <2>1 DEF CheckOpens
  <2>2. CASE CheckLocks(l)  BY <2>2 DEF CheckLocks
  <2>3. CASE CheckVerifies(l)  BY <2>3 DEF CheckVerifies
  <2>4. CASE CheckUnlinks(l)  BY <2>4 DEF CheckUnlinks, Unlink
  <2>5. CASE CheckEnds(l)  BY <2>5 DEF CheckEnds, UnlockAndClose
  <2>6. CASE ForkFails(l)  BY <2>6 DEF ForkFails
  <2>7. CASE Fork(l)  BY <2>7 DEF Fork
  <2>8. CASE FatherWaits(l)  BY <2>8 DEF FatherWaits
  <2>9. CASE FatherReads(l)
    <3>1. Answer(l) \in {"failed", "pid"}  BY DEF Answer
    <3> QED  BY <2>9, <3>1 DEF FatherReads
  <2>10. CASE FatherEnds(l)  BY <2>10 DEF FatherEnds
  <2> QED  BY <1>2, <2>1, <2>2, <2>3, <2>4, <2>5, <2>6, <2>7, <2>8, <2>9, <2>10 DEF Father
<1>3. CASE Child(l)
  <2>1. CASE ChildFails(l)  BY <2>1, HearType DEF ChildFails, Drops
  <2>2. CASE ChildForks(l)  BY <2>2 DEF ChildForks
  <2>3. CASE ChildExits(l)  BY <2>3 DEF ChildExits, Drops
  <2> QED  BY <1>3, <2>1, <2>2, <2>3 DEF Child
<1>4. CASE Second(l)
  <2>1. CASE DaemonFails(l)  BY <2>1, HearType DEF DaemonFails, Drops
  <2>2. CASE DaemonTells(l)  BY <2>2, HearType DEF DaemonTells
  <2>3. CASE DaemonCloses(l)  BY <2>3 DEF DaemonCloses, Drops
  <2>4. CASE CreateOpens(l)  BY <2>4 DEF CreateOpens
  <2>5. CASE CreateLocks(l)  BY <2>5 DEF CreateLocks
  <2>6. CASE CreateWrites(l)  BY <2>6 DEF CreateWrites
  <2>7. CASE CreateEnds(l)  BY <2>7 DEF CreateEnds, UnlockAndClose
  <2>8. CASE CreateFails(l)  BY <2>8 DEF CreateFails, UnlockAndClose, Unlink
  <2> QED  BY <1>4, <2>1, <2>2, <2>3, <2>4, <2>5, <2>6, <2>7, <2>8 DEF Second
<1>5. CASE Stop(l)  BY <1>5 DEF Stop, Unlink
<1>6. CASE Reuse(l)  BY <1>6 DEF Reuse
<1>7. CASE KillChild(l)  BY <1>7 DEF KillChild, Kill, Drops
<1>8. CASE KillDaemon(l)  BY <1>8 DEF KillDaemon, Kill, Drops, UnlockAndClose
<1>9. CASE KillFather(l)  BY ZenonT(30), <1>9 DEF KillFather, Kill, Drops, UnlockAndClose
<1>10. CASE CheckFails(l)  BY <1>10 DEF CheckFails
<1> QED
  BY <1>1, <1>2, <1>3, <1>4, <1>5, <1>6, <1>7, <1>8, <1>9, <1>10 DEF StepOf
-----------------------------------------------------------------------------
\* What is written behind the head of a pipe does not change its answer.
LEMMA HearHead ==
  ASSUME LaunchTypes, NEW l \in Launch, NEW x \in {"failed", "pid"}, Hear(l, x)
  PROVE  /\ pipe'[l] # <<>>
         /\ Head(pipe'[l]) = IF pipe[l] = <<>> THEN x ELSE Head(pipe[l])
<1>1. pipe[l] \in Seq({"failed", "pid"})  BY DEF LaunchTypes
<1>2. pipe'[l] = Append(pipe[l], x)  BY DEF LaunchTypes, Hear
<1>3. ASSUME NEW q \in Seq({"failed", "pid"})
      PROVE  /\ Append(q, x) # <<>>
             /\ Head(Append(q, x)) = IF q = <<>> THEN x ELSE Head(q)
  <2>1. Append(q, x) \in Seq({"failed", "pid"}) /\ Len(Append(q, x)) = Len(q) + 1  OBVIOUS
  <2>2. Append(q, x) # <<>>  BY <2>1
  <2>3. Head(Append(q, x)) = Append(q, x)[1]  BY <2>1
  <2>4. CASE q = <<>>  BY <2>2, <2>3, <2>4
  <2>5. CASE q # <<>>
    <3>1. Len(q) \in Nat \ {0}  BY <2>5
    <3>2. Append(q, x)[1] = q[1] /\ Head(q) = q[1]  BY <3>1
    <3> QED  BY <2>2, <2>3, <2>5, <3>2
  <2> QED  BY <2>4, <2>5
<1> QED  BY <1>1, <1>2, <1>3

\* The pipe of a launch whose step says nothing is as it was.
LEMMA PipeType ==
  ASSUME LaunchTypes, NEW l \in Launch
  PROVE  pipe[l] = <<>> \/ Head(pipe[l]) \in {"failed", "pid"}
<1>1. pipe[l] \in Seq({"failed", "pid"})  BY DEF LaunchTypes
<1> QED  BY <1>1

LEMMA HandshakeInit == DaemonInit => \A l \in Launch : Handshake(l)
<1> SUFFICES ASSUME DaemonInit, NEW l \in Launch PROVE Handshake(l)  OBVIOUS
<1>1. /\ father[l] = "none" /\ child[l] = "none" /\ daemon[l] = "none"
      /\ pipe[l] = <<>> /\ result[l] = Nil
  BY DEF DaemonInit
<1> QED  BY <1>1, DaemonAssumption DEF Handshake, Forked, Talk, Truth, HasTold, Checking

LEMMA HandshakeStep ==
  ASSUME LaunchTypes, NEW l \in Launch, StepOf(l), Handshake(l)
  PROVE  Handshake(l)'
<1> USE DEF LaunchTypes, At, procs, talk, files, bounds, Handshake, Forked, Talk, Truth, HasTold, Checking
<1>1. CASE Begin(l)  BY <1>1 DEF Begin
<1>2. CASE Father(l)
  <2>1. CASE CheckOpens(l)  BY <2>1 DEF CheckOpens
  <2>2. CASE CheckLocks(l)  BY <2>2 DEF CheckLocks
  <2>3. CASE CheckVerifies(l)  BY <2>3 DEF CheckVerifies
  <2>4. CASE CheckUnlinks(l)  BY <2>4 DEF CheckUnlinks, Unlink
  <2>5. CASE CheckEnds(l)  BY <2>5 DEF CheckEnds, UnlockAndClose
  <2>6. CASE ForkFails(l)  BY <2>6 DEF ForkFails
  <2>7. CASE Fork(l)  BY <2>7, DaemonAssumption DEF Fork
  <2>8. CASE FatherWaits(l)  BY <2>8 DEF FatherWaits
  <2>9. CASE FatherReads(l)
    <3>1. /\ father[l] = "read" /\ father'[l] = "returned" /\ result'[l] = Answer(l)
          /\ UNCHANGED <<child, daemon, pipe, writers>>
          /\ pipe[l] # <<>> \/ writers[l] = {}
      BY <2>9 DEF FatherReads
    <3>2. Answer(l) = "failed" => daemon[l] \in {"none", "gone"}
      <4>1. CASE pipe[l] = <<>>
        <5>1. daemon[l] \notin {"setup", "told"} /\ ~HasTold(l)  BY <3>1, <4>1
        <5>2. daemon[l] \in DaemonPlaces  OBVIOUS
        <5> QED  BY <5>1, <5>2 DEF DaemonPlaces
      <4>2. CASE pipe[l] # <<>>  BY <4>2 DEF Answer
      <4> QED  BY <4>1, <4>2
    <3>3. Answer(l) = "pid" => daemon[l] \notin {"none", "setup"}  BY DEF Answer
    <3> HIDE DEF Answer
    <3> QED  BY <3>1, <3>2, <3>3
  <2>10. CASE FatherEnds(l)  BY <2>10 DEF FatherEnds
  <2> QED  BY <1>2, <2>1, <2>2, <2>3, <2>4, <2>5, <2>6, <2>7, <2>8, <2>9, <2>10 DEF Father
<1>3. CASE Child(l)
  <2>1. CASE ChildFails(l)  BY <2>1, HearHead DEF ChildFails, Drops
  <2>2. CASE ChildForks(l)  BY <2>2 DEF ChildForks
  <2>3. CASE ChildExits(l)  BY <2>3 DEF ChildExits, Drops
  <2> QED  BY <1>3, <2>1, <2>2, <2>3 DEF Child
<1>4. CASE Second(l)
  <2>1. CASE DaemonFails(l)  BY <2>1, HearHead DEF DaemonFails, Drops
  <2>2. CASE DaemonTells(l)  BY <2>2, HearHead DEF DaemonTells
  <2>3. CASE DaemonCloses(l)  BY <2>3 DEF DaemonCloses, Drops
  <2>4. CASE CreateOpens(l)  BY <2>4 DEF CreateOpens
  <2>5. CASE CreateLocks(l)  BY <2>5 DEF CreateLocks
  <2>6. CASE CreateWrites(l)  BY <2>6 DEF CreateWrites
  <2>7. CASE CreateEnds(l)  BY <2>7 DEF CreateEnds, UnlockAndClose
  <2>8. CASE CreateFails(l)  BY <2>8 DEF CreateFails, UnlockAndClose, Unlink
  <2> QED  BY <1>4, <2>1, <2>2, <2>3, <2>4, <2>5, <2>6, <2>7, <2>8 DEF Second
<1>5. CASE Stop(l)  BY <1>5 DEF Stop, Unlink
<1>6. CASE Reuse(l)  BY <1>6 DEF Reuse
<1>7. CASE KillChild(l)  BY <1>7 DEF KillChild, Kill, Drops
<1>8. CASE KillDaemon(l)  BY <1>8 DEF KillDaemon, Kill, Drops, UnlockAndClose
<1>9. CASE KillFather(l)  BY <1>9 DEF KillFather, Kill, Drops, UnlockAndClose
<1>10. CASE CheckFails(l)  BY <1>10 DEF CheckFails
<1> QED
  BY <1>1, <1>2, <1>3, <1>4, <1>5, <1>6, <1>7, <1>8, <1>9, <1>10 DEF StepOf
-----------------------------------------------------------------------------
\* Most steps of a launch neither touch the PID file nor bring the launch past the
\* check, behind its end or to a running server.
Checked == {"lock", "verify"}
Creating == {"lock", "write", "unlock"}
Quiet(l) ==
  /\ overlap' = overlap /\ misled' = misled /\ path' = path /\ content' = content
  /\ Settled(l) => Settled(l)'
  /\ Passed(l)' => Passed(l)
  /\ daemon'[l] = "run" => daemon[l] = "run"
  /\ father'[l] \in Checked => father[l] \in Checked /\ fd'[l] = fd[l]
  /\ daemon'[l] \in Creating => daemon[l] \in Creating /\ fd'[l] = fd[l]
  /\ daemon'[l] = "unlock" => daemon[l] = "unlock"

QuietStep(l) ==
  \/ CheckLocks(l) \/ CheckEnds(l) \/ ForkFails(l) \/ Fork(l) \/ FatherWaits(l)
  \/ FatherReads(l) \/ FatherEnds(l) \/ Child(l) \/ DaemonFails(l) \/ DaemonTells(l)
  \/ DaemonCloses(l) \/ CreateLocks(l) \/ Reuse(l)
  \/ KillChild(l) \/ KillDaemon(l) \/ KillFather(l)

LEMMA QuietStepIsQuiet ==
  ASSUME LaunchTypes, NEW l \in Launch, Handshake(l), QuietStep(l)
  PROVE  Quiet(l)
<1> USE DEF LaunchTypes, At, procs, talk, files, bounds, Quiet, Settled, Passed, Checked, Creating
<1> USE DEF Handshake, Forked, Checking
<1>1. CASE CheckLocks(l)  BY <1>1 DEF CheckLocks
<1>2. CASE CheckEnds(l)  BY <1>2 DEF CheckEnds, UnlockAndClose
<1>3. CASE ForkFails(l)  BY <1>3 DEF ForkFails
<1>4. CASE Fork(l)  BY <1>4 DEF Fork
<1>5. CASE FatherWaits(l)  BY <1>5 DEF FatherWaits
<1>6. CASE FatherReads(l)  BY <1>6 DEF FatherReads
<1>7. CASE FatherEnds(l)  BY <1>7 DEF FatherEnds
<1>8. CASE Child(l)
  BY <1>8 DEF Child, ChildFails, ChildForks, ChildExits
<1>9. CASE DaemonFails(l)  BY <1>9 DEF DaemonFails
<1>10. CASE DaemonTells(l)  BY <1>10 DEF DaemonTells
<1>11. CASE DaemonCloses(l)  BY <1>11 DEF DaemonCloses
<1>12. CASE CreateLocks(l)  BY <1>12 DEF CreateLocks
<1>13. CASE Reuse(l)  BY <1>13 DEF Reuse
<1>14. CASE KillChild(l)  BY <1>14 DEF KillChild, Kill
<1>15. CASE KillDaemon(l)  BY <1>15 DEF KillDaemon, Kill, UnlockAndClose
<1>16. CASE KillFather(l)  BY <1>16 DEF KillFather, Kill, UnlockAndClose
<1> QED
  BY <1>1, <1>2, <1>3, <1>4, <1>5, <1>6, <1>7, <1>8, <1>9, <1>10, <1>11, <1>12,
     <1>13, <1>14, <1>15, <1>16 DEF QuietStep

\* What is known of a launch that makes no step, in the terms of the invariant.
LEMMA OthersStay ==
  ASSUME NEW l \in Launch, Elsewhere(l), NEW k \in Launch, k # l
  PROVE  /\ Settled(k)' <=> Settled(k)
         /\ Passed(k)' <=> Passed(k)
         /\ daemon'[k] = daemon[k] /\ father'[k] = father[k] /\ fd'[k] = fd[k]
BY DEF Elsewhere, Settled, Passed

LEMMA QuietKeepsServer ==
  ASSUME NEW l \in Launch, Elsewhere(l), Quiet(l), Server
  PROVE  Server'
<1>1. CASE Excused  BY <1>1 DEF Quiet, Server, OneServer, Excused
<1>2. CASE ~Excused
  <2> USE DEF Excused
  <2>1. OneServer'  BY <1>2, OthersStay DEF Quiet, Server, OneServer
  <2>2. Alone'  BY <1>2, OthersStay DEF Quiet, Server, Alone
  <2>3. Named'  BY <1>2, OthersStay DEF Quiet, Server, Named, Checked, Creating
  <2> QED  BY <2>1, <2>2, <2>3 DEF Server
<1> QED  BY <1>1, <1>2

\* The steps that do: each with what it finds and leaves.
LEMMA BeginKeepsServer ==
  ASSUME LaunchTypes, NEW l \in Launch, Elsewhere(l), Handshake(l), Begin(l), Server
  PROVE  Server'
<1> USE DEF LaunchTypes, procs, talk, files, bounds
<1>1. /\ father[l] = "none" /\ father'[l] = "open"
      /\ UNCHANGED <<daemon, child, path, content, fd>>
      /\ overlap' = (overlap \/ \E k \in Launch \ {l} : ~Settled(k))
      /\ misled' = misled
  BY DEF Begin, At
<1>2. CASE Excused'  BY <1>2 DEF Server, OneServer
<1>3. CASE ~Excused'
  <2>1. ~Excused /\ \A k \in Launch \ {l} : Settled(k)  BY <1>1, <1>3 DEF Excused
  <2>2. OneServer'  BY <1>1, <2>1 DEF Server, OneServer
  <2>3. Alone'  BY <1>1, <2>1, OthersStay DEF Alone, Passed
  <2>4. child[l] = "none" /\ daemon[l] = "none"
    BY <1>1 DEF Handshake, Forked, Checking
  <2>5. Named'  BY <1>1, <2>1, OthersStay DEF Server, Named, Settled
  <2> QED  BY <2>2, <2>3, <2>5 DEF Server
<1> QED  BY <1>2, <1>3

\* A launch that looks for a running server or makes the PID file is not settled,
\* and the daemon of one that makes it has not come to run.
LEMMA Unsettled ==
  ASSUME LaunchTypes, NEW l \in Launch, Handshake(l)
  PROVE  /\ father[l] \in {"open", "lock", "verify", "unlink"} => ~Settled(l) /\ daemon[l] = "none"
         /\ daemon[l] \in {"open", "lock", "write", "unlock"} => Passed(l)
BY DEF LaunchTypes, Handshake, Forked, Checking, Settled, Passed

\* The loud steps of a launch, under which its place and the PID file change.
LEMMA CheckKeepsServer ==
  ASSUME LaunchTypes, NEW l \in Launch, Elsewhere(l), Handshake(l), Server,
         CheckOpens(l) \/ CheckVerifies(l) \/ CheckUnlinks(l)
  PROVE  Server'
<1>1. /\ father[l] \in {"open", "verify", "unlink"}
      /\ UNCHANGED <<child, daemon, content, overlap, misled>>
  BY DEF CheckOpens, CheckVerifies, CheckUnlinks, At, procs, talk, files, bounds
<1>2. ~Settled(l) /\ daemon[l] = "none"  BY <1>1, Unsettled
<1>3. CASE Excused  BY <1>1, <1>3 DEF Server, OneServer, Excused
<1>4. CASE ~Excused
  <2>1. OneServer /\ Alone /\ Named  BY <1>4 DEF Server
  <2>2. \A k \in Launch \ {l} : Settled(k)  BY <1>2, <2>1 DEF Alone
  <2>3. CASE CheckOpens(l)
    <3>1. /\ path' = path /\ fd'[l] = path
          /\ father'[l] = IF path = Nil THEN "daemonise" ELSE "lock"
      BY <2>3 DEF CheckOpens, LaunchTypes
    <3>2. OneServer'  BY <1>1, <2>1, <3>1 DEF OneServer, Excused
    <3>3. path = Nil => \A k \in Launch : daemon[k] # "run"  BY <1>4, <2>1 DEF OneServer
    <3>4. Alone'  BY <1>1, <2>1, <2>2, <3>1, <3>3, OthersStay DEF Alone, Passed
    <3>5. Named'  BY <1>1, <1>2, <2>1, <2>2, <3>1, <3>3, OthersStay DEF Named, Settled
    <3> QED  BY <3>2, <3>4, <3>5 DEF Server
  <2>4. CASE CheckVerifies(l)
    <3>1. /\ path' = path /\ fd' = fd
          /\ father'[l] = IF Alive(content[fd[l]]) THEN "alive" ELSE "unlink"
          /\ father[l] = "verify"
      BY <2>4 DEF CheckVerifies, LaunchTypes, files
    <3>2. ASSUME NEW k \in Launch, daemon[k] = "run"  PROVE father'[l] = "alive"
      <4>1. fd[l] = path /\ content[path] = k  BY <1>4, <2>1, <3>1, <3>2 DEF OneServer, Named
      <4> QED  BY <3>1, <3>2, <4>1 DEF Alive
    <3>3. OneServer'  BY <1>1, <2>1, <3>1 DEF OneServer, Excused
    <3>4. Alone'  BY <1>1, <2>1, <2>2, <3>1, <3>2, OthersStay DEF Alone, Passed
    <3>5. Named'  BY <1>1, <2>1, <3>1, OthersStay DEF Named
    <3> QED  BY <3>3, <3>4, <3>5 DEF Server
  <2>5. CASE CheckUnlinks(l)
    <3>1. fd' = fd /\ father[l] = "unlink" /\ father'[l] = "dead"
      BY <2>5 DEF CheckUnlinks, At, LaunchTypes
    <3>2. Passed(l)  BY <1>2, <3>1 DEF Passed
    <3>3. \A k \in Launch : daemon[k] # "run"  BY <1>2, <2>1, <3>2 DEF Alone
    <3>4. OneServer' /\ Alone'  BY <1>1, <2>2, <3>3, OthersStay DEF OneServer, Alone
    <3>5. Named'  BY <1>1, <1>2, <2>2, <3>1, <3>3, OthersStay DEF Named, Settled
    <3> QED  BY <3>4, <3>5 DEF Server
  <2> QED  BY <2>3, <2>4, <2>5
<1> QED  BY <1>3, <1>4

\* A check that fails while a server runs voids the claim; otherwise the launch
\* passes as it would have, since there is none to find.
LEMMA FailedCheckKeepsServer ==
  ASSUME LaunchTypes, NEW l \in Launch, Elsewhere(l), Handshake(l), Server, CheckFails(l)
  PROVE  Server'
<1>1. /\ father[l] \in {"open", "lock", "verify"}
      /\ father'[l] \in {"daemonise", "dead", "unlink"}
      /\ UNCHANGED <<child, daemon, path, content, fd, overlap>>
      /\ misled' = (misled \/ \E k \in Launch : daemon[k] = "run")
  BY DEF CheckFails, LaunchTypes, At, procs, talk, files, bounds
<1>2. ~Settled(l) /\ daemon[l] = "none"  BY <1>1, Unsettled
<1>3. CASE Excused'  BY <1>3 DEF Server, OneServer
<1>4. CASE ~Excused'
  <2>1. ~Excused /\ \A k \in Launch : daemon[k] # "run"  BY <1>1, <1>4 DEF Excused
  <2>2. Alone /\ Named  BY <2>1 DEF Server
  <2>3. \A k \in Launch \ {l} : Settled(k)  BY <1>2, <2>2 DEF Alone
  <2>4. OneServer' /\ Alone'  BY <1>1, <2>1, <2>3, OthersStay DEF OneServer, Alone
  <2>5. Named'  BY <1>1, <2>1, <2>2 DEF Named
  <2> QED  BY <2>4, <2>5 DEF Server
<1> QED  BY <1>3, <1>4

LEMMA CreateKeepsServer ==
  ASSUME LaunchTypes, NEW l \in Launch, Elsewhere(l), Handshake(l), Server,
         CreateOpens(l) \/ CreateWrites(l) \/ CreateEnds(l) \/ CreateFails(l)
  PROVE  Server'
<1>1. /\ daemon[l] \in {"open", "lock", "write", "unlock"}
      /\ UNCHANGED <<child, father, overlap, misled>>
  BY DEF CreateOpens, CreateWrites, CreateEnds, CreateFails, At, procs, talk, files,
     bounds
<1>2. Passed(l)  BY <1>1, Unsettled
<1>3. CASE Excused  BY <1>1, <1>3 DEF Server, OneServer, Excused
<1>4. CASE ~Excused
  <2>1. OneServer /\ Alone /\ Named  BY <1>4 DEF Server
  <2>2. \A k \in Launch \ {l} : Settled(k)  BY <1>2, <2>1 DEF Alone, Passed
  <2>3. \A k \in Launch : daemon[k] # "run"  BY <1>1, <1>2, <2>1 DEF Alone
  <2>4. \A k \in Launch \ {l} : daemon'[k] \notin {"run", "lock", "write", "unlock"}
    BY <2>2, <2>3, OthersStay DEF Settled
  <2>5. Alone'  BY <2>2, <2>4, OthersStay DEF Alone, Passed
  <2>6. CASE CreateOpens(l)
    <3>1. daemon'[l] = "lock" /\ fd'[l] = path' /\ path' # Nil
      BY <2>6, DaemonAssumption DEF CreateOpens, At, LaunchTypes, File
    <3>2. \A k \in Launch : daemon'[k] # "run" /\ daemon'[k] # "unlock"  BY <2>4, <3>1
    <3>3. OneServer'  BY <3>2 DEF OneServer
    <3>4. Named'  BY <2>4, <3>1, <3>2 DEF Named
    <3> QED  BY <2>5, <3>3, <3>4 DEF Server
  <2>7. CASE CreateWrites(l)
    <3>1. daemon[l] = "write" /\ daemon'[l] = "unlock" /\ UNCHANGED <<path, fd>>
      BY <2>7 DEF CreateWrites, At, LaunchTypes
    <3>2. path = fd[l] /\ path # Nil  BY <2>1, <3>1 DEF Named
    <3>3. content'[fd[l]] = l  BY <2>7, <3>2 DEF CreateWrites, LaunchTypes
    <3> QED  BY <2>4, <2>5, <3>1, <3>2, <3>3, <1>1 DEF OneServer, Named, Server
  <2>8. CASE CreateEnds(l)
    <3>1. daemon[l] = "unlock" /\ daemon'[l] = "run" /\ UNCHANGED <<path, content>>
      BY <2>8 DEF CreateEnds, At, LaunchTypes
    <3>2. path = fd[l] /\ path # Nil /\ content[fd[l]] = l  BY <2>1, <3>1 DEF Named
    <3>3. OneServer'  BY <2>4, <3>1, <3>2 DEF OneServer
    <3>4. \A k \in Launch : father'[k] \notin {"lock", "verify"}
      BY <1>1, <1>2, <2>2 DEF Passed, Settled
    <3>5. Named'  BY <2>4, <3>1, <3>4 DEF Named
    <3> QED  BY <2>5, <3>3, <3>5 DEF Server
  <2>9. CASE CreateFails(l)
    <3>1. daemon'[l] = "gone"  BY <2>9 DEF CreateFails, At, LaunchTypes
    <3> QED  BY <2>4, <2>5, <3>1, <1>1 DEF OneServer, Named, Server
  <2> QED  BY <2>6, <2>7, <2>8, <2>9
<1> QED  BY <1>3, <1>4

LEMMA StopKeepsServer ==
  ASSUME LaunchTypes, NEW l \in Launch, Elsewhere(l), Server, Stop(l),
         \A k \in Launch : Handshake(k)
  PROVE  Server'
<1>1. /\ daemon[l] = "run" /\ daemon'[l] = "gone"
      /\ UNCHANGED <<father, child, content, fd, overlap, misled>>
  BY DEF Stop, At, LaunchTypes, files, talk, bounds
<1>2. CASE Excused  BY <1>1, <1>2 DEF Server, OneServer, Excused
<1>3. CASE ~Excused
  <2>1. OneServer /\ Alone /\ Named  BY <1>3 DEF Server
  <2>2. \A k \in Launch : daemon'[k] # "run"  BY <1>1, <1>3, <2>1, OthersStay DEF OneServer
  <2>3. ASSUME NEW k \in Launch, ~Settled(k)'  PROVE ~Settled(k)
    BY <1>1, <2>3, OthersStay DEF Settled
  <2>4. OneServer' /\ Alone'  BY <1>1, <2>1, <2>2, <2>3 DEF OneServer, Alone
  <2>5. ASSUME NEW k \in Launch  PROVE daemon'[k] \notin {"lock", "write", "unlock"}
    \* Such a launch would have passed the check while l ran.
    <3>1. CASE k = l  BY <1>1, <3>1
    <3>2. CASE k # l
      <4>1. ~Passed(k)  BY <1>1, <2>1, <3>2 DEF Alone
      <4> QED  BY <4>1, <3>2, Unsettled, OthersStay
    <3> QED  BY <3>1, <3>2
  <2> QED  BY <2>2, <2>4, <2>5, <1>1 DEF Named, Server
<1> QED  BY <1>2, <1>3
-----------------------------------------------------------------------------
LEMMA ServerInit == DaemonInit => Server
<1> SUFFICES ASSUME DaemonInit PROVE Server  OBVIOUS
<1>1. \A l \in Launch : father[l] = "none" /\ child[l] = "none" /\ daemon[l] = "none"
  BY DEF DaemonInit
<1> QED  BY <1>1 DEF Server, OneServer, Alone, Named, Passed, Settled

LEMMA LaunchInit == DaemonInit => LaunchInv
BY TypeInit, HandshakeInit, ServerInit DEF LaunchInv

LEMMA LaunchStep ==
  ASSUME LaunchInv, [DaemonNext]_daemonVars
  PROVE  LaunchInv'
<1>1. CASE UNCHANGED daemonVars
  <2> USE <1>1 DEF daemonVars, procs, talk, files, bounds
  <2>1. LaunchTypes'  BY DEF LaunchInv, LaunchTypes
  <2>2. (\A l \in Launch : Handshake(l))'
    BY DEF LaunchInv, Handshake, Forked, Talk, Truth, HasTold
  <2>3. Server'
    BY DEF LaunchInv, Server, OneServer, Excused, Alone, Named, Passed, Settled
  <2> QED  BY <2>1, <2>2, <2>3 DEF LaunchInv
<1>2. ASSUME NEW l \in Launch, StepOf(l)  PROVE LaunchInv'
  <2>1. LaunchTypes /\ Server /\ \A k \in Launch : Handshake(k)  BY DEF LaunchInv
  <2>2. LaunchTypes'  BY <1>2, <2>1, TypeStep
  <2>3. Elsewhere(l)  BY <1>2, <2>1, StepIsLocal
  <2>4. ASSUME NEW k \in Launch  PROVE Handshake(k)'
    <3>1. CASE k = l  BY <1>2, <2>1, <3>1, HandshakeStep
    <3>2. CASE k # l
      BY <2>1, <2>3, <3>2 DEF Elsewhere, Handshake, Forked, Talk, Truth, HasTold
    <3> QED  BY <3>1, <3>2
  <2>5. Server'
    <3>1. CASE QuietStep(l)  BY <2>1, <2>3, <3>1, QuietStepIsQuiet, QuietKeepsServer
    <3>2. CASE Begin(l)  BY <2>1, <2>3, <3>2, BeginKeepsServer
    <3>3. CASE CheckOpens(l) \/ CheckVerifies(l) \/ CheckUnlinks(l)
      BY <2>1, <2>3, <3>3, CheckKeepsServer
    <3>4. CASE CreateOpens(l) \/ CreateWrites(l) \/ CreateEnds(l) \/ CreateFails(l)
      BY <2>1, <2>3, <3>4, CreateKeepsServer
    <3>5. CASE Stop(l)  BY <2>1, <2>3, <3>5, StopKeepsServer
    <3>6. CASE CheckFails(l)  BY <2>1, <2>3, <3>6, FailedCheckKeepsServer
    <3> QED  BY <1>2, <3>1, <3>2, <3>3, <3>4, <3>5, <3>6 DEF StepOf, Father, Second, QuietStep
  <2> QED  BY <2>2, <2>4, <2>5 DEF LaunchInv
<1> QED  BY <1>1, <1>2, NextIsStep

\* The invariant of every behaviour, whether its processes run fairly or not.
LEMMA LaunchesHold == DaemonInit /\ [][DaemonNext]_daemonVars => []LaunchInv
BY LaunchInit, LaunchStep, PTL

LEMMA SpecIsSafe == DaemonSpec => DaemonInit /\ [][DaemonNext]_daemonVars
BY PTL DEF DaemonSpec

\* What the father of a launch hears is the truth (ft_daemonise): a failure means
\* that no daemon is left, a PID that one has been set up.
THEOREM HandshakeIsTrue == DaemonSpec => []HandshakeTrue
<1>1. LaunchInv => HandshakeTrue  BY DEF LaunchInv, Handshake, Truth, HandshakeTrue
<1> QED  BY <1>1, LaunchesHold, SpecIsSafe, PTL

\* Launches that do not overlap never come to two servers, and the PID file names
\* the one that runs, as long as no check fails while there is one
\* (ft_pidfile_is_running, ft_pidfile_create, ft_pidfile_remove).
THEOREM OneServerRuns == DaemonSpec => []OneServer
<1>1. LaunchInv => OneServer  BY DEF LaunchInv, Server
<1> QED  BY <1>1, LaunchesHold, SpecIsSafe, PTL
=============================================================================
