------------------------------- MODULE Listener -------------------------------
(***************************************************************************)
(* A list of listeners (src/sock/listener.c) in the loop of a context, from *)
(* their creation through the polite shutdown to the end of the process.   *)
(*                                                                         *)
(* The kernel queues connections to a listening socket, whether the listener *)
(* is started or not.  A connection the application takes becomes a stream, *)
(* of which only the reference to the loop matters here: Stream has the     *)
(* rest.  Applications call the library before ft_context_run, from their   *)
(* callbacks and after it (InApplication).                                  *)
(*                                                                         *)
(* An operator that is not reached from Next is the next definition with a  *)
(* bug in it; the properties are known to catch it.                         *)
(***************************************************************************)
EXTENDS Context

CONSTANTS
  Lst, Conn,    \* listeners and connections
  Mute          \* listeners whose delegate has no accept callback

ASSUME ListenerAssumption ==
  Watcher = Lst \cup Conn /\ Lst \cap Conn = {} /\ Mute \subseteq Lst

VARIABLES
  list,         \* the listeners in the list: their descriptors are open
  listening,    \* flag of the listeners, set once listen() has succeeded
  wanted,       \* the listeners that the application has started
  queue,        \* the connections queued in the kernel
  conn          \* what has become of each connection

listVars == <<list, listening, wanted>>
connVars == <<queue, conn>>
vars == <<contextVars, listVars, connVars>>

Queued == UNION {queue[l] : l \in Lst}
Open(c) == conn[c] \in {"stream", "eof"}

InApplication ==
  \/ loop = "init"
  \/ loop = "invoke" /\ stack # <<>>

-----------------------------------------------------------------------------
\* ft_listener_init makes and binds a socket, which may fail for any listener.
Initialised == SUBSET (Lst \ list)

\* ft_listener_list_extend: those that ft_listener_init succeeds for are
\* appended; one that fails does not keep the others out.
ListExtend ==
  /\ InApplication /\ running
  /\ \E new \in Initialised : list' = list \cup new
  /\ UNCHANGED <<contextVars, listening, wanted, connVars>>

\* ft_listener_list_cntl(FT_LISTENER_START): one whose listen() fails does not
\* stop the others from being started.  No application starts to listen once
\* it has been told to exit.
ListStart ==
  /\ InApplication /\ running
  /\ \E failed \in SUBSET (list \ listening) :
       /\ listening' = listening \cup (list \ failed)
       /\ wanted' = wanted \cup (list \ failed)
       /\ EvStart(list \ failed)
  /\ UNCHANGED <<loop, pending, caught, running, fired, exits, stack, list, connVars>>

\* ft_listener_list_cntl(FT_LISTENER_STOP)
ListStopFirst ==
  /\ \E l \in list : EvStop({l}, pending) /\ wanted' = wanted \ {l}
  /\ UNCHANGED <<list, listening, connVars>>
ListStop ==
  /\ EvStop(list, pending) /\ wanted' = wanted \ list
  /\ UNCHANGED <<list, listening, connVars>>

AppStopsListening ==
  /\ InApplication /\ ListStop
  /\ UNCHANGED <<loop, caught, running, fired, exits, stack>>

\* ft_list_remove, which calls ft_listener_fini: the kernel resets whoever is
\* still queued.  Not from inside the listener's own callback, where the caller
\* goes on to use it.
ListRemove(l) ==
  /\ InApplication \/ loop = "ended"
  /\ l \in list /\ \A i \in DOMAIN stack : stack[i][1] # "accept"
  /\ EvStop({l}, pending)
  /\ list' = list \ {l} /\ listening' = listening \ {l} /\ wanted' = wanted \ {l}
  /\ queue' = [queue EXCEPT ![l] = {}]
  /\ conn' = [c \in Conn |-> IF c \in queue[l] THEN "closed" ELSE conn[c]]
  /\ UNCHANGED <<loop, caught, running, fired, exits, stack>>

-----------------------------------------------------------------------------
\* _ft_listener_on_io
AcceptOneShot(l, c) ==
  /\ Invoked(l) /\ c \in queue[l]
  /\ EvStop({l}, pending)
  /\ queue' = [queue EXCEPT ![l] = @ \ {c}]
  /\ conn' = [conn EXCEPT ![c] = IF l \in Mute THEN "closed" ELSE "accepted"]
  /\ IF l \in Mute THEN UNCHANGED stack ELSE Call("accept", c)
  /\ UNCHANGED <<loop, caught, running, fired, exits, listVars>>
Accept(l, c) ==
  /\ Invoked(l) /\ c \in queue[l]
  /\ pending' = pending \ {l}
  /\ queue' = [queue EXCEPT ![l] = @ \ {c}]
  /\ \/ l \in Mute /\ conn' = [conn EXCEPT ![c] = "closed"] /\ UNCHANGED stack
     \/ l \notin Mute /\ conn' = [conn EXCEPT ![c] = "accepted"] /\ Call("accept", c)
  /\ UNCHANGED <<loop, active, activecnt, caught, running, fired, exits, listVars>>

\* accept() fails, for want of a connection or of a descriptor: the watcher
\* stays and the loop tries again.
AcceptFails(l) ==
  /\ Invoked(l) /\ pending' = pending \ {l}
  /\ UNCHANGED <<loop, active, activecnt, caught, running, fired, exits, stack,
                 listVars, connVars>>

\* The accept callback returns true and has a stream, which watches the
\* connection, or false, and the listener closes the descriptor.
AcceptReturns ==
  /\ Top = "accept" /\ Return
  /\ LET c == stack[1][2]
     IN \/ conn' = [conn EXCEPT ![c] = "stream"] /\ EvStart({c})
        \/ conn' = [conn EXCEPT ![c] = "closed"] /\ UNCHANGED <<active, activecnt>>
  /\ UNCHANGED <<loop, pending, caught, running, fired, exits, listVars, queue>>

-----------------------------------------------------------------------------
\* The application: a callback of a stream, which ends with the stream if the
\* peer has closed it or the application decides so.
StreamEvent(c) ==
  /\ Invoked(c) /\ pending' = pending \ {c} /\ Call("stream", c)
  /\ UNCHANGED <<loop, active, activecnt, caught, running, fired, exits,
                 listVars, connVars>>

Close(c) == conn' = [conn EXCEPT ![c] = "closed"] /\ EvStop({c}, pending)

StreamReturns ==
  /\ Top = "stream" /\ Return
  /\ LET c == stack[1][2]
     IN \/ Close(c)
        \/ conn[c] = "stream" /\ UNCHANGED <<conn, active, activecnt, pending>>
  /\ UNCHANGED <<loop, caught, running, fired, exits, listVars, queue>>

\* ft_stream_fini from elsewhere.
StreamFini(c) ==
  /\ InApplication \/ loop = "ended"
  /\ Open(c) /\ <<"stream", c>> \notin {stack[i] : i \in DOMAIN stack}
  /\ Close(c)
  /\ UNCHANGED <<loop, caught, running, fired, exits, stack, listVars, queue>>

\* ft_context_stop from any callback, the one of the exit message included.
AppStopsContext ==
  /\ InApplication /\ ContextStop
  /\ UNCHANGED <<loop, active, activecnt, pending, caught, fired, listVars, connVars>>

\* The subscriber to the exit message stops all listeners, as every program of
\* the repository does.
OnExit ==
  /\ Top = "exit" /\ stack' = <<<<"told", None>>>> \o Tail(stack)
  /\ ListStop
  /\ UNCHANGED <<loop, caught, running, fired, exits>>

-----------------------------------------------------------------------------
\* The kernel and the peers.
Connect(c, l) ==
  /\ loop \in {"init", "poll", "invoke"}
  /\ conn[c] = "new" /\ c \notin Queued /\ l \in listening
  /\ queue' = [queue EXCEPT ![l] = @ \cup {c}]
  /\ UNCHANGED <<contextVars, listVars, conn>>

PeerGivesUp(c, l) ==
  /\ loop \in {"init", "poll", "invoke"} /\ c \in queue[l]
  /\ queue' = [queue EXCEPT ![l] = @ \ {c}] /\ conn' = [conn EXCEPT ![c] = "closed"]
  /\ UNCHANGED <<contextVars, listVars>>

PeerCloses(c) ==
  /\ loop \in {"init", "poll", "invoke"} /\ conn[c] = "stream"
  /\ conn' = [conn EXCEPT ![c] = "eof"]
  /\ UNCHANGED <<contextVars, listVars, queue>>

\* Descriptors are reported as long as there is something to do for them.
PollDescriptors ==
  /\ \E busy \in SUBSET {c \in Conn : conn[c] = "stream"} :
       Poll({l \in Lst : queue[l] # {}} \cup {c \in Conn : conn[c] = "eof"} \cup busy)
  /\ UNCHANGED <<listVars, connVars>>

-----------------------------------------------------------------------------
Init ==
  /\ ContextInit
  /\ list = {} /\ listening = {} /\ wanted = {}
  /\ queue = [l \in Lst |-> {}] /\ conn = [c \in Conn |-> "new"]

Handler ==
  \/ ContextHandler /\ UNCHANGED <<listVars, connVars>>
  \/ \E l \in Lst : AcceptFails(l) \/ \E c \in Conn : Accept(l, c)
  \/ \E c \in Conn : StreamEvent(c)

Returns ==
  \/ AcceptReturns \/ StreamReturns \/ OnExit
  \/ ExitPublished /\ UNCHANGED <<listVars, connVars>>

LoopStep == (Run \/ IterationEnds) /\ UNCHANGED <<listVars, connVars>>

\* The listeners and the streams are finalised before the context is.
Fini ==
  /\ list = {} /\ \A c \in Conn : ~Open(c)
  /\ ContextFini /\ UNCHANGED <<listVars, connVars>>

Application ==
  \/ ListExtend \/ ListStart \/ AppStopsListening \/ AppStopsContext \/ Fini
  \/ \E l \in Lst : ListRemove(l)
  \/ \E c \in Conn : StreamFini(c)

Outside ==
  \/ \E s \in Sent : Signal(s) /\ UNCHANGED <<listVars, connVars>>
  \/ \E c \in Conn : PeerCloses(c) \/ \E l \in Lst : Connect(c, l) \/ PeerGivesUp(c, l)

Next == Handler \/ Returns \/ LoopStep \/ PollDescriptors \/ Application \/ Outside

\* The loop goes on and callbacks return; peers do not keep connections for
\* ever, and accept() does not fail for ever while there is one to accept.
Spec == Init /\ [][Next]_vars
FairSpec ==
  /\ Spec
  /\ WF_vars(Handler) /\ WF_vars(Returns) /\ WF_vars(LoopStep) /\ WF_vars(PollDescriptors)
  /\ \A c \in Conn : WF_vars(PeerCloses(c))
  /\ \A l \in Lst : SF_vars(\E c \in Conn : Accept(l, c))

-----------------------------------------------------------------------------
\* The watchers of the context never hold the loop, and each started listener
\* and open stream does, through the starts, stops, ev_ref and ev_unref of the
\* whole life of the context: a count too high is a process that never exits,
\* one too low a server that exits with connections open or, below zero, a loop
\* that never ends.
LoopCountsApplication == activecnt = Cardinality(active \cap Watcher)

\* Once the exit message has been handled, no connection is accepted any more,
\* not even one that was reported in the same iteration of the loop.
Told == exits > 0 /\ \A i \in DOMAIN stack : stack[i][1] # "exit"
NoAcceptAfterExit == [][Told => \A l \in Lst : queue'[l] = queue[l] \/ ~Invoked(l)]_vars

\* After ft_context_stop the loop ends: no watcher of the library holds it.
LoopEnds == ~running ~> loop \in {"ended", "finalised", "killed"}

\* A connection queued at a listener that stays started is accepted in the end.
EveryoneAccepted ==
  \A l \in Lst, c \in Conn :
    c \in queue[l] ~> c \notin queue[l] \/ l \notin wanted \/ loop \in {"ended", "killed"}
=============================================================================
