-------------------------------- MODULE Context --------------------------------
(***************************************************************************)
(* The context (src/context.c) and the libev loop it runs: signals and *)
(* timers of its own, which must not keep the loop running, watchers of the *)
(* application, which must, and the polite shutdown.                        *)
(*                                                                         *)
(* An iteration of the loop polls, which makes watchers pending, and invokes *)
(* the pending ones; it runs as long as activecnt is not zero.  "stack" holds *)
(* the callbacks of the application that are running, the innermost first;  *)
(* what they do is up to the module that extends this one.                  *)
(*                                                                         *)
(* An operator that is not reached from Next is the next definition with a  *)
(* bug in it; the properties are known to catch it.                         *)
(***************************************************************************)
EXTENDS Integers, Sequences, FiniteSets

CONSTANTS
  Watcher,      \* the watchers of the application
  Sent,         \* the signals that are sent to the process
  None,
  MaxFired      \* bound: shutdown_counter stays at this value

Sigs      == {"sigint", "sigterm", "sighup"}
Installed == Sigs \cup {"heartbeat", "prepare"}
Internal  == Installed \cup {"shutdown"}

ASSUME WatcherAssumption ==
  Watcher \cap Internal = {} /\ None \notin Watcher /\ IsFiniteSet(Watcher)
ASSUME SentAssumption == Sent \subseteq Sigs
ASSUME ContextBounds == MaxFired \in Nat \ {0}

VARIABLES
  loop,         \* "init", "poll", "invoke", "ended", "finalised" or "killed"
  active,       \* the watchers that are started
  activecnt,    \* libev's count of the references to the loop
  pending,      \* the watchers whose callback is to be called
  caught,       \* signals received and not yet seen by the loop
  running,      \* flags.running
  fired,        \* shutdown_counter
  exits,        \* how often the exit message has been published
  stack         \* the callbacks of the application that are running

contextVars == <<loop, active, activecnt, pending, caught, running, fired, exits, stack>>

Top == IF stack = <<>> THEN "" ELSE stack[1][1]
Call(f, of) == stack' = <<<<f, of>>>> \o stack
Return == stack' = Tail(stack)

\* ev_*_start and ev_*_stop of the watchers ws: starting or stopping again does
\* nothing, and what has been stopped is not invoked any more.
EvStart(ws) ==
  /\ active' = active \cup ws
  /\ activecnt' = activecnt + Cardinality(ws \ active)
EvStop(ws, due) ==
  /\ active' = active \ ws
  /\ activecnt' = activecnt - Cardinality(ws \cap active)
  /\ pending' = due \ ws

\* ft_context_init: an ev_unref follows every start, so none of them counts.
ContextInit ==
  /\ loop = "init" /\ active = Installed
  /\ activecnt = 0 /\ pending = {} /\ caught = {} /\ running = TRUE /\ fired = 0 /\ exits = 0
  /\ stack = <<>>

\* ft_context_fini, which leaves the signal handlers to ev_loop_destroy.
ContextFini ==
  /\ loop = "ended" /\ stack = <<>>
  /\ loop' = "finalised" /\ active' = {} /\ activecnt' = 0 /\ pending' = {}
  /\ UNCHANGED <<caught, running, fired, exits, stack>>

-----------------------------------------------------------------------------
\* ft_context_run enters ev_run, which goes through at least one iteration.
Run ==
  /\ loop = "init" /\ stack = <<>> /\ loop' = "poll"
  /\ UNCHANGED <<active, activecnt, pending, caught, running, fired, exits, stack>>

\* The prepare watcher writes the log; then the poll reports the ready watchers
\* and the signals caught, and the timers that are due (both timers are due at
\* once after they start).  It blocks unless nothing holds the loop.
Poll(ready) ==
  /\ loop = "poll"
  /\ \E timers \in SUBSET ({"heartbeat", "shutdown"} \cap active) :
       /\ pending' = (ready \cup caught \cup timers) \cap active
       /\ pending' # {} \/ activecnt = 0
  /\ caught' = {} /\ loop' = "invoke"
  /\ UNCHANGED <<active, activecnt, running, fired, exits, stack>>

IterationEnds ==
  /\ loop = "invoke" /\ pending = {} /\ stack = <<>>
  /\ loop' = IF activecnt # 0 THEN "poll" ELSE "ended"
  /\ UNCHANGED <<active, activecnt, pending, caught, running, fired, exits, stack>>

\* The loop calls the callback of a pending watcher.
Invoked(w) == loop = "invoke" /\ stack = <<>> /\ w \in pending

\* A signal without a handler kills the process.
Signal(s) ==
  /\ loop \in {"init", "poll", "invoke"} /\ s \in Sent
  /\ \/ s \in active /\ caught' = caught \cup {s} /\ UNCHANGED loop
     \/ s \notin active /\ loop' = "killed" /\ UNCHANGED caught
  /\ UNCHANGED <<active, activecnt, pending, running, fired, exits, stack>>

-----------------------------------------------------------------------------
\* ft_context_stop: the exit message is published, once and before the
\* shutdown timer is there; ExitPublished is what follows its callbacks.
ContextStop ==
  \/ running /\ running' = FALSE /\ exits' = exits + 1 /\ Call("exit", None)
  \/ ~running /\ UNCHANGED <<running, exits, stack>>

ExitPublishedKeepsRef ==
  /\ Top = "told" /\ Return
  /\ EvStart({"shutdown"})
  /\ UNCHANGED <<loop, pending, caught, running, fired, exits>>
ExitPublished ==
  /\ Top = "told" /\ Return
  /\ active' = active \cup {"shutdown"}
  /\ activecnt' = activecnt + Cardinality({"shutdown"} \ active) - 1
  /\ UNCHANGED <<loop, pending, caught, running, fired, exits>>

\* _ft_context_on_sigexit
SigExit(s) ==
  /\ Invoked(s) /\ s \in {"sigint", "sigterm"}
  /\ ContextStop /\ pending' = pending \ {s}
  /\ UNCHANGED <<loop, active, activecnt, caught, fired>>

\* _ft_context_on_sighup goes to the log only.
SigHup ==
  /\ Invoked("sighup") /\ pending' = pending \ {"sighup"}
  /\ UNCHANGED <<loop, active, activecnt, caught, running, fired, exits, stack>>

\* _ft_context_on_shutdown_timer: an ev_ref goes before the stop of every
\* handler that is still active.
ShutdownTimer ==
  /\ Invoked("shutdown")
  /\ fired' = IF fired < MaxFired THEN fired + 1 ELSE fired
  /\ active' = active \ Sigs /\ pending' = pending \ (Sigs \cup {"shutdown"})
  /\ activecnt' = activecnt + Cardinality(Sigs \cap active)
                            - Cardinality(active \cap Sigs)
  /\ UNCHANGED <<loop, caught, running, exits, stack>>

\* _ft_context_on_heartbeat_timer, of a lower priority than everything else.
\* Its message goes to the frame pool.
Heartbeat ==
  /\ Invoked("heartbeat") /\ pending = {"heartbeat"} /\ pending' = {}
  /\ UNCHANGED <<loop, active, activecnt, caught, running, fired, exits, stack>>

ContextHandler ==
  SigHup \/ ShutdownTimer \/ Heartbeat \/ \E s \in Sigs : SigExit(s)
=============================================================================
