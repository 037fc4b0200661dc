--------------------------------- MODULE Dgram ---------------------------------
(***************************************************************************)
(* A datagram socket of libft (src/sock/dgram.c and ft_dgram_cntl of       *)
(* include/ft/sock/dgram.h): a read watcher and the frame whose vecs each   *)
(* take one datagram, a write watcher and the queue of frames whose vecs    *)
(* are each sent as one, flushing, and the shutdown that an error, an empty *)
(* datagram or an end-of-stream frame brings about.                        *)
(*                                                                         *)
(* As in Stream, "stack" holds the running functions of dgram.c and the     *)
(* application runs in its callbacks and between the turns of the event    *)
(* loop.  What sendmsg() and recvmsg() return is the kernel's choice: they  *)
(* may fail at any time, and sendmsg() does on a socket that was shut down; *)
(* a descriptor reported readable may have nothing to read.  A datagram is  *)
(* sent whole or not at all; a sendmsg() that returns 0 has the effect of   *)
(* one that has to be tried again.                                         *)
(*                                                                         *)
(* An operator that is not reached from Next is the next definition with a *)
(* bug in it; the properties are known to catch it.                        *)
(***************************************************************************)
EXTENDS Integers, Sequences, FiniteSets, SequencesExt

CONSTANTS
  MoreVecs,       \* vecs of a read frame after the first one
  MaxLoops,       \* ft_config.sock_est_max_read_loops, of both loops (10)
  Kinds,          \* the frames the application writes
  Cntl,           \* the control codes and calls the application makes
  MaxDatagrams,   \* bound: datagrams that arrive
  MaxWrites,      \* bound: frames the application writes
  MaxPause,       \* bound: read_pause_level
  MaxDepth        \* bound: functions of the socket running at once

ASSUME DgramBounds ==
  /\ MoreVecs \in Nat /\ MaxLoops \in Nat \ {0} /\ MaxDatagrams \in Nat
  /\ MaxWrites \in Nat /\ MaxPause \in Nat \ {0} /\ MaxDepth \in Nat \ {0}

VARIABLES
  phase,          \* "open", "fini", or "assert": an assertion failed
  stack,          \* the running functions, the innermost first
  bind, connect, shutdown, sysErrno,
  noFrames,       \* read_paused_noframes, which ft_dgram_init does not set
  pauseLevel, readWant, readWatch,
  readFrame,      \* datagrams in the frame being filled, or NoFrame
  writeOpen, writeReady, writeWant, writeWatch,
  queue,          \* write_frames and the frames chained to it
  tail,           \* where write_frame_last points: 0 for &write_frames, or to
                  \* the next pointer of the frame with that number
  inbox,          \* datagrams waiting to be received, TRUE for an empty one
  \* history
  received,       \* datagrams received so far
  offered,        \* datagrams the application has been handed
  eosIn,          \* end-of-stream frames the application has been handed
  accepted,       \* kinds of the frames ft_dgram_write has accepted
  wire,           \* what was sent: the frame, its vec, and the control vec
  lost,           \* frames given up by an error of sendmsg()
  stalled,        \* a frame was lost and nothing has been sent or written since
  stopped         \* the application has called FT_DGRAM_WRITE_STOP

sockVars  == <<bind, connect, shutdown, sysErrno>>
readVars  == <<noFrames, pauseLevel, readWant, readWatch, readFrame>>
watchVars == <<writeWant, writeWatch>>
queueVars == <<queue, tail>>
readHist  == <<inbox, received, offered, eosIn>>
writeHist == <<accepted, wire, lost, stalled, stopped>>
vars == <<phase, stack, sockVars, readVars, writeOpen, writeReady, watchVars,
          queueVars, readHist, writeHist>>

NoFrame == -1

\* A running function, the turns its loop has taken or a flag it has saved.
Act(at, n) == [at |-> at, n |-> n]
Callbacks == {"read:full", "read:eos", "error"}
Top == IF stack = <<>> THEN "event_loop" ELSE stack[1].at
Running(at) == phase = "open" /\ Top = at
Return == stack' = Tail(stack)
Become(acts) == stack' = acts \o Tail(stack)
Call(acts) == Len(stack) + Len(acts) <= MaxDepth /\ stack' = acts \o stack

AppRuns == phase = "open" /\ (stack = <<>> \/ Top \in Callbacks)
\* dgram.h:15, "Don't use this for close() or shutdown".
AppMayShutdown == AppRuns /\ Top # "error"
-----------------------------------------------------------------------------
\* Watchers.
ReadSetEvent(want) ==
  /\ readWant' = (readWant \/ want)
  /\ readWatch' = (readWatch \/ (readWant' /\ pauseLevel' = 0 /\ ~shutdown'))
ReadUnsetEvent(unwant) ==
  /\ readWant' = (readWant /\ ~unwant)
  /\ readWatch' = (readWatch /\ readWant' /\ ~shutdown' /\ pauseLevel' = 0)
WriteSetEvent   == writeWant' = TRUE /\ writeWatch' = TRUE
WriteUnsetEvent == writeWant' = FALSE /\ writeWatch' = FALSE

Pause ==
  /\ pauseLevel < MaxPause
  /\ pauseLevel' = pauseLevel + 1
  /\ IF pauseLevel' = 1 THEN ReadUnsetEvent(FALSE)
     ELSE UNCHANGED <<readWant, readWatch>>

\* _ft_dgram_shutdown_real stops the reading and closes the queue for more
\* frames; the frames that are in it stay there.
ShutDownKeepsReading ==
  /\ shutdown' = TRUE /\ writeOpen' = FALSE
  /\ UNCHANGED <<readWant, readWatch>>

ShutDown ==
  /\ shutdown' = TRUE /\ writeOpen' = FALSE
  /\ readWant' = FALSE /\ readWatch' = FALSE

\* With uplink_eos it hands the application the end of the stream, in the read
\* frame if that is empty or in one of the pool, or pauses if there is none.
ShutDownUplink(frame) ==
  /\ ShutDown
  /\ \/ /\ Become(<<Act("read:eos", 0)>>)
        /\ eosIn' = eosIn + 1
        /\ readFrame' = IF frame = 0 THEN NoFrame ELSE frame
        /\ UNCHANGED <<noFrames, pauseLevel>>
     \/ /\ frame # 0 /\ pauseLevel < MaxPause
        /\ noFrames' = TRUE /\ pauseLevel' = pauseLevel + 1
        /\ Return
        /\ readFrame' = frame /\ UNCHANGED eosIn

\* _ft_dgram_error calls the delegate first and shuts down afterwards.
Error == sysErrno' = TRUE /\ Become(<<Act("error", 0)>>)

ErrorReturns ==
  /\ Running("error")
  /\ ShutDown
  /\ Return
  /\ UNCHANGED <<phase, bind, connect, sysErrno, noFrames, pauseLevel, readFrame,
                 writeReady, watchVars, queueVars, readHist, writeHist>>
-----------------------------------------------------------------------------
\* Reading.  _ft_dgram_on_read.
OnRead ==
  /\ Running("event_loop") /\ readWatch
  /\ IF pauseLevel > 0 THEN readWatch' = FALSE /\ UNCHANGED stack
     ELSE /\ UNCHANGED readWatch
          /\ IF readWant THEN Call(<<Act("read_loop", 0)>>) ELSE UNCHANGED stack
  /\ UNCHANGED <<phase, sockVars, noFrames, pauseLevel, readWant, readFrame,
                 writeOpen, writeReady, watchVars, queueVars, readHist, writeHist>>

\* One turn of the loop in _ft_dgram_on_read_event.
Filling == IF readFrame = NoFrame THEN 0 ELSE readFrame
Receiving == Running("read_loop") /\ stack[1].n < MaxLoops

ReadNoFrame ==
  /\ Receiving /\ readFrame = NoFrame
  /\ UNCHANGED <<shutdown>> /\ Pause
  /\ noFrames' = TRUE
  /\ Return
  /\ UNCHANGED <<phase, bind, connect, sysErrno, readFrame, writeOpen, writeReady,
                 watchVars, queueVars, readHist, writeHist>>

ReadAgain ==
  /\ UNCHANGED <<shutdown, pauseLevel>> /\ ReadSetEvent(TRUE)
  /\ Return
  /\ UNCHANGED <<phase, bind, connect, sysErrno, noFrames, writeOpen, writeReady,
                 watchVars, queueVars, readHist, writeHist>>

RecvAgain == Receiving /\ inbox = <<>> /\ readFrame' = Filling /\ ReadAgain

ReadLoopsDone ==
  /\ Running("read_loop") /\ stack[1].n = MaxLoops
  /\ UNCHANGED readFrame /\ ReadAgain

RecvError ==
  /\ Receiving
  /\ readFrame' = Filling
  /\ Error
  /\ UNCHANGED <<phase, bind, connect, shutdown, noFrames, pauseLevel, readWant,
                 readWatch, writeOpen, writeReady, watchVars, queueVars, readHist,
                 writeHist>>

\* recvmsg() returns 0: an empty datagram has arrived.
RecvZero ==
  /\ Receiving
  /\ inbox # <<>> /\ Head(inbox) /\ inbox' = Tail(inbox)
  /\ sysErrno' = FALSE
  /\ ShutDownUplink(Filling)
  /\ UNCHANGED <<phase, bind, connect, writeReady, watchVars, queueVars, received,
                 offered, writeHist>>

\* A datagram fills a vec whatever its length.  A frame whose vecs are all used
\* is detached and handed to the delegate's read callback.
Deliver(got) ==
  /\ Become(<<Act("read:full", stack[1].n)>>)
  /\ readFrame' = NoFrame
  /\ offered' = offered + got
RecvData ==
  LET got == Filling + 1 IN
  /\ Receiving /\ inbox # <<>> /\ ~Head(inbox)
  /\ inbox' = Tail(inbox)
  /\ received' = received + 1
  /\ IF got > MoreVecs THEN Deliver(got)
     ELSE /\ readFrame' = got /\ UNCHANGED offered
          /\ Become(<<Act("read_loop", stack[1].n + 1)>>)
  /\ UNCHANGED <<phase, sockVars, noFrames, pauseLevel, readWant, readWatch,
                 writeOpen, writeReady, watchVars, queueVars, eosIn, writeHist>>

\* The callback has taken the frame over, or leaves it to the socket with
\* "kept" datagrams in it and room for more.  The loop goes on unless reading
\* has been stopped.
FullReturns(upstreamed, kept) ==
  /\ Running("read:full")
  /\ IF upstreamed THEN UNCHANGED <<readFrame, offered>>
     ELSE readFrame' = kept /\ offered' = offered - kept
  /\ IF readWant THEN Become(<<Act("read_loop", stack[1].n + 1)>>) ELSE Return
  /\ UNCHANGED <<phase, sockVars, noFrames, pauseLevel, readWant, readWatch,
                 writeOpen, writeReady, watchVars, queueVars, inbox, received,
                 eosIn, writeHist>>

EosReturns ==
  /\ Running("read:eos")
  /\ Return
  /\ UNCHANGED <<phase, sockVars, readVars, writeOpen, writeReady, watchVars,
                 queueVars, readHist, writeHist>>
-----------------------------------------------------------------------------
\* Writing.  A frame of the queue: where its vec_position and vec_limit are, and
\* whether the last of its vecs is a message control block.
DataVecs(kind) == CASE kind = "eos" -> 0
                    [] kind \in {"data", "data+control"} -> 1
                    [] OTHER -> 2
HasControl(kind) == kind \in {"data+control", "two+control"}
Item(n, kind) ==
  [id |-> n, eos |-> kind = "eos", pos |-> 0, ctl |-> HasControl(kind),
   lim |-> DataVecs(kind) + IF HasControl(kind) THEN 1 ELSE 0]

Chain(item) ==
  /\ queue' = CASE tail = 0 -> <<item>>
                [] queue # <<>> /\ tail = Last(queue).id -> Append(queue, item)
                [] OTHER -> queue
  /\ tail' = item.id

\* ft_dgram_write of a data frame or of the end of the stream, which
\* FT_DGRAM_SHUTDOWN borrows; a socket not open for writing refuses frames.
WatchOrSend(kind) ==
  IF writeReady THEN Call(<<Act("write_loop", 0)>>) /\ UNCHANGED watchVars
  ELSE WriteSetEvent /\ UNCHANGED stack
Write(kind) ==
  LET n == Len(accepted) + 1 IN
  /\ IF kind = "eos" THEN AppMayShutdown ELSE AppRuns
  /\ writeOpen /\ n <= MaxWrites
  /\ accepted' = Append(accepted, kind)
  /\ writeOpen' = (kind # "eos")
  /\ Chain(Item(n, kind))
  /\ WatchOrSend(kind)
  /\ stalled' = (stalled /\ writeReady)
  /\ UNCHANGED <<phase, sockVars, readVars, writeReady, readHist, wire, lost,
                 stopped>>

\* _ft_dgram_write_real: one turn of its loop, and the ways to leave it with
\* frames in the queue.
Writing == Running("write_loop") /\ queue # <<>> /\ stack[1].n <= MaxLoops
WriteLaterUnwatched == writeReady' = FALSE /\ UNCHANGED watchVars /\ Return
WriteLater == writeReady' = FALSE /\ WriteSetEvent /\ Return

WriteLoopDone ==
  /\ Running("write_loop") /\ queue = <<>>
  /\ Return
  /\ UNCHANGED <<phase, sockVars, readVars, writeOpen, writeReady, watchVars,
                 queueVars, readHist, writeHist>>

WriteLoopsExceeded ==
  /\ Running("write_loop") /\ queue # <<>> /\ stack[1].n > MaxLoops
  /\ WriteLater
  /\ stalled' = FALSE
  /\ UNCHANGED <<phase, sockVars, readVars, writeOpen, queueVars, readHist,
                 accepted, wire, lost, stopped>>

\* The end of the stream leaves the queue, write_frame_last is left behind.
WriteEos ==
  /\ Writing /\ Head(queue).eos
  /\ queue' = Tail(queue)
  /\ wire' = Append(wire, <<Head(queue).id, 0, NoFrame>>)
  /\ ShutDownUplink(readFrame)
  /\ UNCHANGED <<phase, bind, connect, sysErrno, writeReady, watchVars, tail,
                 inbox, received, offered, accepted, lost, stalled, stopped>>

\* _ft_dgram_return_write_frame
DropHeadKeepTail == queue' = Tail(queue) /\ UNCHANGED tail
DropHead ==
  /\ queue' = Tail(queue)
  /\ tail' = IF queue' = <<>> THEN 0 ELSE tail

\* Each attempt to send a vec takes the last vec off a frame with a control
\* block, before sendmsg() has accepted anything.
Sending == Writing /\ ~Head(queue).eos /\ Head(queue).pos # Head(queue).lim
ControlTaken(h) == IF h.ctl /\ h.lim > 0 THEN [h EXCEPT !.lim = @ - 1] ELSE h
Control(h) == IF h.ctl THEN ControlTaken(h).lim ELSE NoFrame

\* "assert(frame_dvec != NULL)"
NoVecLeft ==
  /\ Writing /\ ~Head(queue).eos /\ Head(queue).pos = Head(queue).lim
  /\ phase' = "assert"
  /\ UNCHANGED <<stack, sockVars, readVars, writeOpen, writeReady, watchVars,
                 queueVars, readHist, writeHist>>

SendAgain ==
  /\ Sending /\ ~shutdown
  /\ queue' = <<ControlTaken(Head(queue))>> \o Tail(queue)
  /\ WriteLater
  /\ stalled' = FALSE
  /\ UNCHANGED <<phase, sockVars, readVars, writeOpen, tail, readHist, accepted,
                 wire, lost, stopped>>

\* A connected socket fails, one that is not gives up the frame: and leaves the
\* loop with write_ready cleared, but does not watch for the next chance.
SendError ==
  /\ Sending /\ connect
  /\ queue' = <<ControlTaken(Head(queue))>> \o Tail(queue)
  /\ writeReady' = FALSE
  /\ Error
  /\ UNCHANGED <<phase, bind, connect, shutdown, readVars, writeOpen, watchVars,
                 tail, readHist, writeHist>>

SendLost ==
  /\ Sending /\ ~connect
  /\ DropHead
  /\ writeReady' = FALSE
  /\ lost' = lost \cup {Head(queue).id} /\ stalled' = TRUE
  /\ Return
  /\ UNCHANGED <<phase, sockVars, readVars, writeOpen, watchVars, readHist,
                 accepted, wire, stopped>>

\* A vec has been sent; ft_frame_next_vec tells whether it was the last.
NextVec(h) == [h EXCEPT !.pos = IF @ = h.lim THEN @ ELSE @ + 1]
SendData ==
  LET h == Head(queue) IN
  LET h1 == NextVec(ControlTaken(h)) IN
  /\ Sending /\ ~shutdown
  /\ wire' = Append(wire, <<h.id, h.pos, Control(h)>>)
  /\ IF h1.pos = h1.lim THEN DropHead
     ELSE queue' = <<h1>> \o Tail(queue) /\ UNCHANGED tail
  /\ Become(<<Act("write_loop", stack[1].n + 1)>>)
  /\ stalled' = FALSE
  /\ UNCHANGED <<phase, sockVars, readVars, writeOpen, writeReady, watchVars,
                 readHist, accepted, lost, stopped>>

\* _ft_dgram_on_write and _ft_dgram_on_write_event: the watcher only pretends to
\* stop while the queue is written.
OnWrite ==
  /\ Running("event_loop") /\ writeWatch
  /\ IF ~writeWant THEN UNCHANGED <<stack, writeReady, watchVars>>
     ELSE /\ writeReady' = TRUE
          /\ IF queue = <<>> THEN WriteUnsetEvent /\ UNCHANGED stack
             ELSE /\ Call(<<Act("write_loop", 0), Act("write_done", 0)>>)
                  /\ writeWant' = FALSE /\ UNCHANGED writeWatch
  /\ UNCHANGED <<phase, sockVars, readVars, writeOpen, queueVars, readHist,
                 writeHist>>

WriteDone ==
  /\ Running("write_done")
  /\ IF writeWant THEN UNCHANGED watchVars ELSE WriteUnsetEvent
  /\ Return
  /\ UNCHANGED <<phase, sockVars, readVars, writeOpen, writeReady, queueVars,
                 readHist, writeHist>>

\* ft_dgram_flush writes until the queue is empty and puts write_ready back.
Flush ==
  /\ AppMayShutdown /\ "FLUSH" \in Cntl
  /\ queue # <<>>
  /\ Call(<<Act("flush", IF writeReady THEN 1 ELSE 0)>>)
  /\ UNCHANGED <<phase, sockVars, readVars, writeOpen, writeReady, watchVars,
                 queueVars, readHist, writeHist>>

FlushTurn ==
  /\ Running("flush")
  /\ IF queue # <<>>
     THEN Call(<<Act("write_loop", 0)>>) /\ writeReady' = TRUE
     ELSE Return /\ writeReady' = (stack[1].n = 1)
  /\ UNCHANGED <<phase, sockVars, readVars, writeOpen, watchVars, queueVars,
                 readHist, writeHist>>
-----------------------------------------------------------------------------
\* ft_dgram_cntl, ft_dgram_bind and ft_dgram_connect.  The application does not
\* start the reading of a socket that has been shut down.
ReadStart ==
  /\ AppRuns /\ "READ_START" \in Cntl /\ ~shutdown
  /\ UNCHANGED <<shutdown, pauseLevel>> /\ ReadSetEvent(TRUE)
  /\ UNCHANGED <<phase, stack, bind, connect, sysErrno, noFrames, readFrame,
                 writeOpen, writeReady, watchVars, queueVars, readHist, writeHist>>

ReadStop ==
  /\ AppRuns /\ "READ_STOP" \in Cntl
  /\ UNCHANGED <<shutdown, pauseLevel>> /\ ReadUnsetEvent(TRUE)
  /\ UNCHANGED <<phase, stack, bind, connect, sysErrno, noFrames, readFrame,
                 writeOpen, writeReady, watchVars, queueVars, readHist, writeHist>>

ReadPause ==
  /\ AppRuns /\ "READ_PAUSE" \in Cntl
  /\ UNCHANGED shutdown /\ Pause
  /\ UNCHANGED <<phase, stack, bind, connect, sysErrno, noFrames, readFrame,
                 writeOpen, writeReady, watchVars, queueVars, readHist, writeHist>>

\* The user clears read_paused_noframes together with FT_DGRAM_READ_RESUME.
ReadResumeForgets ==
  /\ AppRuns /\ "READ_RESUME" \in Cntl /\ pauseLevel > 0
  /\ noFrames' = FALSE /\ pauseLevel' = pauseLevel - 1
  /\ UNCHANGED <<phase, stack, sockVars, readWant, readWatch, readFrame,
                 writeOpen, writeReady, watchVars, queueVars, readHist, writeHist>>
ReadResume ==
  /\ AppRuns /\ "READ_RESUME" \in Cntl /\ pauseLevel > 0
  /\ UNCHANGED shutdown
  /\ noFrames' = FALSE /\ pauseLevel' = pauseLevel - 1
  /\ IF pauseLevel' = 0 THEN ReadSetEvent(FALSE)
     ELSE UNCHANGED <<readWant, readWatch>>
  /\ UNCHANGED <<phase, stack, bind, connect, sysErrno, readFrame, writeOpen,
                 writeReady, watchVars, queueVars, readHist, writeHist>>

WriteStart ==
  /\ AppRuns /\ "WRITE_START" \in Cntl
  /\ WriteSetEvent
  /\ stopped' = FALSE /\ stalled' = FALSE
  /\ UNCHANGED <<phase, stack, sockVars, readVars, writeOpen, writeReady,
                 queueVars, readHist, accepted, wire, lost>>

WriteStop ==
  /\ AppRuns /\ "WRITE_STOP" \in Cntl
  /\ WriteUnsetEvent
  /\ stopped' = TRUE
  /\ UNCHANGED <<phase, stack, sockVars, readVars, writeOpen, writeReady,
                 queueVars, readHist, accepted, wire, lost, stalled>>

Bind ==
  /\ Running("event_loop") /\ ~bind /\ ~shutdown
  /\ bind' = TRUE
  /\ UNCHANGED <<shutdown, pauseLevel>> /\ ReadSetEvent(TRUE)
  /\ UNCHANGED <<phase, stack, connect, sysErrno, noFrames, readFrame, writeOpen,
                 writeReady, watchVars, queueVars, readHist, writeHist>>

Connect ==
  /\ Running("event_loop") /\ "CONNECT" \in Cntl /\ ~connect /\ ~shutdown
  /\ connect' = TRUE
  /\ WriteSetEvent
  /\ stopped' = FALSE /\ stalled' = FALSE
  /\ UNCHANGED <<phase, stack, bind, shutdown, sysErrno, readVars, writeOpen,
                 writeReady, queueVars, readHist, accepted, wire, lost>>

\* ft_dgram_fini; not from within a callback of the socket.  The read frame is
\* returned to the pool, the frames of the queue are not.
Fini ==
  /\ Running("event_loop") /\ "FINI" \in Cntl
  /\ phase' = "fini"
  /\ shutdown' = TRUE /\ writeOpen' = FALSE /\ writeReady' = FALSE
  /\ readWant' = FALSE /\ readWatch' = FALSE
  /\ WriteUnsetEvent
  /\ readFrame' = NoFrame
  /\ UNCHANGED <<stack, bind, connect, sysErrno, noFrames, pauseLevel, queueVars,
                 readHist, writeHist>>

\* The network.
Arrives(empty) ==
  /\ phase = "open" /\ received + Len(inbox) < MaxDatagrams
  /\ inbox' = Append(inbox, empty)
  /\ UNCHANGED <<phase, stack, sockVars, readVars, writeOpen, writeReady,
                 watchVars, queueVars, received, offered, eosIn, writeHist>>
-----------------------------------------------------------------------------
\* ft_dgram_init
Init ==
  /\ phase = "open" /\ stack = <<>>
  /\ bind = FALSE /\ connect = FALSE /\ shutdown = FALSE /\ sysErrno = FALSE
  /\ noFrames \in BOOLEAN
  /\ pauseLevel = 0 /\ readWant = FALSE /\ readWatch = FALSE
  /\ readFrame = NoFrame
  /\ writeOpen = TRUE /\ writeReady = FALSE
  /\ writeWant = TRUE /\ writeWatch = TRUE
  /\ queue = <<>> /\ tail = 0 /\ inbox = <<>>
  /\ received = 0 /\ offered = 0 /\ eosIn = 0
  /\ accepted = <<>> /\ wire = <<>> /\ lost = {} /\ stalled = FALSE
  /\ stopped = FALSE

Handler ==
  \/ ErrorReturns \/ EosReturns
  \/ ReadNoFrame \/ RecvAgain \/ ReadLoopsDone \/ RecvError \/ RecvZero \/ RecvData
  \/ \E up \in BOOLEAN, kept \in 0 .. MoreVecs : FullReturns(up, kept)
  \/ WriteLoopDone \/ WriteLoopsExceeded \/ WriteEos \/ NoVecLeft
  \/ SendAgain \/ SendError \/ SendLost \/ SendData
  \/ WriteDone \/ FlushTurn
EventLoop == OnRead \/ OnWrite
Application ==
  \/ \E kind \in Kinds : Write(kind)
  \/ Flush \/ ReadStart \/ ReadStop \/ ReadPause \/ ReadResume
  \/ WriteStart \/ WriteStop \/ Bind \/ Connect \/ Fini

Next == Handler \/ EventLoop \/ Application \/ \E e \in BOOLEAN : Arrives(e)

Spec == Init /\ [][Next]_vars
-----------------------------------------------------------------------------
InLoop == phase = "open" /\ stack = <<>>

\* Whenever the event loop runs, it watches for input exactly when the socket
\* wants some, is not paused and has not been shut down.
ReadWatchExact ==
  InLoop => (readWatch <=> readWant /\ pauseLevel = 0 /\ ~shutdown)

\* Whenever the event loop runs, a socket with frames to write waits for the
\* descriptor to become writable, unless the application has stopped it, it is
\* shut down, or the loss of a frame has stalled it.
WriteWatchSound ==
  InLoop /\ queue # <<>> /\ ~shutdown /\ ~stopped /\ ~stalled =>
    writeWatch /\ writeWant

\* What has been sent and what is still queued are the vecs of the accepted
\* frames that are not lost, each once and in their order, whatever callback,
\* flush or event wrote them.  Frames with a control block are left to
\* VecIsThere.
Whole(kind) == IF kind = "eos" THEN {0} ELSE 0 .. DataVecs(kind) - 1
Left(q)     == IF q.eos THEN {0} ELSE q.pos .. q.lim - 1
SentOf(n)   == {wire[a][2] : a \in {b \in DOMAIN wire : wire[b][1] = n}}
LeftOf(n)   == UNION {Left(queue[i]) : i \in {j \in DOMAIN queue : queue[j].id = n}}
Precedes(x, y) == x[1] < y[1] \/ (x[1] = y[1] /\ x[2] < y[2])
Kept(n)     == n \notin lost /\ ~HasControl(accepted[n])
SentInOrder ==
  phase = "open" =>
    /\ \A a \in DOMAIN wire : wire[a][1] \in DOMAIN accepted
    /\ \A i \in DOMAIN queue : queue[i].id \in DOMAIN accepted
    /\ \A n \in DOMAIN accepted :
         Kept(n) => SentOf(n) \cup LeftOf(n) = Whole(accepted[n])
    /\ \A a, b \in DOMAIN wire :
         a < b /\ Kept(wire[a][1]) /\ Kept(wire[b][1]) => Precedes(wire[a], wire[b])
    /\ \A i, j \in DOMAIN queue : i < j => queue[i].id < queue[j].id
    /\ \A a \in DOMAIN wire, i \in DOMAIN queue :
         Kept(wire[a][1]) /\ Kept(queue[i].id) =>
           \A v \in Left(queue[i]) : Precedes(wire[a], <<queue[i].id, v>>)

\* After the end of the stream no datagram is handed to the application, even
\* if the end came from inside a read callback.
EosIsLast == [][eosIn > 0 => offered' <= offered]_vars

-----------------------------------------------------------------------------
\* What comments say of the socket and the code does not do.

\* dgram.c:665, "frame_dvec != NULL".  A frame with a control block loses a vec
\* in every attempt to send it.
VecIsThere == phase # "assert"
=============================================================================
