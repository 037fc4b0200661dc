------------------------------- MODULE Stream -------------------------------
(***************************************************************************)
(* A TCP stream of libft (src/sock/stream.c and ft_stream_cntl of          *)
(* include/ft/sock/stream.h) without TLS: two libev watchers, the frame     *)
(* being filled, the queue of frames being written, and a delegate of the  *)
(* application that is called from the middle of the handlers and may call *)
(* the stream again from there.                                            *)
(*                                                                         *)
(* The program is single threaded but re-entrant.  "stack" holds the       *)
(* functions of stream.c that are running, the innermost first; the event  *)
(* loop runs while it is empty, and the application while its top is one   *)
(* of the delegate's callbacks.  The kernel and the peer move at any time. *)
(* Frames come from a pool that may be empty whenever one is asked for.    *)
(* ft_frame_return is taken not to call the stream back.                   *)
(*                                                                         *)
(* An operator that is not reached from Next is the next definition with a *)
(* bug in it; the properties are known to catch it.                        *)
(***************************************************************************)
EXTENDS Integers, Sequences, FiniteSets, SequencesExt

CONSTANTS
  VecSize,        \* bytes in a vec of a frame
  MoreVecs,       \* vecs of a frame after the first one
  SndBuf,         \* bytes the kernel buffers for the peer
  MaxReadLoops,   \* ft_config.sock_est_max_read_loops (10)
  MaxWriteLoops,  \* ft_config.sock_est_max_write_loops (10)
  Cntl,           \* the control codes and calls the application makes
  MaxBytes,       \* bound: bytes the peer sends
  MaxWrites,      \* bound: frames the application writes
  MaxPause,       \* bound: read_pause_level
  MaxAborts,      \* bound: calls of FT_STREAM_ABORT
  MaxDepth        \* bound: functions of the stream running at once

ASSUME SizesAssumption ==
  VecSize \in Nat \ {0} /\ MoreVecs \in Nat /\ SndBuf \in Nat \ {0}
ASSUME LoopsAssumption == MaxReadLoops \in Nat \ {0} /\ MaxWriteLoops \in Nat
ASSUME BoundsAssumption ==
  /\ MaxBytes \in Nat /\ MaxWrites \in Nat /\ MaxPause \in Nat \ {0}
  /\ MaxAborts \in Nat /\ MaxDepth \in Nat \ {0}

VARIABLES
  phase,          \* "none", "open", "fini", or "assert": an assertion failed
  stack,          \* the running functions, the innermost first
  \* flags and counters of struct ft_stream
  connecting, sysErrno,
  partial, readShutdown, noFrames, pauseLevel,
  writeOpen, writeReady, writeShutdown,
  \* watchers: what they are wanted for, and whether libev watches
  readEvents, readWatch, writeEvents, writeWatch,
  readFrame,      \* the frame being filled
  queue,          \* write_frames and the frames chained to it
  tail,           \* where write_frame_last points: 0 for &write_frames, or to
                  \* the next pointer of the frame with that number
  \* the socket
  inbuf,          \* bytes waiting to be received
  outbuf,         \* bytes waiting for the peer
  peer,           \* "open", "closed" (FIN), "reset" (RST, not yet reported)
                  \* or "gone" (RST, reported)
  conn,           \* connect(): "pending", "refused" or "ok"
  shut,           \* the directions shutdown() has closed on this side
  \* history
  received,       \* bytes received from the kernel so far
  offered,        \* bytes the application has been handed
  eosIn,          \* end-of-stream frames the application has been handed
  accepted,       \* kinds of the frames ft_stream_write has accepted
  wire,           \* the frame each byte given to the kernel came from
  failed,         \* _ft_stream_error has run
  aborts,         \* how often FT_STREAM_ABORT was called
  stopped         \* the application has called FT_STREAM_WRITE_STOP

readVars  == <<partial, readShutdown, noFrames, pauseLevel, readEvents,
               readWatch, readFrame>>
writeVars == <<writeOpen, writeReady, writeShutdown, writeEvents, writeWatch,
               queue, tail>>
connVars  == <<connecting, sysErrno, failed>>
netVars   == <<inbuf, outbuf, peer, conn, shut>>
readHist  == <<received, offered, eosIn, aborts>>
writeHist == <<accepted, wire, stopped>>
vars == <<phase, stack, readVars, writeVars, connVars, netVars, readHist,
          writeHist>>

\* A frame being filled: bytes in it, room in the current vec, further vecs.
NoFrame  == [got |-> 0, room |-> -1, vecs |-> 0]
NewFrame == [got |-> 0, room |-> VecSize, vecs |-> MoreVecs]

\* A running function and what it keeps in its local variables.
Act(at, n, f) == [at |-> at, n |-> n, frame |-> f]
Callbacks == {"read:partial", "read:full", "read:last", "read:eos", "error",
              "connected"}
Top == IF stack = <<>> THEN "event_loop" ELSE stack[1].at
Running(at) == phase = "open" /\ Top = at
Return == stack' = Tail(stack)
Become(acts) == stack' = acts \o Tail(stack)
Call(acts) == Len(stack) + Len(acts) <= MaxDepth /\ stack' = acts \o stack

AppRuns == phase = "open" /\ (stack = <<>> \/ Top \in Callbacks)
\* The error callback must not be used "for close() or shutdown".
AppMayShutdown == AppRuns /\ Top # "error"

-----------------------------------------------------------------------------
\* Watchers.  The level test of _ft_stream_read_unset_event holds at any
\* level: unsetting an event always stops the watcher.
ReadSetEventPastShutdown(events) ==
  /\ readEvents' = readEvents \cup events
  /\ readWatch' = (readWatch \/ (readEvents' # {} /\ pauseLevel' = 0))
ReadSetEvent(events) ==
  /\ readEvents' = readEvents \cup events
  /\ readWatch' = (readWatch \/ (/\ readEvents' # {} /\ pauseLevel' = 0
                                 /\ ~readShutdown'))
ReadUnsetEvent(events) ==
  /\ readEvents' = readEvents \ events
  /\ readWatch' = (/\ readWatch /\ readEvents' # {} /\ ~readShutdown'
                   /\ ~(pauseLevel' >= 0))
WriteSetEvent(events) ==
  /\ writeEvents' = writeEvents \cup events
  /\ writeWatch' = (writeWatch \/ writeEvents' # {})
WriteUnsetEvent(events) ==
  /\ writeEvents' = writeEvents \ events
  /\ writeWatch' = (writeWatch /\ writeEvents' # {})

\* ft_stream_cntl(FT_STREAM_READ_PAUSE), by the application or by the stream
\* itself when the pool has no frame.
Pause ==
  /\ pauseLevel < MaxPause
  /\ UNCHANGED readShutdown
  /\ pauseLevel' = pauseLevel + 1
  /\ IF pauseLevel' = 1 THEN ReadUnsetEvent({})
     ELSE UNCHANGED <<readEvents, readWatch>>
OutOfFrames == noFrames' = TRUE /\ Pause

\* _ft_stream_error up to the delegate's error callback; the caller pushes it.
ErrorKeepsReading ==
  /\ sysErrno' = TRUE /\ failed' = TRUE
  /\ writeOpen' = FALSE /\ writeShutdown' = TRUE /\ UNCHANGED readShutdown
Error ==
  /\ sysErrno' = TRUE /\ failed' = TRUE
  /\ writeOpen' = FALSE /\ writeShutdown' = TRUE /\ readShutdown' = TRUE
ErrorCallback == Act("error", 0, NoFrame)
-----------------------------------------------------------------------------
\* Reading.  _ft_stream_on_read: with the level above zero it would only stop
\* the watcher.  A socket that can be read after connect() can be written as
\* well, and the write watcher has the higher priority.
Broken   == peer \in {"reset", "gone"} \/ "wr" \in shut
Readable == inbuf > 0 \/ peer # "open" \/ "rd" \in shut
Writable == conn # "pending" /\ (outbuf < SndBuf \/ Broken)
WriteFirst == "CONNECT" \in writeEvents /\ writeWatch /\ Writable
OnRead ==
  /\ Running("event_loop")
  /\ readWatch /\ Readable /\ ~WriteFirst
  /\ IF pauseLevel > 0 THEN readWatch' = FALSE /\ UNCHANGED stack
     ELSE /\ UNCHANGED readWatch
          /\ IF "READ" \in readEvents
             THEN Call(<<Act("read_loop", MaxReadLoops, NoFrame)>>)
             ELSE UNCHANGED stack
  /\ UNCHANGED <<phase, partial, readShutdown, noFrames, pauseLevel, readEvents,
                 readFrame, writeVars, connVars, netVars, readHist, writeHist>>

\* One turn of the loop in _ft_stream_on_read_event: the frame to fill, if the
\* pool or the delegate has one, then recv().
Filling == IF readFrame = NoFrame THEN NewFrame ELSE readFrame
Receiving == Running("read_loop") /\ stack[1].n > 0

ReadNoFrame ==
  /\ Receiving /\ readFrame = NoFrame
  /\ OutOfFrames
  /\ Return
  /\ UNCHANGED <<phase, partial, readFrame, writeVars, connVars,
                 netVars, readHist, writeHist>>

RecvAgain ==
  /\ Receiving /\ ~Readable
  /\ readFrame' = Filling
  /\ UNCHANGED <<pauseLevel, readShutdown>>
  /\ ReadSetEvent({"READ"})
  /\ Return
  /\ UNCHANGED <<phase, partial, noFrames, writeVars, connVars, netVars,
                 readHist, writeHist>>

RecvEof ==
  /\ Receiving /\ inbuf = 0 /\ Readable /\ peer # "reset"
  /\ readFrame' = Filling
  /\ sysErrno' = FALSE
  /\ Become(<<Act("shutdown_read", 0, NoFrame)>>)
  /\ UNCHANGED <<phase, partial, readShutdown, noFrames, pauseLevel, readEvents,
                 readWatch, writeVars, connecting, failed, netVars, readHist,
                 writeHist>>

RecvError ==
  /\ Receiving /\ inbuf = 0 /\ peer = "reset"
  /\ readFrame' = Filling
  /\ peer' = "gone"
  /\ Error
  /\ Become(<<ErrorCallback, Act("shutdown_read", 0, NoFrame)>>)
  /\ UNCHANGED <<phase, partial, noFrames, pauseLevel, readEvents, readWatch,
                 writeReady, writeEvents, writeWatch, queue, tail, connecting,
                 inbuf, outbuf, conn, shut, readHist, writeHist>>

\* The frame is handed to the delegate's read callback ...
Deliver(at, n, f) ==
  /\ readFrame' = NoFrame
  /\ offered' = offered + f.got
  /\ Become(<<Act(at, n, f)>>)
  /\ UNCHANGED <<pauseLevel, readShutdown, readEvents, readWatch>>

\* ... when it is full, or with read_partial whenever there is something in it.
NextVec(f) ==
  IF f.room = 0 /\ f.vecs > 0
  THEN [f EXCEPT !.room = VecSize, !.vecs = @ - 1] ELSE f
RecvData(k) ==
  LET n == stack[1].n
      f == [Filling EXCEPT !.got = @ + k, !.room = @ - k] IN
  /\ Receiving
  /\ k <= inbuf /\ k <= Filling.room
  /\ inbuf' = inbuf - k
  /\ received' = received + k
  /\ \/ /\ f.room > 0 /\ partial
        /\ Deliver("read:partial", n, f)
     \/ /\ f.room > 0 /\ ~partial
        /\ readFrame' = f
        /\ UNCHANGED <<offered, pauseLevel, readShutdown>>
        /\ ReadSetEvent({"READ"})
        /\ Return
     \/ /\ f.room = 0 /\ (f.vecs = 0 \/ partial)
        /\ Deliver("read:full", n, NextVec(f))
     \/ /\ f.room = 0 /\ f.vecs > 0 /\ ~partial
        /\ readFrame' = NextVec(f)
        /\ Become(<<Act("read_loop", n - 1, NoFrame)>>)
        /\ UNCHANGED <<offered, pauseLevel, readShutdown, readEvents, readWatch>>
  /\ UNCHANGED <<phase, partial, noFrames, writeVars, connVars, outbuf, peer,
                 conn, shut, eosIn, aborts, writeHist>>

\* The callback returns; it has taken the frame over (upstreamed) or leaves it
\* to the stream, with room for more.
TakeBackForgets(upstreamed, room) ==
  IF upstreamed THEN UNCHANGED <<readFrame, offered>>
  ELSE readFrame' = NoFrame /\ offered' = offered - stack[1].frame.got
TakeBack(upstreamed, room) ==
  LET f == stack[1].frame IN
  IF upstreamed THEN UNCHANGED <<readFrame, offered>>
  ELSE /\ readFrame' = [f EXCEPT !.room = IF @ = 0 THEN room ELSE @]
       /\ offered' = offered - f.got

PartialReturns(upstreamed) ==
  /\ Running("read:partial")
  /\ TakeBack(upstreamed, 0)
  /\ UNCHANGED <<pauseLevel, readShutdown>>
  /\ ReadSetEvent({"READ"})
  /\ Return
  /\ UNCHANGED <<phase, partial, noFrames, writeVars, connVars, netVars,
                 received, eosIn, aborts, writeHist>>

FullReturns(upstreamed) ==
  /\ Running("read:full")
  /\ TakeBack(upstreamed, 1)
  /\ IF "READ" \in readEvents
     THEN Become(<<Act("read_loop", stack[1].n - 1, NoFrame)>>)
     ELSE Return
  /\ UNCHANGED <<phase, partial, readShutdown, noFrames, pauseLevel, readEvents,
                 readWatch, writeVars, connVars, netVars, received, eosIn,
                 aborts, writeHist>>

ReadLoopsDone ==
  /\ Running("read_loop") /\ stack[1].n = 0
  /\ UNCHANGED <<pauseLevel, readShutdown>>
  /\ ReadSetEvent({"READ"})
  /\ Return
  /\ UNCHANGED <<phase, partial, noFrames, readFrame, writeVars, connVars,
                 netVars, readHist, writeHist>>

\* _ft_stream_read_shutdown: no further reads, what the frame holds goes to
\* the delegate, and then the end of the stream does.
ShutdownRead ==
  /\ Running("shutdown_read")
  /\ readShutdown' = TRUE
  /\ UNCHANGED pauseLevel
  /\ ReadUnsetEvent({"READ"})
  /\ IF readFrame.got > 0
     THEN /\ readFrame' = NoFrame
          /\ offered' = offered + readFrame.got
          /\ Become(<<Act("read:last", 0, readFrame)>>)
     ELSE /\ UNCHANGED <<readFrame, offered>>
          /\ Become(<<Act("submit_eos", 0, NoFrame)>>)
  /\ UNCHANGED <<phase, partial, noFrames, writeVars, connVars, netVars,
                 received, eosIn, aborts, writeHist>>

LastReturns ==
  /\ Running("read:last")
  /\ Become(<<Act("submit_eos", 0, NoFrame)>>)
  /\ UNCHANGED <<phase, readVars, writeVars, connVars, netVars, readHist,
                 writeHist>>

\* The end of stream rides in the read frame, or in one borrowed for it.
SubmitEos ==
  /\ Running("submit_eos")
  /\ eosIn' = eosIn + 1
  /\ readFrame' = IF readFrame.got = 0 THEN NoFrame ELSE readFrame
  /\ Become(<<Act("read:eos", 0, NoFrame)>>)
  /\ UNCHANGED <<phase, partial, readShutdown, noFrames, pauseLevel, readEvents,
                 readWatch, writeVars, connVars, netVars, received, offered,
                 aborts, writeHist>>

SubmitEosNoFrame ==
  /\ Running("submit_eos")
  /\ readFrame = NoFrame \/ readFrame.got > 0
  /\ OutOfFrames
  /\ Return
  /\ UNCHANGED <<phase, partial, readFrame, writeVars, connVars,
                 netVars, readHist, writeHist>>

EosReturns ==
  /\ Running("read:eos")
  /\ Return
  /\ UNCHANGED <<phase, readVars, writeVars, connVars, netVars, readHist,
                 writeHist>>

\* The rest of _ft_stream_error, once the error callback has returned.
ErrorReturns ==
  /\ Running("error")
  /\ readWatch' = FALSE /\ writeWatch' = FALSE
  /\ shut' = {"rd", "wr"}
  /\ Return
  /\ UNCHANGED <<phase, partial, readShutdown, noFrames, pauseLevel, readEvents,
                 readFrame, writeOpen, writeReady, writeShutdown, writeEvents,
                 queue, tail, connVars, inbuf, outbuf, peer, conn, readHist,
                 writeHist>>
-----------------------------------------------------------------------------
\* Writing.  The frames of the queue, and the pointer at its end: where it does
\* not point at the end, the frame chained through it is lost.
Item(n, kind) ==
  IF kind = "eos" THEN [id |-> n, eos |-> TRUE, left |-> 0, vecs |-> 0]
  ELSE [id |-> n, eos |-> FALSE, left |-> VecSize, vecs |-> MoreVecs]
Chain(item) ==
  /\ queue' = CASE tail = 0 -> <<item>>
                [] queue # <<>> /\ tail = Last(queue).id -> Append(queue, item)
                [] OTHER -> queue
  /\ tail' = item.id

\* ft_stream_write, of a data frame or an end-of-stream frame; and
\* FT_STREAM_WRITE_SHUTDOWN, which borrows one of the latter.
Write(kind) ==
  LET n == Len(accepted) + 1 IN
  /\ AppRuns /\ "WRITE" \in Cntl
  /\ writeOpen /\ n <= MaxWrites
  /\ accepted' = Append(accepted, kind)
  /\ writeOpen' = (kind # "eos")
  /\ Chain(Item(n, kind))
  /\ \/ /\ writeReady
        /\ Call(<<Act("write_loop", 0, NoFrame)>>)
        /\ UNCHANGED <<writeEvents, writeWatch>>
     \/ /\ ~writeReady
        /\ IF connecting THEN UNCHANGED <<writeEvents, writeWatch>>
           ELSE WriteSetEvent({"WRITE"})
        /\ UNCHANGED stack
  /\ UNCHANGED <<phase, readVars, writeReady, writeShutdown, connVars, netVars,
                 readHist, wire, stopped>>

\* _ft_stream_write_real: one turn of its loop.
Writing == Running("write_loop") /\ queue # <<>> /\ stack[1].n <= MaxWriteLoops
WriteLaterUnwatched ==
  writeReady' = FALSE /\ UNCHANGED <<writeEvents, writeWatch>> /\ Return
WriteLater == writeReady' = FALSE /\ WriteSetEvent({"WRITE"}) /\ Return

WriteLoopDone ==
  /\ Running("write_loop") /\ queue = <<>>
  /\ Return
  /\ UNCHANGED <<phase, readVars, writeVars, connVars, netVars, readHist,
                 writeHist>>

WriteLoopsExceeded ==
  /\ Running("write_loop") /\ queue # <<>> /\ stack[1].n > MaxWriteLoops
  /\ WriteLater
  /\ UNCHANGED <<phase, readVars, writeOpen, writeShutdown, queue, tail, connVars,
                 netVars, readHist, writeHist>>

\* The end of stream leaves the queue, write_frame_last is left behind.
WriteEos ==
  /\ Writing /\ Head(queue).eos
  /\ queue' = Tail(queue)
  /\ wire' = Append(wire, Head(queue).id)
  /\ WriteUnsetEvent({"WRITE"})
  /\ writeShutdown' = TRUE
  /\ shut' = shut \cup {"wr"}
  /\ Return
  /\ UNCHANGED <<phase, readVars, writeOpen, writeReady, tail, connVars, inbuf,
                 outbuf, peer, conn, readHist, accepted, stopped>>

SendAgain ==
  /\ Writing /\ ~Head(queue).eos
  /\ ~Broken /\ outbuf = SndBuf
  /\ WriteLater
  /\ UNCHANGED <<phase, readVars, writeOpen, writeShutdown, queue, tail, connVars,
                 netVars, readHist, writeHist>>

SendError ==
  /\ Writing /\ ~Head(queue).eos
  /\ Broken
  /\ peer' = IF peer = "reset" THEN "gone" ELSE peer
  /\ Error
  /\ Become(<<ErrorCallback>>)
  /\ UNCHANGED <<phase, partial, noFrames, pauseLevel, readEvents, readWatch,
                 readFrame, writeReady, writeEvents, writeWatch, queue, tail,
                 connecting, inbuf, outbuf, conn, shut, readHist, writeHist>>

\* The frame at the head has been written: it is returned to the pool, and the
\* end of an empty queue is its beginning.
DropHeadKeepTail == queue' = Tail(queue) /\ UNCHANGED tail
DropHead ==
  /\ queue' = Tail(queue)
  /\ tail' = IF queue' = <<>> THEN 0 ELSE tail

SendData(k) ==
  LET h == Head(queue) IN
  /\ Writing /\ ~h.eos
  /\ ~Broken /\ k <= SndBuf - outbuf /\ k <= h.left
  /\ outbuf' = outbuf + k
  /\ wire' = wire \o [i \in 1 .. k |-> h.id]
  /\ \/ /\ k < h.left
        /\ queue' = [queue EXCEPT ![1].left = @ - k]
        /\ UNCHANGED tail
        /\ WriteLater
     \/ /\ k = h.left
        /\ IF h.vecs > 0
           THEN /\ queue' = [queue EXCEPT ![1].left = VecSize, ![1].vecs = @ - 1]
                /\ UNCHANGED tail
           ELSE DropHead
        /\ Become(<<Act("write_loop", stack[1].n + 1, NoFrame)>>)
        /\ UNCHANGED <<writeReady, writeEvents, writeWatch>>
  /\ UNCHANGED <<phase, readVars, writeOpen, writeShutdown, connVars, inbuf, peer,
                 conn, shut, readHist, accepted, stopped>>

\* _ft_stream_on_write_event, which asserts that the stream is not connecting
\* any more; the watcher only pretends to stop meanwhile.
WriteEvent ==
  /\ Running("write_event")
  /\ phase' = IF connecting THEN "assert" ELSE phase
  /\ writeReady' = TRUE
  /\ IF queue # <<>>
     THEN /\ writeEvents' = writeEvents \ {"WRITE"}
          /\ UNCHANGED writeWatch
          /\ Become(<<Act("write_loop", 0, NoFrame), Act("write_done", 0, NoFrame)>>)
     ELSE WriteUnsetEvent({"WRITE"}) /\ Return
  /\ UNCHANGED <<readVars, writeOpen, writeShutdown, queue, tail, connVars,
                 netVars, readHist, writeHist>>

WriteDone ==
  /\ Running("write_done")
  /\ IF writeEvents = {} THEN WriteUnsetEvent({"WRITE"})
     ELSE UNCHANGED <<writeEvents, writeWatch>>
  /\ Return
  /\ UNCHANGED <<phase, readVars, writeOpen, writeReady, writeShutdown, queue,
                 tail, connVars, netVars, readHist, writeHist>>

\* _ft_stream_on_write: the connection, then the queue.
OnWriteEvent == Running("event_loop") /\ writeWatch /\ Writable

OnWrite ==
  /\ OnWriteEvent /\ "CONNECT" \notin writeEvents
  /\ Call(<<Act("on_write", 0, NoFrame)>>)
  /\ UNCHANGED <<phase, readVars, writeVars, connVars, netVars, readHist,
                 writeHist>>

\* _ft_stream_on_connect_event; reading SO_ERROR clears it.
Refused ==
  /\ OnWriteEvent /\ "CONNECT" \in writeEvents /\ conn = "refused"
  /\ conn' = "ok" /\ peer' = "gone"
  /\ Error
  /\ Call(<<ErrorCallback, Act("on_write", 0, NoFrame)>>)
  /\ UNCHANGED <<phase, partial, noFrames, pauseLevel, readEvents, readWatch,
                 readFrame, writeReady, writeEvents, writeWatch, queue, tail,
                 connecting, inbuf, outbuf, shut, readHist, writeHist>>

StartBoth ==
  /\ UNCHANGED <<pauseLevel, readShutdown>>
  /\ ReadSetEvent({"READ"})
  /\ writeEvents' = (writeEvents \ {"CONNECT"}) \cup {"WRITE"}
  /\ writeWatch' = TRUE
ConnectionUpLate == StartBoth /\ UNCHANGED connecting
ConnectionUp == StartBoth /\ connecting' = FALSE
Connected ==
  /\ OnWriteEvent /\ "CONNECT" \in writeEvents /\ conn = "ok"
  /\ ConnectionUp
  /\ Call(<<Act("connected", 0, NoFrame), Act("write_event", 0, NoFrame),
            Act("on_write", 0, NoFrame)>>)
  /\ UNCHANGED <<phase, partial, noFrames, readFrame, writeOpen, writeReady,
                 writeShutdown, queue, tail, sysErrno, failed, netVars, readHist,
                 writeHist>>

ConnectedReturns ==
  /\ Running("connected")
  /\ Return
  /\ UNCHANGED <<phase, readVars, writeVars, connVars, netVars, readHist,
                 writeHist>>

OnWriteQueue ==
  /\ Running("on_write")
  /\ IF "WRITE" \in writeEvents THEN Become(<<Act("write_event", 0, NoFrame)>>)
     ELSE Return
  /\ UNCHANGED <<phase, readVars, writeVars, connVars, netVars, readHist,
                 writeHist>>
-----------------------------------------------------------------------------
\* ft_stream_cntl, called by the event loop's other handlers or by a callback.
\* The application asks no stream to go on reading that it has aborted.
ReadStart ==
  /\ AppRuns /\ "READ_START" \in Cntl
  /\ aborts = 0
  /\ UNCHANGED <<pauseLevel, readShutdown>>
  /\ ReadSetEvent({"READ"})
  /\ UNCHANGED <<phase, stack, partial, noFrames, readFrame, writeVars, connVars,
                 netVars, readHist, writeHist>>

ReadStop ==
  /\ AppRuns /\ "READ_STOP" \in Cntl
  /\ UNCHANGED <<pauseLevel, readShutdown>>
  /\ ReadUnsetEvent({"READ"})
  /\ UNCHANGED <<phase, stack, partial, noFrames, readFrame, writeVars, connVars,
                 netVars, readHist, writeHist>>

ReadPause ==
  /\ AppRuns /\ "READ_PAUSE" \in Cntl
  /\ Pause
  /\ UNCHANGED <<phase, stack, partial, noFrames, readFrame, writeVars, connVars,
                 netVars, readHist, writeHist>>

\* The user clears read_paused_noframes together with FT_STREAM_READ_RESUME.
ReadResumeForgets ==
  /\ AppRuns /\ "READ_RESUME" \in Cntl
  /\ pauseLevel > 0
  /\ pauseLevel' = pauseLevel - 1
  /\ noFrames' = FALSE
  /\ UNCHANGED <<phase, stack, partial, readShutdown, readEvents, readWatch,
                 readFrame, writeVars, connVars, netVars, readHist, writeHist>>
ReadResume ==
  /\ AppRuns /\ "READ_RESUME" \in Cntl
  /\ pauseLevel > 0
  /\ pauseLevel' = pauseLevel - 1
  /\ noFrames' = FALSE
  /\ UNCHANGED readShutdown
  /\ IF pauseLevel' = 0 THEN ReadSetEvent({}) ELSE UNCHANGED <<readEvents, readWatch>>
  /\ UNCHANGED <<phase, stack, partial, readFrame, writeVars, connVars, netVars,
                 readHist, writeHist>>

\* Not while the stream is connecting: if the connection is then refused the
\* write handler fails its assertion (line 1119), for "connecting" stays set.
WriteStart ==
  /\ AppRuns /\ "WRITE_START" \in Cntl
  /\ ~failed /\ ~connecting
  /\ WriteSetEvent({"WRITE"})
  /\ stopped' = FALSE
  /\ UNCHANGED <<phase, stack, readVars, writeOpen, writeReady, writeShutdown,
                 queue, tail, connVars, netVars, readHist, accepted, wire>>

WriteStop ==
  /\ AppRuns /\ "WRITE_STOP" \in Cntl
  /\ WriteUnsetEvent({"WRITE"})
  /\ stopped' = TRUE
  /\ UNCHANGED <<phase, stack, readVars, writeOpen, writeReady, writeShutdown,
                 queue, tail, connVars, netVars, readHist, accepted, wire>>

Abort ==
  /\ AppMayShutdown /\ "ABORT" \in Cntl
  /\ aborts < MaxAborts
  /\ aborts' = aborts + 1
  /\ Call(<<Act("shutdown_read", 0, NoFrame), Act("abort", 0, NoFrame)>>)
  /\ UNCHANGED <<phase, readVars, writeVars, connVars, netVars, received, offered,
                 eosIn, writeHist>>

\* The rest of _ft_stream_cntl_abort; shutdown() ends a pending connect().
AbortWriting ==
  /\ Running("abort")
  /\ WriteUnsetEvent({"WRITE"})
  /\ writeShutdown' = TRUE
  /\ shut' = shut \cup {"wr"}
  /\ conn' = IF conn = "pending" THEN "refused" ELSE conn
  /\ Return
  /\ UNCHANGED <<phase, readVars, writeOpen, writeReady, queue, tail, connVars,
                 inbuf, outbuf, peer, readHist, writeHist>>

\* ft_stream_set_partial
SetPartial(b) ==
  /\ AppRuns /\ "SET_PARTIAL" \in Cntl
  /\ partial' = b
  /\ UNCHANGED <<phase, stack, readShutdown, noFrames, pauseLevel, readEvents,
                 readWatch, readFrame, writeVars, connVars, netVars, readHist,
                 writeHist>>

\* ft_stream_accept and ft_stream_init; ft_stream_connect.
Open(connect) ==
  /\ phase = "none"
  /\ phase' = "open"
  /\ connecting' = connect
  /\ conn' = IF connect THEN "pending" ELSE "ok"
  /\ readEvents' = IF connect THEN {} ELSE {"READ"}
  /\ writeEvents' = IF connect THEN {"CONNECT"} ELSE {"WRITE"}
  /\ readWatch' = ~connect /\ writeWatch' = TRUE
  /\ writeOpen' = TRUE
  /\ UNCHANGED <<stack, partial, readShutdown, noFrames, pauseLevel, readFrame,
                 writeReady, writeShutdown, queue, tail, sysErrno, failed, inbuf,
                 outbuf, peer, shut, readHist, writeHist>>

\* ft_stream_fini; not from within a callback of the stream, which goes on to
\* use it.
Fini ==
  /\ Running("event_loop") /\ "FINI" \in Cntl
  /\ phase' = "fini"
  /\ readShutdown' = TRUE /\ UNCHANGED pauseLevel
  /\ ReadUnsetEvent({"READ"})
  /\ WriteUnsetEvent({"WRITE"})
  /\ writeShutdown' = TRUE /\ writeOpen' = FALSE /\ writeReady' = FALSE
  /\ readFrame' = NoFrame /\ queue' = <<>>
  /\ UNCHANGED <<stack, partial, noFrames, tail, connVars, netVars, readHist,
                 writeHist>>
-----------------------------------------------------------------------------
\* The kernel and the peer.
ConnectEnds(result) ==
  /\ phase = "open" /\ conn = "pending"
  /\ conn' = result
  /\ UNCHANGED <<phase, stack, readVars, writeVars, connVars, inbuf, outbuf, peer,
                 shut, readHist, writeHist>>

PeerSends ==
  /\ phase = "open" /\ conn = "ok" /\ peer = "open"
  /\ received + inbuf < MaxBytes
  /\ inbuf' = inbuf + 1
  /\ UNCHANGED <<phase, stack, readVars, writeVars, connVars, outbuf, peer, conn,
                 shut, readHist, writeHist>>

PeerReads ==
  /\ phase = "open" /\ outbuf > 0
  /\ outbuf' = outbuf - 1
  /\ UNCHANGED <<phase, stack, readVars, writeVars, connVars, inbuf, peer, conn,
                 shut, readHist, writeHist>>

PeerCloses ==
  /\ phase = "open" /\ conn = "ok" /\ peer = "open"
  /\ peer' = "closed"
  /\ UNCHANGED <<phase, stack, readVars, writeVars, connVars, inbuf, outbuf, conn,
                 shut, readHist, writeHist>>

PeerResets ==
  /\ phase = "open" /\ conn = "ok" /\ peer \in {"open", "closed"}
  /\ peer' = "reset"
  /\ outbuf' = 0
  /\ UNCHANGED <<phase, stack, readVars, writeVars, connVars, inbuf, conn, shut,
                 readHist, writeHist>>
-----------------------------------------------------------------------------
Init ==
  /\ phase = "none" /\ stack = <<>>
  /\ connecting = FALSE /\ sysErrno = FALSE /\ failed = FALSE
  /\ partial = FALSE /\ readShutdown = FALSE /\ noFrames = FALSE
  /\ pauseLevel = 0 /\ readEvents = {} /\ readWatch = FALSE
  /\ readFrame = NoFrame
  /\ writeOpen = FALSE /\ writeReady = FALSE /\ writeShutdown = FALSE
  /\ writeEvents = {} /\ writeWatch = FALSE /\ queue = <<>> /\ tail = 0
  /\ inbuf = 0 /\ outbuf = 0 /\ peer = "open" /\ conn = "ok" /\ shut = {}
  /\ received = 0 /\ offered = 0 /\ eosIn = 0 /\ aborts = 0
  /\ accepted = <<>> /\ wire = <<>> /\ stopped = FALSE

\* What the program does until it is back in the event loop.
Handler ==
  \/ ReadNoFrame \/ RecvAgain \/ RecvEof \/ RecvError
  \/ \E k \in 1 .. VecSize : RecvData(k)
  \/ \E up \in BOOLEAN : PartialReturns(up) \/ FullReturns(up)
  \/ ReadLoopsDone \/ ShutdownRead \/ LastReturns \/ SubmitEos
  \/ SubmitEosNoFrame \/ EosReturns \/ ErrorReturns
  \/ WriteLoopDone \/ WriteLoopsExceeded \/ WriteEos \/ SendAgain \/ SendError
  \/ \E k \in 1 .. VecSize : SendData(k)
  \/ WriteEvent \/ WriteDone
  \/ ConnectedReturns \/ OnWriteQueue \/ AbortWriting
EventLoop == OnRead \/ OnWrite \/ Refused \/ Connected
Application ==
  \/ \E kind \in {"data", "eos"} : Write(kind)
  \/ ReadStart \/ ReadStop \/ ReadPause \/ ReadResume \/ WriteStart \/ WriteStop
  \/ Abort \/ Fini
  \/ \E b \in BOOLEAN : SetPartial(b)
  \/ \E connect \in BOOLEAN : Open(connect)
Network ==
  \/ \E result \in {"ok", "refused"} : ConnectEnds(result)
  \/ PeerSends \/ PeerReads \/ PeerCloses \/ PeerResets

Next == Handler \/ EventLoop \/ Application \/ Network

Spec == Init /\ [][Next]_vars

\* Handlers and callbacks come to an end; each turn of the event loop invokes
\* every watcher whose descriptor is ready; connect() ends and the peer reads.
FairSpec ==
  /\ Spec
  /\ WF_vars(Handler)
  /\ SF_vars(OnRead) /\ SF_vars(OnWrite \/ Refused \/ Connected)
  /\ WF_vars(\E result \in {"ok", "refused"} : ConnectEnds(result))
  /\ WF_vars(PeerReads)
-----------------------------------------------------------------------------
InLoop == phase = "open" /\ stack = <<>>

\* Whenever the event loop runs, it watches for input exactly when the stream
\* wants some, is not paused and has not been shut down: no reading that stalls
\* for ever, no readable descriptor that keeps the loop spinning.
ReadWatchExact ==
  InLoop => (readWatch <=>
               "READ" \in readEvents /\ pauseLevel = 0 /\ ~readShutdown)

\* Whenever the event loop runs, a connected stream with frames to write waits
\* for the descriptor to become writable, unless the application has stopped the
\* writing or the stream is past it.
WriteWatchSound ==
  InLoop /\ queue # <<>> /\ ~connecting /\ ~writeShutdown /\ ~stopped =>
    writeWatch /\ "WRITE" \in writeEvents

\* A stream that has reported an error waits for nothing, whatever the callbacks
\* that were running and the application ask of it (FT_STREAM_WRITE_START
\* apart, which looks at no flag and is not called on a failed stream here).
QuietAfterError == InLoop /\ failed => ~readWatch /\ ~writeWatch

\* The kernel gets the frames in the order ft_stream_write accepted them in, and
\* each of their bytes, the end of the stream included, is at the kernel or still
\* in the queue, once, whatever callback the frames were written from.
Size(n)  == IF accepted[n] = "eos" THEN 1 ELSE VecSize * (MoreVecs + 1)
Sent(n)  == Cardinality({b \in DOMAIN wire : wire[b] = n})
Left(q)  == IF q.eos THEN 1 ELSE q.left + VecSize * q.vecs
Queued   == {queue[i].id : i \in DOMAIN queue}
SentInOrder ==
  phase = "open" =>
    /\ \A a, b \in DOMAIN wire : a <= b => wire[a] <= wire[b]
    /\ \A b \in DOMAIN wire : wire[b] \in DOMAIN accepted
    /\ \A i \in DOMAIN queue :
         /\ queue[i].id = Len(accepted) - Len(queue) + i
         /\ queue[i].id \in DOMAIN accepted
         /\ Sent(queue[i].id) + Left(queue[i]) = Size(queue[i].id)
    /\ \A n \in DOMAIN accepted : n \notin Queued => Sent(n) = Size(n)

\* Every byte received has been handed to the application or is in the one
\* frame that is not the application's: none is dropped on the way.
Undelivered(f) == IF f = NoFrame THEN 0 ELSE f.got
NothingDropped ==
  phase = "open" => received = offered + Undelivered(readFrame)

\* The end of the stream is the end: the application is handed all that was
\* received before it, and no read callback with data follows it.  Not so when it
\* aborts the stream from a read callback, leaves the frame to the stream and
\* aborts again: the frame then follows the end (line 549).
EosIsLast ==
  [][/\ eosIn' > eosIn => offered' = received'
     /\ eosIn > 0 /\ aborts < 2 => offered' <= offered]_vars

\* The assertions of stream.c that could fail hold: the stream is not connecting
\* when it reads or writes, is ready when it writes, has no read frame when a
\* callback gives one back, and is closed when an end of stream leaves the queue.
AssertionsHold ==
  /\ phase # "assert"
  /\ Top = "read_loop" => ~connecting
  /\ Top = "write_loop" =>
       /\ ~connecting
       /\ stack[1].n = 0 => writeReady
       /\ queue # <<>> /\ Head(queue).eos => ~writeOpen
  /\ Top = "read:partial" => readFrame = NoFrame

\* What the application writes reaches the kernel, unless the stream fails, is
\* aborted, stopped or finalised first.
EverythingSent ==
  \A n \in 1 .. MaxWrites :
    n <= Len(accepted) ~>
      \/ \A i \in DOMAIN queue : queue[i].id > n
      \/ failed \/ aborts > 0 \/ stopped \/ phase # "open"

\* A stream whose peer has closed hands the application the end of the stream,
\* unless it is kept from reading.
EosArrives ==
  (phase = "open" /\ peer = "closed" /\ "READ" \in readEvents) ~>
    \/ eosIn > 0 \/ "READ" \notin readEvents \/ pauseLevel > 0
    \/ failed \/ aborts > 0 \/ phase # "open"
=============================================================================
