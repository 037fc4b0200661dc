------------------------------- MODULE SyslogSend -------------------------------
(***************************************************************************)
(* How the syslog backend gets frames and sends them (src/log_syslog.c),   *)
(* with what it needs of the pool and of its datagram socket               *)
(* (src/sock/dgram.c), for module Log, which says what "g" is.  All of this *)
(* may log; what a log call does is a parameter.                           *)
(***************************************************************************)
EXTENDS Frame, FiniteSetsExt

CONSTANTS
  Say(_, _),    \* a log call: g, and whether _ft_log_v makes it
  Gone(_, _),   \* g, when the kernel has taken that many vecs of the queue
  None

\* ft_pool_borrow for a log frame, which logs that there is none.
Borrowed == [f |-> FormatEmpty, ids |-> <<>>]
FrameAlloc(g) ==
  IF g.free > 0 THEN [g EXCEPT !.free = @ - 1, !.frame = Borrowed]
  ELSE Say([g EXCEPT !.dry = TRUE], TRUE)

\* _ft_dgram_write_real and _ft_dgram_error, when the kernel takes "answer.n" of
\* the vecs and is then full, or has an error, which is
\* logged before the socket is shut down and leaves what is not sent in the queue.
Failed(g) == [g EXCEPT !.sock.open = FALSE, !.sock.failed = TRUE]
Stuck(g, fails) ==
  CASE g.queue = <<>> -> g
    [] g.queue # <<>> /\ fails -> Failed(Say([g EXCEPT !.sock.ready = FALSE], FALSE))
    [] OTHER -> [g EXCEPT !.sock.ready = FALSE, !.sock.watch = TRUE]
WriteReal(g, answer) ==
  IF g.sock.failed THEN Stuck(g, TRUE)
  ELSE Stuck(Gone(g, Min({answer.n, Len(g.queue)})), answer.error)

\* ft_dgram_write of a frame with these records, and ft_frame_return of one it
\* refuses.
Vecs(ids) == [i \in DOMAIN ids |-> [id |-> ids[i], last |-> i = Len(ids)]]
Write(g, ids, answer) ==
  IF ~g.sock.open THEN [Say(g, TRUE) EXCEPT !.free = @ + 1]
  ELSE LET h == [g EXCEPT !.queue = @ \o Vecs(ids)]
       IN IF g.sock.ready THEN WriteReal(h, answer)
          ELSE [h EXCEPT !.sock.watch = TRUE]

\* ft_log_syslog_send: the frame is replaced, by a new one or by none, and then
\* written, unless it is empty.
Send(g, new, answer) ==
  LET ids == IF g.frame = None THEN <<>> ELSE g.frame.ids
      without == [g EXCEPT !.frame = None]
  IN CASE ids = <<>> /\ new -> [g EXCEPT !.frame = Borrowed]
       [] ids = <<>> /\ ~new -> without
       [] OTHER -> Write(IF new THEN FrameAlloc(without) ELSE without,
                         ids, answer)
=============================================================================
