---------------------------------- MODULE Log ----------------------------------
(***************************************************************************)
(* Logging (src/log.c) and its two backends, the file (src/log_file.c) and *)
(* syslog (src/log_syslog.c), with what syslog needs of its datagram socket *)
(* (src/sock/dgram.c) and of the frame pool.                               *)
(*                                                                         *)
(* A log call may run inside another: the pool logs that it is dry and the *)
(* socket that it failed while a record is being written.  The handlers are *)
(* therefore functions of "g", all there is to know of the logging, and the *)
(* ones that can log (module SyslogSend) are instantiated twice: with what  *)
(* a log call does inside ft_logrecord_process, and with a whole log call.  *)
(* A record is its number, or 0 for one of libft's own, which are left out *)
(* where records are collected without end; its length; whether _ft_log_v made it,   *)
(* which keeps the record in a static variable; and the length of what the *)
(* format puts before the text.                                            *)
(*                                                                         *)
(* An operator that is not reached from Next is the next definition with a *)
(* bug in it; the properties are known to catch it.                        *)
(***************************************************************************)
EXTENDS Frame, FiniteSets, FiniteSetsExt

CONSTANTS
  Sizes,        \* lengths of the messages the application logs
  Headers,      \* lengths of what is put before them
  Overhead,     \* the room allowed for that, 128
  Frames,       \* frames of the pool
  FlushMax,     \* ft_config.log_file.flush_counter_max
  MaxRecords,   \* bound: records the application logs
  MaxChanges,   \* bound: changes of the configuration
  None

ASSUME LogAssumption == /\ Sizes \cup Headers \cup {Overhead, Frames, FlushMax} \subseteq Nat
                        /\ MaxRecords \in Nat /\ MaxChanges \in Nat
\* The messages of libft's own, which are short, fit an empty frame.
ASSUME OwnFits == 1 + Overhead <= FrameSize - VecSize

VARIABLES
  backend,      \* ft_config.log_backend: "file", "syslog", None
  file,         \* ft_config.log_file, its buffer and the records on the disk
  frame,        \* ft_log_syslog_frame and the records in its vecs, or None
  sock,         \* ft_log_syslog_dgram
  queue,        \* the vecs of its write queue: the record, the last of a frame
  free, taken,  \* frames in the pool, and of other users
  phase,        \* "running", "crashed", "looping" in ft_dgram_flush, "retrying"
                \* a record in ft_log_syslog_backend_logrecord_process
  sent,         \* records the syslog daemon has received
  err,          \* records printed on stderr
  logged,       \* history: for each record logged, whether _ft_log_v did it
  dry,          \* history: the pool has had no frame for a log record
  changes       \* bound: MaxChanges

vars == <<backend, file, frame, sock, queue, free, taken, phase, sent, err,
          logged, dry, changes>>

\* The record being logged is g.le.
Log == [backend |-> backend, file |-> file, frame |-> frame, sock |-> sock,
        queue |-> queue, free |-> free, phase |-> phase, sent |-> sent,
        err |-> err, dry |-> dry, le |-> None]
Become(h) ==
  \E g \in {h} :
    /\ backend' = g.backend /\ file' = g.file /\ frame' = g.frame
    /\ sock' = g.sock /\ queue' = g.queue /\ free' = g.free /\ phase' = g.phase
    /\ sent' = g.sent /\ err' = g.err /\ dry' = g.dry
    /\ UNCHANGED taken

Message(id, size, plain, header) ==
  [id |-> id, size |-> size, plain |-> plain, header |-> header]
Own(plain) == Message(0, 1, plain, 0)

\* NULL is no frame, no record and not the name of a backend.
LogFrame == [f : [vecs : Seq(Vec), at : Nat], ids : Seq(Nat)]
Record == [id : Nat, size : Nat, plain : BOOLEAN, header : Nat]
ASSUME NoneAssumption == None \notin LogFrame \cup Record \cup {"file", "syslog"}

Numbered(id) == IF id = 0 THEN <<>> ELSE <<id>>

Init ==
  /\ backend = "file"
  /\ file = [name |-> FALSE, open |-> FALSE, buffer |-> <<>>, disk |-> <<>>,
             counter |-> 0, last |-> "past"]
  /\ frame = None
  /\ sock = [claimed |-> FALSE, up |-> FALSE, open |-> FALSE, ready |-> FALSE,
             watch |-> FALSE, failed |-> FALSE]
  /\ queue = <<>> /\ free = Frames /\ taken = 0 /\ phase = "running"
  /\ sent = <<>> /\ err = <<>> /\ logged = <<>> /\ dry = FALSE /\ changes = 0
-----------------------------------------------------------------------------
\* ft_logrecord_emergency_fprint
Emergency(g) == [g EXCEPT !.err = @ \o Numbered(g.le.id)]

\* A log call inside ft_logrecord_process prints its record, and has built it
\* where the record that is being processed is, unless that one is elsewhere.
Nested(g, plain) ==
  IF plain /\ g.le.plain THEN [g EXCEPT !.le.id = 0] ELSE g

\* The file backend: a record goes to the buffer of the file, or to stderr.
FileProcess(g) ==
  LET counted == [g EXCEPT !.file.counter = Min({@ + 1, FlushMax})]
  IN IF ~g.file.open THEN Emergency(counted)
     ELSE [counted EXCEPT !.file.buffer = @ \o Numbered(g.le.id)]

Written(g) == [g EXCEPT !.file.disk = @ \o g.file.buffer, !.file.buffer = <<>>]

\* ft_log_file_flush: "now" is the time, or 1e77 for a forced one, which
\* flush_last then keeps; "due" is whether the interval is over.
FileFlush(g, forced, due) ==
  IF \/ g.file.counter >= FlushMax
     \/ g.file.last # "1e77" /\ (forced \/ due)
  THEN [Written(g) EXCEPT !.file.counter = 0,
                          !.file.last = IF forced THEN "1e77" ELSE "past"]
  ELSE g

\* fclose() writes what is in the buffer.
FileFiniForgets(g) == [g EXCEPT !.file.buffer = <<>>, !.file.open = FALSE,
                                !.file.name = FALSE]
FileFini(g) == [Written(g) EXCEPT !.file.open = FALSE, !.file.name = FALSE]
-----------------------------------------------------------------------------
\* What the kernel answers to one run of _ft_dgram_write_real: it takes "n" of
\* the vecs, then the buffer is full or there is an error.
Answer == [n : 0 .. 2, error : BOOLEAN]
NoAnswer == [n |-> 0, error |-> FALSE]

\* The vecs it takes, their records received and their frames returned.
Gone(g, n) ==
  [g EXCEPT !.queue = SubSeq(@, n + 1, Len(@)),
            !.sent = @ \o [i \in 1 .. n |-> g.queue[i].id],
            !.free = @ + Cardinality({i \in 1 .. n : g.queue[i].last})]

Reentry == INSTANCE SyslogSend WITH Say <- Nested

\* The record goes into a vec of its own, with room for its text.  One that is
\* too long for the vec after all is printed.
PutKeepsVec(g) ==
  LET r == g.le
      f == AppendVec(g.frame.f, r.size + Overhead)
      v == Advance(Last(f.vecs), r.size + r.header)
      g1 == IF r.header >= Overhead THEN Emergency(g) ELSE g
  IN [g1 EXCEPT !.frame = [f |-> [f EXCEPT !.vecs[Len(f.vecs)] = Trim(v)],
                           ids |-> Append(@.ids, r.id)]]
Put(g) ==
  LET r == g.le
      f == AppendVec(g.frame.f, r.size + Overhead)
      v == Advance(Last(f.vecs), r.size + r.header)
  IN IF r.header >= Overhead THEN Emergency(g)
     ELSE [g EXCEPT !.frame =
             [f |-> [f EXCEPT !.vecs[Len(f.vecs)] = Trim(v)],
              ids |-> Append(@.ids, r.id)]]

\* ft_log_syslog_backend_logrecord_process: a frame that is full is sent, and
\* the record tried again in the next one: for ever, if it is too long for an
\* empty frame.
Alloc(g) == IF g.frame = None THEN Reentry!FrameAlloc(g) ELSE g
Full(g) == g.frame # None /\ ~Fits(g.frame.f, g.le.size + Overhead)
Replaced(g, answer) ==
  IF Full(g) THEN Alloc(Reentry!Send(g, TRUE, answer)) ELSE g
PutOrPrint(g) == IF g.frame = None THEN Emergency(g) ELSE Put(g)
SyslogProcess(g, answer) ==
  LET h == Replaced(Alloc(g), answer)
  IN IF Full(h) THEN [h EXCEPT !.phase = "retrying"] ELSE PutOrPrint(h)

\* ft_logrecord_process
Process(g, r, answer) ==
  LET h == [g EXCEPT !.le = r]
  IN [ CASE g.backend = None -> Emergency(h)
         [] g.backend = "file" -> FileProcess(h)
         [] OTHER -> SyslogProcess(h, answer)
       EXCEPT !.le = None ]

\* A message of libft's own, outside of ft_logrecord_process.
Call(g, plain) == Process(g, Own(plain), NoAnswer)
Top == INSTANCE SyslogSend WITH Say <- Call

\* ft_log_syslog_backend_on_prepare: without a frame it follows a null pointer.
SendFrame(g, answer) ==
  CASE g.frame = None -> [g EXCEPT !.phase = "crashed"]
    [] g.frame # None /\ g.frame.ids = <<>> -> g
    [] OTHER -> Top!Send(g, TRUE, answer)
SyslogPrepare(g, answer) ==
  SendFrame(IF g.frame = None THEN Top!FrameAlloc(g) ELSE g, answer)

\* ft_dgram_flush writes until the queue is empty: for ever, once the socket has
\* failed.  Afterwards the socket is as ready as it was.
Flushed(g, ready) == IF g.queue # <<>> THEN [g EXCEPT !.phase = "looping"]
                     ELSE [g EXCEPT !.sock.ready = ready]
AllOf(g, answer) ==
  IF answer.error THEN answer ELSE [answer EXCEPT !.n = Len(g.queue)]
DgramFlush(g, answer) ==
  IF g.queue = <<>> \/ g.phase = "crashed" THEN g
  ELSE Flushed(Top!WriteReal([g EXCEPT !.sock.ready = TRUE], AllOf(g, answer)),
               g.sock.ready)

\* ft_log_syslog_backend_flush.  A frame that has come back holds what the
\* writing has logged, and is given up with one more message in it.
GiveUpKeeps(g) == [g EXCEPT !.frame = None]
GiveUp(g) == IF g.frame = None THEN [g EXCEPT !.phase = "crashed"]
             ELSE [g EXCEPT !.frame = None, !.free = @ + 1]
LoseFrame(g) ==
  IF g.frame = None THEN g
  ELSE GiveUp(IF g.frame.ids # <<>> THEN Call(g, TRUE) ELSE g)
FlushFrame(g, answer) ==
  IF g.frame = None THEN g
  ELSE LoseFrame(IF g.frame.ids # <<>> THEN Top!Send(g, FALSE, answer) ELSE g)
SyslogFlush(g, answer) == DgramFlush(FlushFrame(g, answer), answer)

\* ft_log_syslog_backend_fini: nothing makes the socket forget that it was
\* initialised.
SocketFini(g) ==
  IF g.phase # "running" THEN g
  ELSE [g EXCEPT !.sock.up = FALSE, !.sock.open = FALSE,
                 !.sock.ready = FALSE, !.sock.watch = FALSE]
SyslogFini(g, answer) == SocketFini(SyslogFlush(g, answer))
-----------------------------------------------------------------------------
\* ft_log_file_reopen: the new file is opened before the old one is closed, and
\* what goes wrong is logged, to the old one.
FileReopen(g, opened) ==
  CASE ~g.file.name /\ ~g.file.open -> g
    [] ~g.file.name /\ g.file.open -> Call(g, TRUE)
    [] g.file.name /\ ~opened -> Call(g, FALSE)
    [] g.file.name /\ opened /\ g.file.open -> Call(Written(g), TRUE)
    [] OTHER -> [g EXCEPT !.file.open = TRUE]

\* The calls of the application, and of the event loop.
Running == phase = "running"
Step(g) == Become(g) /\ UNCHANGED <<logged, changes>>
Change(g) == /\ changes < MaxChanges /\ changes' = changes + 1
             /\ Become(g) /\ UNCHANGED logged

\* FT_INFO and its like, _ft_log_v, _ft_log_errno_v and _ft_log_openssl_err_v.
AppLogs(size, plain, header, answer) ==
  /\ Running /\ Len(logged) < MaxRecords
  /\ Become(Process(Log, Message(Len(logged) + 1, size, plain, header), answer))
  /\ logged' = Append(logged, plain)
  /\ UNCHANGED changes

\* ft_context_on_prepare, before the loop goes to sleep; with a frame that is
\* empty it changes nothing.
FilePrepare(due) ==
  Running /\ backend = "file" /\ Step(FileFlush(Log, FALSE, due))
Prepare(answer) ==
  /\ Running /\ backend = "syslog" /\ frame # Reentry!Borrowed
  /\ Step(SyslogPrepare(Log, answer))

\* ft_log_flush; without a context it is always forced.
AppFlushesFile(forced, due) ==
  Running /\ backend = "file" /\ Change(FileFlush(Log, forced, due))
AppFlushes(answer) ==
  Running /\ backend = "syslog" /\ Change(SyslogFlush(Log, answer))

\* _ft_dgram_on_write
OnWriteStops(answer) ==
  LET g == [Log EXCEPT !.sock.ready = TRUE] IN
  /\ Running /\ sock.watch
  /\ Step([IF queue = <<>> THEN g ELSE Top!WriteReal(g, answer)
           EXCEPT !.sock.watch = FALSE])
OnWrite(answer) ==
  LET g == [Log EXCEPT !.sock.ready = TRUE, !.sock.watch = FALSE] IN
  /\ Running /\ sock.watch
  /\ Step(IF queue = <<>> THEN g ELSE Top!WriteReal(g, answer))

\* _ft_context_on_sighup; opening the file may fail.
Sighup(opened) ==
  Running /\ backend = "file" /\ Change(FileReopen(Log, opened))

\* ft_log_file_backend_init, with a name or NULL for stderr.
FileInit(named, opened) ==
  LET g == FileFini(Log) IN
  /\ Running
  /\ Change(FileReopen([g EXCEPT !.file.name = named], opened))

\* ft_log_syslog_backend_init; connecting to the daemon may fail, and then the
\* socket is finalised but still counts as initialised.
SyslogInit(connected) ==
  /\ Running
  /\ Change(IF sock.claimed THEN Call(Log, TRUE)
            ELSE [Log EXCEPT !.sock.claimed = TRUE, !.sock.up = connected,
                             !.sock.open = connected, !.sock.watch = connected])

\* ft_log_backend_switch: the new backend is set before the old one is
\* finalised.  Applications switch to syslog when it is initialised.
FiniOf(g, old, answer) == CASE old = "file" -> FileFini(g)
                            [] old = "syslog" -> SyslogFini(g, answer)
                            [] OTHER -> g
Switch(to, answer) ==
  LET new == IF to = None THEN "file" ELSE to IN
  /\ Running /\ to # backend
  /\ to = "syslog" => sock.up
  /\ Change(FiniOf([Log EXCEPT !.backend = new], backend, answer))

\* ft_log_finalise, of ft_context_fini.
Finalise(answer) ==
  /\ Running
  /\ Change(FiniOf([Log EXCEPT !.backend = None], backend, answer))

\* Others borrow frames and return them.
Others ==
  /\ Running
  /\ \/ free > 0 /\ free' = free - 1 /\ taken' = taken + 1
     \/ taken > 0 /\ free' = free + 1 /\ taken' = taken - 1
  /\ UNCHANGED <<backend, file, frame, sock, queue, phase, sent, err, logged, dry,
                 changes>>

Next ==
  \/ \E n \in Sizes, plain \in BOOLEAN, h \in Headers, a \in Answer :
       AppLogs(n, plain, h, a)
  \/ \E due \in BOOLEAN : FilePrepare(due)
  \/ \E a \in Answer : Prepare(a)
  \/ \E forced, due \in BOOLEAN : AppFlushesFile(forced, due)
  \/ \E a \in Answer : AppFlushes(a)
  \/ \E a \in Answer : OnWrite(a)
  \/ \E opened \in BOOLEAN : Sighup(opened)
  \/ \E named \in BOOLEAN, opened \in BOOLEAN : FileInit(named, opened)
  \/ \E connected \in BOOLEAN : SyslogInit(connected)
  \/ \E to \in {"file", "syslog", None}, a \in Answer : Switch(to, a)
  \/ \E a \in Answer : Finalise(a)
  \/ Others

\* The loop turns; a socket that is watched can be written some day, or fails.
\* Weak fairness, with what enables the actions written out.
Fairness ==
  /\ \/ []<>~(Running /\ backend = "syslog" /\ frame # Reentry!Borrowed)
     \/ []<><<\E a \in Answer : Prepare(a)>>_vars
  /\ \/ []<>~(Running /\ sock.watch)
     \/ []<><<\E a \in Answer : (a.n > 0 \/ a.error) /\ OnWrite(a)>>_vars

Spec == Init /\ [][Next]_vars /\ Fairness
-----------------------------------------------------------------------------
\* Where the records are.
Queued(g) == [i \in DOMAIN g.queue |-> g.queue[i].id]
Framed(g) == IF g.frame = None THEN <<>> ELSE g.frame.ids
ToSyslog(g) == g.sent \o Queued(g) \o Framed(g)
ToFile(g) == g.file.disk \o g.file.buffer
Somewhere(g) == Range(ToSyslog(g)) \cup Range(ToFile(g)) \cup Range(g.err)

\* Of the application's records; libft's own are not told apart.
Ascending(ids) ==
  \A i, j \in DOMAIN ids : i < j /\ 0 \notin {ids[i], ids[j]} => ids[i] < ids[j]
Apart(s, t) == Range(s) \cap Range(t) \subseteq {0}

\* Whatever is switched, flushed, reopened or refused, the records reach each
\* sink in the order they were logged in, and none is written twice: a record
\* that a full frame, or a failing call, has had tried again is in one place
\* (ft_log_syslog_backend_logrecord_process, "retry").
InOrder(g) ==
  /\ Ascending(ToSyslog(g)) /\ Ascending(ToFile(g)) /\ Ascending(g.err)
  /\ Apart(ToSyslog(g), ToFile(g)) /\ Apart(ToSyslog(g), g.err)
  /\ Apart(ToFile(g), g.err)
OnceInOrder == InOrder(Log)

\* A record is lost only with cause: the syslog socket has failed; or the pool
\* ran out of frames, and then only one that _ft_log_v keeps in its static
\* record, which the warning of the pool overwrites (log.c:38); or it is too long
\* for a frame, and then it is the last one, for it is tried again for ever.
LostOnlyWithCause ==
  \A id \in DOMAIN logged :
    \/ id \in Somewhere(Log) \/ sock.failed \/ (dry /\ logged[id])
    \/ phase = "retrying" /\ id = Len(logged)

\* The frames of the log are all accounted for: the one being filled, those in
\* the write queue of the socket, or back in the pool.
FramesAccounted ==
  free + taken + (IF frame = None THEN 0 ELSE 1)
    + Cardinality({i \in DOMAIN queue : queue[i].last}) = Frames

\* While the loop turns, no record waits for ever, in the frame that is not full
\* or in the queue of the socket (ft_log_syslog_backend_on_prepare sends what
\* there is), unless the socket fails.
SyslogDrains ==
  <>[](Range(Queued(Log) \o Framed(Log)) \subseteq {0} \/ sock.failed
         \/ phase # "running")
=============================================================================
