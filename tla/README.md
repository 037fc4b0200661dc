# Frame Transporter (libft): TLA+ specifications

libft is an event-driven networking library in C on top of libev. Programs
exchange *frames*, blocks of a fixed size borrowed from a pool, with sockets
that call them back. This directory holds TLA+ models of its components, TLC
configurations that check them on small instances, and proofs checked by TLAPS.

All paths below are relative to the root of the repository (`src/sock/stream.c`,
`include/ft/pubsub.h`).

## 1. The system

The library runs in one thread around one libev loop; only the lock-free stack,
which no part of it uses yet, is for several. Nothing else is preempted; what makes
it hard is *re-entrancy*. A handler of a socket calls the application's delegate in
the middle of its loop, the delegate calls the socket again (writes, pauses, aborts,
shuts down), which may call the delegate again, and the handler then continues with
whatever is left of its state. Logging is re-entrant in the same way: writing a
record may fail, and the failure is logged. Between two handlers the kernel and the
peers move, so every result of a system call is a choice. What outlives a process is
the PID file (modelled in `Daemon`), the log file, and the file of a UNIX socket
(not modelled).

### Components

| Component | State | Operations | What makes it correct |
|---|---|---|---|
| Frame pool, `src/mempool/pool.c`, `zone.c`, `ft_frame_return` in `include/ft/mempool/pool.h` | chain of zones, a stack of free frames, a use counter and a removal timer each; totals; "last zone" flag; allocator | borrow, return, set allocator, heartbeat, finalise | one holder per frame; counters and stacks agree; no zone is unmapped under a holder or before its time, but an idle one is in the end |
| TCP stream, `src/sock/stream.c` | two watchers and what they are wanted for; pause level; frame being filled; write queue with a pointer to its end; shutdown and error flags; TLS state | connect, accept, read and write handlers, `ft_stream_write`, `ft_stream_cntl`, finalise | no byte lost, repeated or reordered; end of stream last; watchers neither forgotten nor spinning; assertions hold whatever a callback does |
| Datagram socket, `src/sock/dgram.c` | the same without connection phases or TLS, plus bound and connected flags | bind, connect, read, write, flush, shutdown, finalise | the same by datagrams; an error costs one frame or the whole socket, never something in between |
| Publish-subscribe, `src/pubsub.c` | a chain of subscribers per pubsub, a back pointer and a topic in each | subscribe, unsubscribe, publish | the chain survives being changed while it is walked along; everyone subscribed is called once |
| Context, `src/context.c` | the loop, its signal watchers, prepare, heartbeat and shutdown timers, libev reference counts, flags | init, run, polite and forced stop, SIGHUP, heartbeat | the loop ends when it was asked to and nothing keeps it, not before |
| Listener, `src/sock/listener.c` | descriptor, watcher, statistics; lists of listeners | create from address info, start, stop, accept, list control | accepts until the backlog is empty; no descriptor leaks when the delegate refuses |
| SOCKS proxy, `src/proto/socks.c`, and the relay of `examples/socks` | the header read so far, the vec it waits for; two streams and a list of relays | read, connected, error; relaying and removal | the target asked for is the one in the request however it is cut into segments; one answer per message; bytes pass in order; a relay with no peers goes away |
| Frame and vecs, `src/mempool/frame.c`, `include/ft/mempool/frame.h`, `vec.h` | vecs with position, limit, capacity | format, append, create and remove vecs, advance, trim, flip, next, previous | a vec stays inside its frame and apart from the others, whatever the sequence of calls |
| IP address hash map, `src/cols/iphashmap.c` | buckets allocated with the first entry, chains, a counter | add, get, pop by text or address, clear, load a file | a dictionary; the counter says exactly when the buckets may go |
| Logging, `src/log.c`, `log_file.c`, `log_syslog.c` | the record being built, the back end, file and flush counter, syslog frame and socket | log, flush, reopen, switch back end, prepare | each record once and in order, lost only for a reason; nothing waits for ever |
| Daemon, `src/daemon.c` | three processes, a pipe, a PID file and its lock | check, fork, hand the result to the father, write and remove the PID file | the father is told the truth; one server runs and the file names it; a launch ends |
| Lock-free stack, `src/cols/stack.c` | a head (a counter and a pointer), a size, the next pointers of the nodes | push, pop, clear, by any thread | calls take effect at once, although nodes are freed and reused under a pop; the size is right in the end |
| List, `src/cols/list.c` | a chained list | add, remove | no element lost or duplicated |
| Configuration, INI parser, helpers | parsed values | parse, convert | pure conversions |

### Interactions

Sockets and the application borrow frames from the context's pool and return them
(`ft_pool_borrow`, `ft_frame_return`). The context publishes its heartbeat and the
pool its low-memory messages through a pubsub; the pool subscribes to the
heartbeat. libev calls the handlers of the watchers that are ready, those of higher
priority first. Listeners hand accepted descriptors to the application, which
initialises streams on them. The SOCKS proxy is the delegate of a stream until it
is connected and hands it to the relay. Logging to syslog borrows frames from the
pool, writes them to a datagram socket and flushes it, all of which log.

## 2. Plan

Ordered by how much depends on the component and how hard it is to test.

Done: `FramePool` with the abstract `FrameStore` it implements; `Stream` without TLS;
`PubSub`; `Dgram`; `Context` and `Listener` composed; frames and vecs (`Frame`), and on top
of them `Socks` with the relay, and `Log` with its syslog socket; the hash map with the
abstract `Dictionary` it implements; `Daemon`; the lock-free stack with the abstract `Lifo`
it implements. Proofs of all but `Socks`, as section 6 says.

Left, in this order:

1. Proofs for `Socks`: `AlwaysRoom` rests on the vecs that `LogProofs` proves sound, but also on
   how the length of a request (`RoomFor`) bounds the vecs of every segmentation of it.
2. The throttling of `examples/reply`: `Stream`, `FramePool` and the low-memory
   messages composed.
3. TLS in `Stream`: crossed wants, handshake, shutdown in both directions. It needs a
   model of what OpenSSL leaves behind after each call, which the repository does not
   determine.

## 3. Modules

| Module | Models | Extends or uses |
|---|---|---|
| `FrameStore` | the abstract store: lend, take back, grow, shrink | |
| `FramePool` | the pool, its zones and heartbeat | |
| `FramePoolRefinement` | the mapping of the pool to the store | `FramePool`, `FrameStore` |
| `FramePoolProofs` | theorems and proofs about the pool | `FramePoolRefinement` |
| `MCFramePool` | instance for TLC | `FramePoolRefinement` |
| `Frame` | frames and vecs, as operators on values | |
| `Stream`, `MCStream` | a TCP stream without TLS | |
| `StreamProofs` | theorems and proofs about it | `Stream` |
| `PubSub`, `MCPubSub` | publishing | |
| `PubSubProofs` | theorems and proofs about it | `PubSub` |
| `Dgram`, `MCDgram` | a datagram socket | |
| `DgramProofs` | theorems and proofs about it | `Dgram` |
| `Context` | the context and the libev loop | |
| `Listener`, `MCListener` | listeners, connections and the application in that loop | `Context` |
| `Socks`, `MCSocks` | the SOCKS proxy and its relay | `Frame` |
| `Dictionary` | the abstract map of addresses | |
| `IPHash` | the hash functions, by bits | |
| `IPHashMap` | the hash map | `Dictionary` |
| `IPHashMapProofs` | theorems and proofs about it | `IPHashMap` |
| `MCIPHashMap` | an instance with the real hash of four addresses | `IPHashMap`, `IPHash` |
| `SyslogSend` | how the syslog back end gets frames and sends them | `Frame` |
| `Log`, `MCLog` | logging and its back ends | `Frame`, `SyslogSend` |
| `LogProofs` | theorems and proofs about frames and about logging | `Log` |
| `Daemon`, `MCDaemon` | launches of a server and its PID file | |
| `ProcessProofs` | theorems and proofs about a process: its context and listeners, and how it became a daemon | `Listener`, `Daemon` |
| `Lifo` | the abstract stack, whose calls take effect at once | |
| `LockFreeStack` | the lock-free stack | `Lifo` |
| `LockFreeStackProofs` | theorems and proofs about it | `LockFreeStack` |
| `MCLockFreeStack` | instance for TLC | `LockFreeStack` |

`PROJECT.json` maps each definition to the lines it stands for.

**Steps.** In `FramePool` and `IPHashMap` each public function is one action: none of
them calls the application before it is done. (The low-memory message is recorded in `lowmem`
at the end of the call that publishes it; what the pool logs may borrow a frame in turn, which
is in `Log`; loading a file is a step per line.) In `Stream`,
`Dgram` and `PubSub` a function is cut wherever it calls the application or the kernel.
The running functions are on a `stack`, the innermost first, each with its local
variables that matter: the loop counter, the frame handed to a callback, the subscriber
the loop is at. When the stack is empty the event loop picks a ready watcher; when its
top is a callback the application may call any operation, which pushes a further
function, or return. The stack of C is thus modelled as it is, to the depth
`MaxDepth`. In `Socks` a step is a handler of the loop, in `Daemon` a system call.

**FramePool.** A frame is `<<zone address, index>>`. An address can be mapped again
after `munmap`, so a dangling frame would be noticed as a frame of the wrong zone.
`order` is the order of the chain. `left` is `free_at` relative to now, which is all
the code ever compares; `Tick` lowers it. `held` and `idle` are history: what callers
believe to hold, and how long a zone has really been idle. Allocators are described
by the zones they ask for (`Requests`).

**Stream.** Bytes are counted, not told apart, except that each byte on the `wire`
knows the frame it came from. `readFrame` is what is in the frame and the room left;
`tail` is where `write_frame_last` points, so that a frame chained through a stale
pointer is lost in the model as in the code. The socket is `inbuf`, `outbuf`, the
state of the peer and of `connect()`. The pool is represented by its answer: any
borrow may fail.

**Dgram.** The same with datagrams. Each frame in the queue has its `vec_position` and
`vec_limit`, because a control block is the last vec and taking it away lowers the
limit. `recvmsg()` and `sendmsg()` may fail whenever they are called.

**PubSub.** `chain` is what the `next` pointers form. Each publishing on the stack is
at a subscriber and continues from *that subscriber's* next pointer, so unsubscribing,
subscribing again and moving to another pubsub during a callback are as in the code.
`called`, `since` and `cut` are history.

**Context, Listener.** The loop polls, which makes started watchers `pending`, and
invokes the pending ones one by one; it ends when libev's reference count `activecnt`
is zero. That count is modelled as libev keeps it: a start or a stop changes it only
when it changes the watcher, `ev_ref` and `ev_unref` change it alone. A signal is
`caught` at any time and seen at the next poll; without a handler it kills the process.
`Listener` adds listeners and connections as watchers. A stream is only its reference
to the loop and the end its peer puts to it. `wanted` (the listeners the application has
started) is history.

**Frame.** A frame is its vecs and `vec_position`; the bytes are kept by the modules
that need them. `WellFormed` is the invariant `vec.h` draws (lines 26 to 43).

**Socks.** The client sends one of `Requests`, as `Wire` encodes it after the documents
`socks.c` refers to, cut into segments anywhere, and waits for each answer.
`SocksRead` is `ft_proto_socks_stream_delegate_read` with everything it dispatches to: it
walks over the vecs read so far, and adds the vec for what it expects next. The memory
of a frame keeps what was there (`Stale`), since the code reads the version before a
byte has arrived in one place. Of the two streams only what `Stream` promises is kept.
A name goes through a buffer of `HostSize` bytes, which cuts it (`Name`, `Name4A`). A vec
that does not fit the frame is not added, and nobody looks (`TryAppendVec`); reading with no
room to read into ends the process (`ReadAsserts`, the phase "broken"). Until
`ft_stream_connect` the stream to the target is what `malloc()` left there
(`Uninitialised`), and after a `connect()` that has failed at once it is half initialised
(`Stillborn`). `MCSocks` has each address type, users, methods to choose from, messages that
are refused or not understood, names that are empty, hold a NUL, just fit the buffer or
do not, and users and names that fill a frame or overflow it.

**IPHashMap.** `buckets` is `NULL` or the chains. A text is what its characters make
the code choose and what `inet_pton` makes of it in either family. The hash is a
constant; `IPHash` computes it as the code does, and `MCIPHashMap` assumes (so that TLC
checks it) that the values it uses are the computed ones. `DictSpec` maps the chains to
a function from addresses to data.

**Log.** All there is to know is one record `g`, and each function of the code is an
operator on it, because a log call inside another runs in the middle of it. What sends
to syslog may log, and is instantiated twice: inside `ft_logrecord_process` a log call is
only printed (`Reentry`), elsewhere it is a whole log call (`Top`). The record of a plain log
call is a static variable, so a nested one overwrites it (`Nested`). A record is a number and
lengths; where it ends up (`file`, `sent`, `err`) is all the properties ask. Where the code
does not come back the model stops: "crashed", "looping" in a flush, or "retrying" a record
that is too long for an empty frame.

**Daemon.** Each launch is three processes, `father`, `child`, `daemon`, with a pipe. A
file is known by the launch that created it, and `path` is the file the name refers to,
so a file that is unlinked while another process holds it open is told from the one
that follows it. A lock has the kind `fcntl` takes: to write or, where the file can only be
read, to read. Any process may be killed between two system calls; PIDs of dead
daemons may come to belong to other programs; opening, locking or reading the PID file may
fail (`CheckFails`), and so may unlinking it. `overlap` and `misled` (a check has failed
while a server was running) are history. The specification is
called `DaemonSpec`, so that one module of proofs can extend it and `Listener` together.

**LockFreeStack.** A step is an access to what threads share: loading the head, writing or
reading a next pointer, the exchange, changing the size, testing it. What a pop reads from
a node that has been freed meanwhile is any value. `aba` is a number that does not come
round (in the code a `uintptr_t`, which would have to do so while one thread waits); `size`
is a number below zero where the `size_t` of the code is near its end, and
`ft_stack_clear` asks whether it is zero. `content` is history: the nodes in the order of
the exchanges; with `has` it is also the state of `Lifo`.

In every module, an operator that `Next` does not reach is the next definition with a
plausible bug; `PROJECT.json` pairs it with the property that catches it.

## 4. Runs

Run one with `tlc -config MCStream_read.cfg MCStream`.

| Run | What it asks | States | Bounds |
|---|---|---|---|
| `pool` | one holder, low-memory numbers, unmapping late enough but in the end, `StoreSpec` (refinement) | 405 000 | 3 addresses, zones of 1 and 2 frames, at most 4 frames mapped over a life, timeout 1 |
| `stream_write` | queue, order, write watcher, assertions; everything sent, end of stream reported | 149 000 | 3 frames of 2 bytes, kernel buffer 2, loop limit 1, 1 byte to read, 1 abort |
| `stream_read` | read watcher, bytes, end of stream, errors | 970 000 | 4 bytes, frames of 2 + 2, read loop limit 2, pause level 2, 2 aborts |
| `pubsub_safety` | chains, calls | 813 000 | 4 subscribers (one without callback), 2 pubsubs, 2 nested publishings of up to 4 calls |
| `dgram_safety` | watchers, queue, end of stream | 2 700 000 | 2 datagrams, read frames of 2 vecs, 2 frames to write, depth 4 |
| `dgram_control` | finding | | |
| `listener_exit` | reference count, accepting; the loop ends, connections are accepted | 149 000 | 2 listeners (one without accept callback), 2 connections, SIGINT and SIGHUP |
| `socks_relay` | room for what is read, the target, order of answers and bytes; the relay is removed | 506 000 | 21 requests, a frame of 26 and a name buffer of 5 bytes, 1 byte each way behind the request, one dry spell of the pool |
| `iphashmap_dict` | `DictSpec` (refinement) | 6 300 | 4 addresses, 3 of them in one of 2 buckets, 2 data, 2 files |
| `log_safety` | once and in order, lost with cause, frames, draining | 158 000 | 3 records, frames that hold two of them or, of the longest, none; 2 frames, 3 changes of configuration |
| `daemon_start` | the father's answer, one server, launches end | 636 000 | 2 launches, 2 faults (a process killed, a check that fails), 1 PID used again |
| `stack_lifo` | size, `StackSpec` (refinement); calls end | 321 000 | 2 threads, 3 nodes, 5 calls |

*Why the bounds are enough.* Three addresses let a first, a last and a middle zone
exist at once and be reused; 4 frames let the pool shrink and grow again. Two
frames in a queue are needed to lose the pointer to its end, and a third to see
where the next one goes. Vecs of 2 bytes can be left half full, 2 vecs make a frame
whose first vec is full. A loop limit of 1 or 2 is reached and also not reached. A
pause level of 2 tells the application's pause from the stream's own. A second abort can
come out of the callbacks of the first. Depth 4 to 6 is a
handler whose callback writes, whose writing fails or ends, whose callback calls again.
Three subscribers with callbacks are one being called, one before and one behind it;
two nested publishings can be at different places of one chain. Two listeners and two
connections are pending in one iteration of the loop while the first handler stops the
context; SIGTERM has the handler of SIGINT. Three addresses in one bucket are a head, a
middle and a tail of its chain; the fourth keeps the map from being empty. Three records
fill a frame of two and begin the next; two frames are one being filled and one in the
queue. Of two launches the second meets whatever the first has left at each system call;
two faults take away a daemon and someone who waits for it, or a daemon and the check of the
launch that follows. Names of up to 5 bytes are on both sides of a buffer of 5, users of up to
15 on both sides of a frame of 26. Two threads and four calls are
enough for a node to be popped, freed, allocated and pushed again under the other thread's
pop; with an exchange that compares the pointer alone TLC finds that.

Symmetry is used for subscribers only, in a run without liveness. Deadlock is not
checked: an application that does nothing more is a legal end.

### Fairness

Only where liveness is checked.

* `FramePool`: weak fairness of the heartbeat, a repeating timer of the context, and of time.
* `Stream`: weak fairness of `Handler` (C functions and callbacks return), strong fairness
  of each watcher (libev invokes every watcher whose descriptor is ready in each turn of
  its loop; strong, because a handler of the same socket runs in between), weak fairness of
  `connect()` ending and of the peer reading.
* `Listener`: weak fairness of the loop (`Handler`, `LoopStep`, `PollDescriptors`), of
  callbacks returning and of peers closing in the end; strong fairness of `accept()`
  succeeding at a listener that is invoked again and again, which is to say that
  descriptors do not stay exhausted.
* `Socks`: weak fairness of what the loop does: what is ready is read, what is queued is
  written, `connect()` ends, the relays are looked through (`Check`), an assertion that cannot
  hold fails (`ReadAsserts`).
* `Log`: the loop prepares to sleep, and a socket that is watched can be written one day or
  fails. Both are weak fairness with what enables the action written out, because TLC would
  have to compute all answers of the kernel to find out.
* `Daemon`: processes run; the father and the daemon need strong fairness because they wait
  for a file lock that others may take and give back: the one who waits gets it some day.
  Failures (`CheckFails`, `Kill`) are not fair: none need happen. `LaunchEnds` is stated for all
  launches at once, again and again; as a launch begins only once, that is the end of each.

* `LockFreeStack`: threads run; strong fairness of the exchanges, because a weak exchange
  may fail for no reason but not for ever. `CallsEnd` is about a bounded number of calls:
  with others that never stop, `include/ft/cols/stack.h` admits starvation (line 10).

Nothing is assumed of the application: liveness properties except what it may prevent
(pausing, stopping, finalising).

### What is assumed of the application

Finalising a socket only from the event loop, not from its own callbacks, because the handlers
use it afterwards; no shutdown from the error callback (`include/ft/sock/dgram.h` line 15 and
the same line in `stream.h`); no `READ_START` on a socket that has been aborted or shut down
and no `WRITE_START` on a stream that is connecting or has failed; a frame left to the socket
by a read callback has room again. A listener is not removed from inside its own accept
callback, nor is one created or started after `ft_context_stop`; the subscriber to the exit
message stops all listeners, as in every program under `examples/`; listeners and streams are
finalised before the context. A frame is returned to the pool by its holder, or twice (which
the pool must stop). An application switches to syslog when its socket is initialised. The
messages libft logs of itself fit an empty frame (`OwnFits`); those of the application may be
of any length. A SOCKS client waits for an answer before it goes on. A server checks for
another one before it becomes a daemon, as `examples/http_server` does.

## 5. Findings

With a run of its own; TLC's trace is the shortest way into it.

* `dgram_control`: each attempt to send a frame with a control block takes a vec off it
  (`src/sock/dgram.c` line 695); the third one fails an assertion.

Met while modelling, without a run of their own.

*Pool.* After the heartbeat has unmapped the last zone, `last_zone` stays set and the pool
never grows again (`pool.c` line 94; in the model, and `StoreSpec` allows a refusal);
`frames_total`
keeps counting unmapped zones (`zone.c` line 69), so that a low-memory message may come
late, but, as `LowmemNeverUnderstates` says, never tells of fewer frames than there are;
`free_on_hb` arms a timer rather than removing the zone "during next heartbeat" (`zone.h`
line 19).

*Stream.* A refused connection leaves `connecting` set, and the write handler fails its
assertion if writing was started meanwhile (line 1119, excluded by an assumption on the
application); without a frame for the end of the stream the stream pauses, and resuming does
not submit the end of the stream any more (line 586); pausing in a read callback does not end
the read loop although `stream.c` line 835 and `dgram.c` line 552 say so; after a partial read
the read event is set whatever the callback asked for (line 816); an abort after the end of
the stream submits another one (line 1209) and leaves the queue open for frames (line 1213); a
stream that is aborted from its read callback, which then leaves it the frame, hands the frame
over after the end of the stream when it is aborted again (line 549; found by the proof of
`EosIsLast`, which excepts it); finalising a connecting stream leaves its write watcher active
(line 320). With TLS, unmodelled: a write that wants to read, or a read that wants to write,
stops the watcher the other direction may need (line 1029), and `SSL_shutdown` leaves a status
the assertions of reading and writing do not expect (line 1432).

*Dgram.* The frame lost to an error leaves the frames behind it waiting until the
application writes again (line 738); `ft_dgram_flush` never returns once a connected socket
has failed (line 195; `Log` keeps it as the phase "looping"); `ft_dgram_fini` returns no
frame of the write queue (line 173); an empty datagram, which is legal, shuts the socket
down (line 516).

*Publish-subscribe, context, listener.* A subscriber that unsubscribes itself in its callback
cuts off those behind it (`pubsub.c` line 137, excepted in `EveryoneCalled`); SIGHUP kills a
process whose shutdown timer has fired (`context.c` line 183); a bad address takes one off
the number of listeners that `ft_listener_list_extend_autov` returns (`listener.c` line
568); `ft_listener_init` removes the UNIX socket of a running process as a stalled one (line
46).

*SOCKS.* A request that ends in the middle is parsed with what the memory of the frame held
before, because the end of the stream submits a frame that is not full (`stream.c` line 556,
`socks.c` line 308, excepted in `RequestExact`); a client whose request is not understood is
not read any more, so its relay is never removed (lines 352 to 355, excepted in
`RelayEnds`); `||` in the relay's check drops what is still queued for the client
(`main_socks.c` line 257); the frame of the last answer leaks when it cannot be written
(`socks.c` lines 434 to 437, and `main_socks.c` line 122 ignores the result); errors of
SOCKS 5 are answered in the form of SOCKS 4 (lines 171 to 174).

Requests that the code does not stand, all in the model: a SOCKS 5 name of no length grows the
vec by nothing (`socks.c` line 563), and the next read fails `assert(size_to_read > 0)` at
`stream.c` line 654; the lengths of users and names are not bounded ("TODO", lines 240 and
268), so that a vec grows over the vecs behind it, or the one that follows does not fit and is
missing. `AlwaysRoom` says that there is room whenever the request is none of these
(`RoomFor`), and `RelayEnds` that the others end in the phase "broken" or like any relay. A
name of 255 bytes, which SOCKS 5 allows, is cut to 254 (line 111: `snprintf` gets
`sizeof(host)-1`), and a longer one of SOCKS 4A to 255 (line 80): the relay connects to a name
nobody asked for, of which `RequestExact` only says that it is the beginning of the right one.

*The relay.* `main_socks.c` line 211 asks for memory that nobody clears (`list.h` line 16), and
its handlers look at the stream to the target before `ft_stream_connect` has initialised it
(lines 49 and 257): a relay may be removed before its time, or an assertion fails on the junk
it finds there ("broken"). When `connect()` fails at once the stream stays behind half
initialised, its descriptor closed (`stream.c` lines 231 to 237); removing the relay closes
that number again (line 319; descriptors are not modelled).

*Logging.* `ft_log_syslog_backend_on_prepare` borrows a frame ("Make sure that we have a
frame", `log_syslog.c` line 278) and uses it at line 285 without looking whether it got one
(the phase "crashed" of `Log`). The records in a frame the closed socket refuses are lost
(`log_syslog.c` line 269, "TODO"), and the warning about it is lost in the same way at each
turn of the loop; a record that does not fit an empty frame, whose length nothing bounds
(`log.c` line 28), is tried again for ever (line 144; the phase "retrying", and the one record
of which `LostOnlyWithCause` says nothing); once finalised, or after a failed `connect()`,
syslog cannot be initialised again; a forced flush sets the time of the last one to 1e77, so
that the interval is never over again and a second one does nothing until the counter is full
(`log_file.c` line 182); `log.h` line 195 says that finalising reverts to the initial
configuration, which has the file back end, but it leaves none.

*Daemon.* When the check for a running server cannot open, lock or read the PID file it
returns -1 (`daemon.c` lines 507 to 525; in the last case it unlinks the file), which
`http_server/main.c` line 68 takes for "not running": a second server starts beside the first.
`OneServer` claims nothing once that has happened (`misled`); without this exception TLC finds
the two servers. Between the check and the creation of the PID file (`http_server/main.c`
lines 68 and 134) another launch can pass, so `OneServer` claims nothing of launches that
overlap; an empty PID file, which a killed creation leaves behind, reads as PID 0, which
always runs (`daemon.c` line 544); `ft_pidfile_create` does not truncate the file it rewrites
and, without a name, does not restore the umask (lines 417 to 424).

*Hash map.* Clearing and finalising free the buckets and not the entries in them
(`iphashmap.c` lines 25 and 38).

*Lock-free stack.* A pop reads a node that another thread may have freed (`stack.c` line
63). The exchange that follows fails, but the read is undefined, and crashes where the
allocator has given the memory back to the system.

## 6. Proofs

Checked by `tlapm FramePoolProofs.tla` and so on, for every value of the constants.

| Theorem | States |
|---|---|
| `PoolInvariant` | the inductive invariant `IInv` of the pool |
| `PoolTypeCorrect` | `Spec => []TypeOK` |
| `PoolSafe` | `Spec => [](OneHolder /\ Accounting)` |
| `UnmapIsLate` | `Spec => UnmapOnlyAfterTimeout` |
| `FiniIsSafe` | `Spec => FiniOnlyWithoutHolders` |
| `PoolImplementsStore` | `Spec => StoreSpec` |
| `LowmemIsNeverTooLow` | `Spec => []LowmemNeverUnderstates` |
| `InvHolds` | the inductive invariant `Inv` of the stream |
| `ReadWatchIsExact` | `Spec => []ReadWatchExact` |
| `WriteWatchIsSound` | `Spec => []WriteWatchSound` |
| `ErrorsAreQuiet` | `Spec => []QuietAfterError` |
| `NothingIsDropped` | `Spec => []NothingDropped` |
| `EosComesLast` | `Spec => EosIsLast` |
| `AssertionsAlwaysHold` | `Spec => []AssertionsHold` |
| `FramesAreSentInOrder` | `Spec => []SentInOrder` |
| `ChainsStayExact` | `Spec => []ChainsExact` |
| `NobodyCalledTwice` | `Spec => []CalledOnce` |
| `EveryoneIsCalled` | `Spec => EveryoneCalled` |
| `InvHolds` (`DgramProofs`) | the inductive invariant `Inv` of the datagram socket |
| `ReadWatchIsExact` (`DgramProofs`) | `Spec => []ReadWatchExact` |
| `WriteWatchIsSound` (`DgramProofs`) | `Spec => []WriteWatchSound` |
| `FramesAreSentInOrder` (`DgramProofs`) | `Spec => []SentInOrder` |
| `EosComesLast` (`DgramProofs`) | `Spec => EosIsLast` |
| `OnlyControlBreaks` | no frame with a control block, no failed assertion |
| `LoopIsHeldByApplication` | `Spec => []LoopCountsApplication` |
| `NothingAcceptedAfterExit` | `Spec => NoAcceptAfterExit` |
| `HandshakeIsTrue` | `Spec => []HandshakeTrue` |
| `OneServerRuns` | `Spec => []OneServer` |
| `MapChainsSound` | `Spec => []ChainsSound`: each entry in its chain, and once |
| `MapCountExact` | `Spec => []CountExact` |
| `MapIsDictionary` | `Spec => DictSpec` |
| `StackChained` | `Spec => []ChainExact`: no holes, no loops |
| `StackSizeExact` | `Spec => []SizeExact` |
| `StackIsLifo` | `Spec => StackSpec` |
| `InvHolds` (`LogProofs`) | the inductive invariant `Inv` of the logging |
| `RecordsInOrder` | `Spec => []OnceInOrder` |
| `LossesHaveCause` | `Spec => []LostOnlyWithCause` |
| `FramesAreAccounted` | `Spec => []FramesAccounted` |
| `FormatsSound`, `AppendSound`, `VecChangesSound`, `MovesSound` | the operations on frames and vecs keep `WellFormed` |

**The pool.** For every set of zone addresses (finite or not), zone sizes, timeout,
low-memory limit and bound `MaxTotal`, from the assumptions of `FramePool` alone:
`AllocatorsAssumption`, `SizesAssumption`, `LimitsAssumption`. `OneHolder` is not inductive:
a heartbeat could unmap a zone whose counter is zero while a frame of it is out, so the
counters must be exact (`Accounting`), and borrowing must find on the stack a frame that is
not out. Exact counters of finite sets need `IsFiniteSet(inUse)`. `Shape` says that unchained
zones have no frames, which keeps an address from being mapped over remains of its last use,
and that sizes stay in the index range. `Timer` relates what cannot be seen in one state, the
length of the present idle spell, to what the code keeps: with the timer armed, time left and
time idle add up to at least the timeout. It fails the moment `ft_frame_return` forgets to
raise `free_on_hb`, because `free_at` is then of an earlier spell. There is one lemma per
action, `NextInv` joins them; lemmas about stacks without repetitions and about counting stand
before. The refinement maps a borrow to `Lend` or `Grow`, a return to `TakeBack`, a heartbeat
and finalisation to `Shrink`, the rest to stuttering; `ExhaustedMeansAllHeld` is why the pool
only grows when everything is lent.

`LowmemNeverUnderstates` needs one thing more (`Counted`): the zones in the chain have no more
frames than `frames_total` says, which no longer is equality once a zone has been unmapped,
because nothing is taken off the total then. The message subtracts the used frames from that
total, so it may only be too high.

**The stream.** For every size of vec, frame and kernel buffer, both loop limits, every set of
things the application does (`Cntl`), every depth of callbacks and number of bytes, frames,
pauses and aborts, from `SizesAssumption`, `LoopsAssumption` and `BoundsAssumption`. The
properties are about turns of the event loop, where nothing runs; to be inductive they must say
what holds in the middle of every handler and under any callbacks. The first part of `Inv` is
therefore about the stack: `Shape` says which functions can only be innermost (the loops,
which call back by becoming a callback) and which only outermost (what `_ft_stream_on_read`
calls, since a callback cannot start it). What is running is then a set, `Active`, and lemmas
tell for each handler how it changes (`HandlerSteps`, `CallSteps`: it returns, becomes or
calls). On it rest six parts, each with a lemma that every step keeps it:

* `Reading`: the read watcher is exact at *every* moment, but for the time the error callback
  runs, since `_ft_stream_error` stops the watchers only after it.
* `Bytes`: received is handed over plus what is in the read frame, which is not there while
  a callback has it and empty when the end of the stream is submitted.
* `Ending`: who may still be delivering before, while and after the end of the stream is
  submitted. It counts aborts, because only an abort starts a second shutdown of the reading
  under a callback of the first.
* `Connection`: nothing is read or written before the stream is connected; with a pending
  connection there is no byte and no error from the peer.
* `Outgoing`: what has failed stays quiet, and frames in the queue are waited for by the
  watcher or by a write loop that is running.
* `Order`: the frames of the queue are the last ones accepted, all but the first untouched,
  the bytes of each are on the wire or left in it, and `tail` is the last of them. That the end
  of the stream is in the queue only with `write_open` cleared (`Outgoing`) is why the stale
  `tail` it leaves behind does no harm.

`EosIsLast` claimed too much before it was proved: with a second abort, which no run had, a
frame can follow the end of the stream. The run now has two aborts, and the property excepts
that case and nothing else.

**The datagram socket.** For every number of vecs of a frame, frames to write, datagrams,
loops, pauses and depth of callbacks, from `DgramBounds`. As for the stream, the watchers are
exact in the middle of every handler, and what is not waited for is owed by a function that is
running (`Writable`: by the write loop, or by the error callback, behind which the socket is
closed). `Queueing` says that the queue holds the last frames accepted, that `tail` is the last
of them, and that each has a vec left unless it has a control block. `Delivery` relates the
frames accepted to what was sent: `Ordered` by position, `Complete` by the vecs of each frame
(`vec_position` is the number of those sent). Frames with a control block and frames lost to an
error are excepted, as in the properties. Once the assertion on control blocks has failed
nothing more is claimed; `OnlyControlBreaks` says that it fails for nothing else, and
`dgram_control` shows that it does fail.

**Publishing.** For any subscribers, pubsubs, topics, silent subscribers, depth of nesting and
length of call, from the assumptions of `PubSub`. The invariant follows each running call
(`Tracked`): of those who have been subscribed all along, the ones behind the subscriber being
called have not been called and, unless that subscriber has unsubscribed itself (`cut`), the
ones before it have. "Behind" is an order on the chain, and the lemmas are about what appending
and unlinking do to it: neither swaps two who stay. That each subscriber is in one chain, and
once (`ChainsExact`), is what makes the place of a subscriber one place.

**Context and listeners.** For every finite set of listeners and of connections, from
`WatcherAssumption` and `ListenerAssumption`. `LoopCountsApplication` is inductive only with
`ExitOnce`: the watchers of the context are started and then taken off the count of libev by
`ev_unref`, so the shutdown timer, were it started a second time, would be taken off without
having been counted; the exit message, behind which it is started, is published once.
`NoAcceptAfterExit` needs that only listeners of the list are ever started (`Silenced`), for
the subscriber to the exit message stops those.

**The daemon.** For any number of launches, processes killed, failing checks and PIDs used
again, from `DaemonAssumption`. `HandshakeTrue` rests on three relations of the places of the
three processes of a launch: who has forked whom, what is in the pipe while somebody may still
write into it, and what the father has made of it. `OneServer` holds of launches that do not
overlap, as long as no check fails while a server is running: a check that fails with none
running leads where the others lead, to forking with the file unlinked or left for the daemon
to write over (`FailedCheckKeepsServer`). What makes it inductive is that only one of them is
under way (`Alone`) and that the file the PID is written to is the one the name refers to,
from the lock on (`Named`).

**The hash map.** For every finite set of addresses, every hash function, number of buckets,
data, texts and files, from `MapAssumption` and `TextAssumption`. The invariant is `TypeOK`,
`ChainsSound` and `CountExact` together. That popping an address removes it from the
dictionary needs each address to be in one chain only, and once; that an empty counter may
free the buckets needs the counter to be the number of addresses that can be found, which is
preserved by popping only because of the former. `Held` being a subset of the finite `Key`
is what makes counting go through. One lemma shows what each operation on the chains does
to `Held` and `ValueOf`; `NextStep` maps each action to one of `Dictionary`.

**The stack.** For every set of nodes and every finite set of threads, from
`StackAssumption`. The invariant: the pointers from the head form `content`, without
repetition (`ChainExact`); a node that a thread has is not in the stack and no other
thread's (`Owned`); where a thread is tells whether it has a node (`Placed`); and its copy
of the head is older than the head or *is* the head, and then what it has written into its
node, or read from the node it is to pop, is what is true now (`CopySound`). The last is
where the counter is used: without it a copy equal to the head could be an old one. The node
of a copy that is the head is in the stack, so it has not been freed and its pointer was not
an arbitrary value. A push takes effect at its exchange, a pop at its exchange or where it
loads an empty head. `SizeExact` counts the threads that stand between an exchange and the
change of the size.

**Logging.** For every size of messages, headers, frames and vecs, every number of frames of
the pool, records, changes and answers of the kernel, from `LogAssumption`, `NoneAssumption`
and `FrameAssumption`. Records may be longer than a frame. The properties are about records
that have been logged; the code is a log call that calls itself by way of the pool and the
socket, so the invariant is one of a value `g`, the state in the middle of a call, as well as
of the state: `Good(g)` is its types, a frame that is `WellFormed`, a socket that is used only
while it is initialised, and `InOrder(g)`. `Moves(g, h, x)` is what any part of a handler may
do between two such states: bring the record `x` and no other into a sink, lose none unless
the socket has failed, and keep the number of frames. `LeKept` adds the static record of
`_ft_log_v`, which may turn into one of libft's own only when the pool is dry or the socket
fails. It is proved first of the parts that print nested records (`Reentry`), then of a whole
log call, and then of those that make log calls (`Top`), since flushing, preparing and writing
log too. That a record is newer than all before it (`Fresh`, from `Somewhere(Log) \subseteq 0
.. Len(logged)`) makes appending it keep the order; that the parts move frames between pool,
hand and queue and never drop one makes `FramesAccounted` exact, in which only the last vec of
a frame in the queue stands for the frame.

**Frames.** For every size of frame and vec (`FrameAssumption`), and every frame that is
`WellFormed`. The vecs grow down while the data grow up, so appending needs room for both;
the lemmas are about where the last vec ends. Removing the last vec keeps the frame sound
only if `vec_position` is not behind it, which is what `dgram_control` shows going wrong.

Only model-checked: liveness (`IdleZoneIsUnmapped`, `EverythingSent`, `EosArrives`, `LoopEnds`,
`EveryoneAccepted`, `RelayEnds`, `SyslogDrains`, `LaunchEnds`, `CallsEnd`), which is out of the
prover's reach; the hash functions, which are computed by bits; the finding about control
blocks; and the properties of `Socks`. `RequestExact` and `RelayInOrder` are about requests and
bytes put together from segments, which is induction over data, and `AlwaysRoom` is about the
lengths of such sequences.
`TypeOK`, `Accounting` and `FiniOnlyWithoutHolders` of `FramePool`, `ChainsSound` and
`CountExact` of `IPHashMap` and `ChainExact` of `LockFreeStack` are proved and not part of a run.

## 7. Not modelled

`PROJECT.json` lists every component.

* TLS: its steps are those of OpenSSL, which is not in the repository; what its calls leave
  behind would be invented.
* The list, which the listener's model keeps as a set.
* The configuration, the INI parser, addresses, base32, loading and saving frames: conversions
  and system calls, some of it vendored. The HTTP parser and protobuf-c under `examples/` are
  third-party code.

In the modelled components: `EV_ERROR` of libev, which means a bad descriptor; statistics and
time stamps that nothing reads; `mlock`, `madvise` and erasing of pages; failing `bind()` and
`connect()` of datagram sockets and the file of a UNIX socket; `get_read_frame` and
`ft_frame_return` calling the socket back; memory of objects after they are freed; the forms of
addresses that `ft_listener_list_extend_auto` recognises; `ev_break` called by an application;
signals after `ft_context_fini`, which leaves the handlers installed; SOCKS requests sent ahead
of an answer; the text of a log record beyond
its length; a pool that is dry for one borrow of a log call and not for the next; a child
of the daemon that is stopped rather than killed, and an interrupted `waitpid()`.
